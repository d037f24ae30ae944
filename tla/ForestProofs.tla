----------------------------- MODULE ForestProofs -----------------------------
(***************************************************************************)
(* Lemmas about father forests and closure tables.  They speak of          *)
(* arbitrary values st, fa, cl of the three variables, before and after a  *)
(* step, through the one predicate they need: a is above d by n            *)
(* generations and both are live.                                          *)
(***************************************************************************)
EXTENDS FatherForest, FiniteSetTheorems, WellFoundedInduction, TLAPS

Line(st, cl, a, d, n) == st[a] = "live" /\ st[d] = "live" /\ <<a, d, n>> \in cl

Typed(st, fa, cl) ==
  /\ st \in [Persons -> States]
  /\ fa \in [Persons -> Persons \cup {None}]
  /\ cl \subseteq Row

Fathers(st, fa) ==
  \A p \in Persons : st[p] = "live" /\ fa[p] # None => st[fa[p]] = "live"

Born(st, cl) ==
  \A a, d \in Persons : \A n \in Nat :
    <<a, d, n>> \in cl => st[a] # "unborn" /\ st[d] # "unborn"

\* Records, one row at a time.
Zero(st, cl) ==
  \A a, p \in Persons : st[p] = "live" => (Line(st, cl, a, p, 0) <=> a = p)
Step(st, fa, cl) ==
  \A a, p \in Persons : \A n \in Nat :
    st[p] = "live" =>
      (Line(st, cl, a, p, n + 1) <=> fa[p] # None /\ Line(st, cl, a, fa[p], n))

NoCycle(st, cl) ==
  \A a, d \in Persons : \A m, n \in Nat :
    Line(st, cl, a, d, m) /\ Line(st, cl, d, a, n) => a = d /\ m = 0

Trans(st, cl) ==
  \A a, b, d \in Persons : \A m, n \in Nat :
    Line(st, cl, a, b, m) /\ Line(st, cl, b, d, n) => Line(st, cl, a, d, m + n)

Lines(st, fa, cl) ==
  Zero(st, cl) /\ Step(st, fa, cl) /\ NoCycle(st, cl) /\ Trans(st, cl)

Good(st, fa, cl) ==
  Typed(st, fa, cl) /\ Fathers(st, fa) /\ Born(st, cl) /\ Lines(st, fa, cl)

\* The invariant written row by row.
LEMMA RowByRow ==
  ASSUME NEW st, NEW fa, NEW cl, Typed(st, fa, cl), Fathers(st, fa)
  PROVE  LET live == {p \in Persons : st[p] = "live"}
             rows == {r \in cl : r[1] \in live /\ r[2] \in live}
             above(p) == {<<r[1], r[3]>> : r \in {s \in rows : s[2] = p}}
         IN (\A p \in live :
               above(p) = {<<p, 0>>} \cup
                 (IF fa[p] = None THEN {}
                  ELSE {<<a[1], a[2] + 1>> : a \in above(fa[p])}))
            <=> Zero(st, cl) /\ Step(st, fa, cl)
<1> DEFINE live == {p \in Persons : st[p] = "live"}
           rows == {r \in cl : r[1] \in live /\ r[2] \in live}
           above(p) == {<<r[1], r[3]>> : r \in {s \in rows : s[2] = p}}
           lifted(p) == IF fa[p] = None THEN {}
                        ELSE {<<a[1], a[2] + 1>> : a \in above(fa[p])}
<1>1. \A p \in Persons : above(p) \subseteq Persons \X Nat
  BY DEF Typed, Row
<1>2. \A a, p \in Persons : \A n \in Nat :
        <<a, n>> \in above(p) <=> Line(st, cl, a, p, n)
  BY DEF Typed, Row, Line
<1>3. \A p \in live : lifted(p) \subseteq Persons \X Nat
  BY <1>1 DEF Typed, Fathers
<1>4. \A a \in Persons : \A p \in live : <<a, 0>> \notin lifted(p)
  <2> SUFFICES ASSUME NEW a \in Persons, NEW p \in live,
                      fa[p] # None, NEW b \in above(fa[p]),
                      <<a, 0>> = <<b[1], b[2] + 1>>
               PROVE  FALSE
    OBVIOUS
  <2>1. b[2] \in Nat
    BY <1>1 DEF Typed
  <2> QED BY <2>1
<1>5. \A a \in Persons : \A p \in live : \A n \in Nat :
        <<a, n + 1>> \in lifted(p) <=> fa[p] # None /\ Line(st, cl, a, fa[p], n)
  <2> SUFFICES ASSUME NEW a \in Persons, NEW p \in live, NEW n \in Nat,
                      fa[p] # None
               PROVE  <<a, n + 1>> \in lifted(p) <=> <<a, n>> \in above(fa[p])
    BY <1>2 DEF Typed
  <2>1. ASSUME <<a, n>> \in above(fa[p]) PROVE <<a, n + 1>> \in lifted(p)
    <3> DEFINE b == <<a, n>>
    <3>1. b \in above(fa[p]) /\ <<a, n + 1>> = <<b[1], b[2] + 1>>
      BY <2>1
    <3> HIDE DEF above, b
    <3> QED BY <3>1
  <2>2. ASSUME <<a, n + 1>> \in lifted(p) PROVE <<a, n>> \in above(fa[p])
    <3>1. PICK b \in above(fa[p]) : <<a, n + 1>> = <<b[1], b[2] + 1>>
      BY <2>2
    <3>2. b \in Persons \X Nat
      BY <1>1 DEF Typed
    <3>3. b[1] = a /\ b[2] = n
      BY <3>1, <3>2
    <3> QED BY <3>2, <3>3
  <2> QED BY <2>1, <2>2
<1>6. ASSUME \A p \in live : above(p) = {<<p, 0>>} \cup lifted(p)
      PROVE  Zero(st, cl) /\ Step(st, fa, cl)
  <2>1. Zero(st, cl)
    BY <1>2, <1>4, <1>6 DEF Zero
  <2>2. Step(st, fa, cl)
    <3> SUFFICES ASSUME NEW a \in Persons, NEW p \in live, NEW n \in Nat
                 PROVE  Line(st, cl, a, p, n + 1)
                          <=> fa[p] # None /\ Line(st, cl, a, fa[p], n)
      BY DEF Step
    <3>1. <<a, n + 1>> # <<p, 0>> /\ n + 1 \in Nat
      OBVIOUS
    <3> HIDE DEF above, lifted
    <3>2. Line(st, cl, a, p, n + 1) <=> <<a, n + 1>> \in above(p)
      BY <1>2, <3>1
    <3>3. above(p) = {<<p, 0>>} \cup lifted(p)
      BY <1>6
    <3> QED BY <1>5, <3>1, <3>2, <3>3
  <2> QED BY <2>1, <2>2
<1>7. ASSUME Zero(st, cl), Step(st, fa, cl), NEW p \in live
      PROVE  above(p) = {<<p, 0>>} \cup lifted(p)
  <2>1. ASSUME NEW a \in Persons, NEW n \in Nat
        PROVE  <<a, n>> \in above(p) <=> <<a, n>> \in {<<p, 0>>} \cup lifted(p)
    <3>1. CASE n = 0
      BY <3>1, <1>2, <1>4, <1>7 DEF Zero
    <3>2. CASE n # 0
      <4>1. PICK k \in Nat : n = k + 1
        <5>1. n - 1 \in Nat /\ n = (n - 1) + 1
          BY <3>2
        <5> QED BY <5>1
      <4>2. <<a, n>> # <<p, 0>>
        BY <3>2
      <4>3. Line(st, cl, a, p, k + 1)
              <=> fa[p] # None /\ Line(st, cl, a, fa[p], k)
        BY <1>7 DEF Step
      <4> QED BY <4>1, <4>2, <4>3, <1>2, <1>5
    <3> QED BY <3>1, <3>2
  <2>2. <<p, 0>> \in Persons \X Nat
    OBVIOUS
  <2> HIDE DEF above, lifted
  <2> QED BY <2>1, <2>2, <1>1, <1>3
<1> QED BY <1>6, <1>7

-----------------------------------------------------------------------------
(* Moving a subtree *)

\* Below x, among the living: x, and whoever's father is below x.
LEMMA BelowByFather ==
  ASSUME NEW st, NEW fa, NEW cl, Good(st, fa, cl),
         NEW x \in Persons, st[x] = "live",
         NEW d \in Persons, st[d] = "live"
  PROVE  /\ d \in Below(cl, x) <=> \E k \in Nat : Line(st, cl, x, d, k)
         /\ x \in Below(cl, x)
         /\ d # x => (d \in Below(cl, x)
                         <=> fa[d] # None /\ fa[d] \in Below(cl, x))
<1>1. ASSUME NEW e \in Persons, st[e] = "live"
      PROVE  e \in Below(cl, x) <=> \E k \in Nat : Line(st, cl, x, e, k)
  <2>1. ASSUME e \in Below(cl, x)
        PROVE  \E k \in Nat : Line(st, cl, x, e, k)
    <3>1. PICK r \in cl : r[1] = x /\ r[2] = e
      BY <2>1 DEF Below
    <3>2. r[3] \in Nat /\ r = <<x, e, r[3]>>
      BY <3>1 DEF Good, Typed, Row
    <3> QED BY <1>1, <3>1, <3>2 DEF Line
  <2>2. ASSUME NEW k \in Nat, Line(st, cl, x, e, k)
        PROVE  e \in Below(cl, x)
    <3> DEFINE r == <<x, e, k>>
    <3>1. r \in cl /\ r[1] = x /\ r[2] = e
      BY <2>2 DEF Line
    <3> HIDE DEF r
    <3> QED BY <1>1, <3>1 DEF Below
  <2> QED BY <2>1, <2>2
<1>2. x \in Below(cl, x)
  BY <1>1 DEF Good, Lines, Zero
<1>3. ASSUME d # x, d \in Below(cl, x)
      PROVE  fa[d] # None /\ fa[d] \in Below(cl, x)
  <2>1. PICK k \in Nat : Line(st, cl, x, d, k)
    BY <1>1, <1>3
  <2>2. k # 0
    BY <1>3, <2>1 DEF Good, Lines, Zero
  <2>3. PICK j \in Nat : k = j + 1
    <3>1. k - 1 \in Nat /\ k = (k - 1) + 1
      BY <2>2
    <3> QED BY <3>1
  <2>4. fa[d] # None /\ Line(st, cl, x, fa[d], j)
    BY <2>1, <2>3 DEF Good, Lines, Step
  <2>5. fa[d] \in Persons /\ st[fa[d]] = "live"
    BY <2>4 DEF Good, Typed, Fathers
  <2> QED BY <1>1, <2>4, <2>5
<1>4. ASSUME fa[d] # None, fa[d] \in Below(cl, x)
      PROVE  d \in Below(cl, x)
  <2>1. fa[d] \in Persons /\ st[fa[d]] = "live"
    BY <1>4 DEF Good, Typed, Fathers
  <2>2. PICK k \in Nat : Line(st, cl, x, fa[d], k)
    BY <1>1, <1>4, <2>1
  <2>3. Line(st, cl, x, d, k + 1)
    BY <1>4, <2>2 DEF Good, Lines, Step
  <2>4. k + 1 \in Nat
    OBVIOUS
  <2> QED BY <1>1, <2>3, <2>4
<1> QED BY <1>1, <1>2, <1>3, <1>4

\* Lines after moveSubtree: those that do not enter the subtree from outside,
\* and those through the edge from f to x.
Grafted(st, cl, x, f, a, d, n) ==
  \E s, k \in Nat : Line(st, cl, a, f, s) /\ Line(st, cl, x, d, k) /\ n = s + k + 1

LEMMA LinesAfterMove ==
  ASSUME NEW st, NEW fa, NEW cl, Good(st, fa, cl),
         NEW x \in Persons, st[x] = "live",
         NEW f \in Persons \cup {None},
         f # None => st[f] = "live" /\ f \notin Below(cl, x)
  PROVE  LET new == Under(cl \ Strip(cl, x), x, f)
         IN /\ new \subseteq Row
            /\ \A a, d \in Persons : \A n \in Nat :
                 Line(st, new, a, d, n) <=>
                   \/ /\ Line(st, cl, a, d, n)
                      /\ d \in Below(cl, x) => a \in Below(cl, x)
                   \/ f # None /\ Grafted(st, cl, x, f, a, d, n)
<1> DEFINE rest == cl \ Strip(cl, x)
           new == Under(rest, x, f)
<1>1. cl \subseteq Row /\ rest \subseteq Row
  BY DEF Good, Typed
<1>2. \A a, d \in Persons : \A n \in Nat :
        <<a, d, n>> \in rest <=>
          <<a, d, n>> \in cl /\ (d \in Below(cl, x) => a \in Below(cl, x))
  BY DEF Strip
<1>3. x \in Below(cl, x)
  BY BelowByFather
<1>4. ASSUME NEW a \in Persons, NEW d \in Persons, NEW n \in Nat, f # None
      PROVE  <<a, d, n>> \in Graft(rest, x, f) <=>
               \E s, k \in Nat : /\ <<a, f, s>> \in cl
                                /\ <<x, d, k>> \in cl
                                /\ n = s + k + 1
  <2>1. ASSUME NEW s \in Nat, NEW k \in Nat, <<a, f, s>> \in cl,
               <<x, d, k>> \in cl, n = s + k + 1
        PROVE  <<a, d, n>> \in Graft(rest, x, f)
    <3> DEFINE up == <<a, f, s>>
               down == <<x, d, k>>
    <3>1. up \in rest /\ down \in rest
      BY <1>2, <1>3, <1>4, <2>1
    <3>2. up \in {r \in rest : r[2] = f} /\ down \in {r \in rest : r[1] = x}
      BY <3>1
    <3>3. <<a, d, n>> = <<up[1], down[2], up[3] + down[3] + 1>>
      BY <2>1
    <3> HIDE DEF up, down, rest
    <3> QED BY <3>2, <3>3 DEF Graft
  <2>2. ASSUME <<a, d, n>> \in Graft(rest, x, f)
        PROVE  \E s, k \in Nat : /\ <<a, f, s>> \in cl
                                /\ <<x, d, k>> \in cl
                                /\ n = s + k + 1
    <3>1. PICK up \in {r \in rest : r[2] = f}, down \in {r \in rest : r[1] = x} :
            <<a, d, n>> = <<up[1], down[2], up[3] + down[3] + 1>>
      BY <2>2 DEF Graft
    <3>2. up \in cl /\ down \in cl /\ up \in Row /\ down \in Row
      BY <1>1
    <3>3. up[3] \in Nat /\ down[3] \in Nat
      BY <3>2 DEF Row
    <3>4. up = <<a, f, up[3]>> /\ down = <<x, d, down[3]>>
      BY <3>1, <3>2 DEF Row
    <3>5. n = up[3] + down[3] + 1
      BY <3>1
    <3> QED BY <3>2, <3>3, <3>4, <3>5
  <2> QED BY <2>1, <2>2
<1>5. new \subseteq Row
  <2>1. CASE f = None
    BY <1>1, <2>1 DEF Under
  <2>2. CASE f # None
    <3>1. ASSUME NEW up \in rest, NEW down \in rest
          PROVE  <<up[1], down[2], up[3] + down[3] + 1>> \in Row
      <4>1. up \in Row /\ down \in Row
        BY <1>1
      <4> HIDE DEF rest
      <4> QED BY <4>1 DEF Row
    <3> HIDE DEF rest
    <3>2. Graft(rest, x, f) \subseteq Row
      BY <3>1 DEF Graft
    <3> QED BY <1>1, <2>2, <3>2 DEF Under
  <2> QED BY <2>1, <2>2
<1>6. ASSUME NEW a \in Persons, NEW d \in Persons, NEW n \in Nat
      PROVE  Line(st, new, a, d, n) <=>
               \/ /\ Line(st, cl, a, d, n)
                  /\ d \in Below(cl, x) => a \in Below(cl, x)
               \/ f # None /\ Grafted(st, cl, x, f, a, d, n)
  <2> HIDE DEF rest
  <2>1. CASE f = None
    BY <1>2, <2>1 DEF Under, Line
  <2>2. CASE f # None
    <3>1. <<a, d, n>> \in new
            <=> <<a, d, n>> \in rest \/ <<a, d, n>> \in Graft(rest, x, f)
      BY <2>2 DEF Under
    <3>2. ASSUME st[a] = "live", st[d] = "live"
          PROVE  Grafted(st, cl, x, f, a, d, n)
                   <=> \E s, k \in Nat : /\ <<a, f, s>> \in cl
                                        /\ <<x, d, k>> \in cl
                                        /\ n = s + k + 1
      BY <2>2, <3>2 DEF Grafted, Line
    <3>3. Grafted(st, cl, x, f, a, d, n) => st[a] = "live" /\ st[d] = "live"
      BY DEF Grafted, Line
    <3>4. Line(st, new, a, d, n)
            <=> st[a] = "live" /\ st[d] = "live" /\ <<a, d, n>> \in new
      BY DEF Line
    <3>5. Line(st, cl, a, d, n)
            <=> st[a] = "live" /\ st[d] = "live" /\ <<a, d, n>> \in cl
      BY DEF Line
    <3>6. <<a, d, n>> \in rest <=>
            <<a, d, n>> \in cl /\ (d \in Below(cl, x) => a \in Below(cl, x))
      BY <1>2
    <3>7. ASSUME st[a] = "live", st[d] = "live"
          PROVE  <<a, d, n>> \in Graft(rest, x, f)
                   <=> Grafted(st, cl, x, f, a, d, n)
      BY <1>4, <2>2, <3>2, <3>7
    <3> HIDE DEF new
    <3> QED BY <2>2, <3>1, <3>3, <3>4, <3>5, <3>6, <3>7
  <2> QED BY <2>1, <2>2
<1> QED BY <1>5, <1>6

LEMMA MoveKeepsGood ==
  ASSUME NEW st, NEW fa, NEW cl, Good(st, fa, cl),
         NEW x \in Persons, st[x] = "live",
         NEW f \in Persons \cup {None},
         f # None => st[f] = "live" /\ f \notin Below(cl, x)
  PROVE  Good(st, [fa EXCEPT ![x] = f], Under(cl \ Strip(cl, x), x, f))
<1> DEFINE new == Under(cl \ Strip(cl, x), x, f)
           fb == [fa EXCEPT ![x] = f]
           B(d) == d \in Below(cl, x)
           Graft1(a, d, n) == f # None /\ Grafted(st, cl, x, f, a, d, n)
<1>1. Typed(st, fa, cl) /\ Fathers(st, fa) /\ Born(st, cl)
      /\ Zero(st, cl) /\ Step(st, fa, cl) /\ NoCycle(st, cl) /\ Trans(st, cl)
  BY DEF Good, Lines
<1>2. \A a, d \in Persons : \A n \in Nat :
        Line(st, cl, a, d, n) => st[a] = "live" /\ st[d] = "live"
  BY DEF Line
<1>3. new \subseteq Row
  BY LinesAfterMove
<1>4. \A a, d \in Persons : \A n \in Nat :
        Line(st, new, a, d, n)
          <=> (Line(st, cl, a, d, n) /\ (B(d) => B(a))) \/ Graft1(a, d, n)
  BY LinesAfterMove
<1>5. \A d \in Persons : st[d] = "live" =>
        (B(d) <=> \E k \in Nat : Line(st, cl, x, d, k))
  BY BelowByFather
<1>6. B(x)
  BY BelowByFather
<1>7. \A d \in Persons : st[d] = "live" /\ d # x =>
        (B(d) <=> fa[d] # None /\ B(fa[d]))
  BY BelowByFather
<1>8. f # None => ~B(f) /\ f # x /\ f \in Persons
  BY <1>6
<1>9. ASSUME NEW a \in Persons, NEW d \in Persons, NEW n \in Nat, Graft1(a, d, n)
      PROVE  B(d) /\ ~B(a)
  <2>1. PICK s \in Nat, k \in Nat :
          Line(st, cl, a, f, s) /\ Line(st, cl, x, d, k) /\ n = s + k + 1
    BY <1>9 DEF Grafted
  <2>2. B(d)
    BY <2>1, <1>2, <1>5
  <2>3. ASSUME B(a) PROVE FALSE
    <3>1. PICK j \in Nat : Line(st, cl, x, a, j)
      BY <1>2, <1>5, <1>8, <1>9, <2>1, <2>3
    <3>2. Line(st, cl, x, f, j + s) /\ j + s \in Nat
      BY <1>1, <1>8, <1>9, <2>1, <3>1 DEF Trans
    <3> QED BY <1>2, <1>5, <1>8, <1>9, <3>2
  <2> QED BY <2>2, <2>3
<1>10. ASSUME NEW a \in Persons, NEW d \in Persons, NEW n \in Nat,
              Line(st, cl, a, d, n), B(a)
       PROVE  B(d)
  <2>1. PICK j \in Nat : Line(st, cl, x, a, j)
    BY <1>2, <1>5, <1>10
  <2>2. Line(st, cl, x, d, j + n) /\ j + n \in Nat
    BY <1>1, <1>10, <2>1 DEF Trans
  <2> QED BY <1>2, <1>5, <2>2
<1> HIDE DEF new, fb, B, Graft1
<1>11. Typed(st, fb, new)
  BY <1>1, <1>3 DEF Typed, fb
<1>12. Fathers(st, fb)
  BY <1>1 DEF Typed, Fathers, fb
<1>13. Born(st, new)
  <2> SUFFICES ASSUME NEW a \in Persons, NEW d \in Persons, NEW n \in Nat,
                      <<a, d, n>> \in new
               PROVE  st[a] # "unborn" /\ st[d] # "unborn"
    BY DEF Born
  <2>1. CASE <<a, d, n>> \in cl
    BY <1>1, <2>1 DEF Born
  <2>2. CASE <<a, d, n>> \notin cl
    <3>1. <<a, d, n>> \in Graft(cl \ Strip(cl, x), x, f)
      BY <2>2 DEF new, Under
    <3>2. PICK up \in cl, down \in cl :
            /\ up[2] = f /\ down[1] = x
            /\ <<a, d, n>> = <<up[1], down[2], up[3] + down[3] + 1>>
      BY <3>1 DEF Graft
    <3>3. up \in Row /\ down \in Row
      BY <1>1 DEF Typed
    <3>4. up = <<a, f, up[3]>> /\ down = <<x, d, down[3]>>
          /\ up[3] \in Nat /\ down[3] \in Nat /\ f \in Persons
      BY <3>2, <3>3 DEF Row
    <3> QED BY <1>1, <3>2, <3>4 DEF Born
  <2> QED BY <2>1, <2>2
<1>14. Zero(st, new)
  <2> SUFFICES ASSUME NEW a \in Persons, NEW p \in Persons, st[p] = "live"
               PROVE  Line(st, new, a, p, 0) <=> a = p
    BY DEF Zero
  <2>1. ~Graft1(a, p, 0)
    BY DEF Graft1, Grafted
  <2>2. Line(st, cl, a, p, 0) <=> a = p
    BY <1>1 DEF Zero
  <2> QED BY <1>4, <2>1, <2>2
<1>15. Step(st, fb, new)
  <2> SUFFICES ASSUME NEW a \in Persons, NEW p \in Persons, NEW n \in Nat,
                      st[p] = "live"
               PROVE  Line(st, new, a, p, n + 1)
                        <=> fb[p] # None /\ Line(st, new, a, fb[p], n)
    BY DEF Step
  <2>1. n + 1 \in Nat
    OBVIOUS
  <2>2. CASE p = x
    <3>1. fb[p] = f
      BY <1>1, <2>2 DEF fb, Typed
    <3>2. ~(Line(st, cl, a, x, n + 1) /\ B(a))
      <4> SUFFICES ASSUME Line(st, cl, a, x, n + 1), B(a) PROVE FALSE
        OBVIOUS
      <4>1. PICK k \in Nat : Line(st, cl, x, a, k)
        BY <1>2, <1>5, <2>1
      <4>2. n + 1 = 0
        BY <1>1, <2>1, <4>1 DEF NoCycle
      <4> QED BY <4>2
    <3>3. Graft1(a, x, n + 1) <=> f # None /\ Line(st, cl, a, f, n)
      <4>1. Line(st, cl, x, x, 0)
        BY <1>1 DEF Zero
      <4>2. \A k \in Nat : Line(st, cl, x, x, k) => k = 0
        BY <1>1 DEF NoCycle
      <4>3. ASSUME Graft1(a, x, n + 1) PROVE f # None /\ Line(st, cl, a, f, n)
        <5>1. PICK s \in Nat, k \in Nat :
                Line(st, cl, a, f, s) /\ Line(st, cl, x, x, k)
                /\ n + 1 = s + k + 1
          BY <4>3 DEF Graft1, Grafted
        <5>2. s = n
          BY <4>2, <5>1
        <5> QED BY <4>3, <5>1, <5>2 DEF Graft1
      <4>4. ASSUME f # None, Line(st, cl, a, f, n) PROVE Graft1(a, x, n + 1)
        <5>1. n + 1 = n + 0 + 1
          OBVIOUS
        <5> QED BY <4>1, <4>4, <5>1 DEF Graft1, Grafted
      <4> QED BY <4>3, <4>4
    <3>4. f # None => (Line(st, new, a, f, n) <=> Line(st, cl, a, f, n))
      BY <1>4, <1>8, <1>9
    <3> QED BY <1>4, <1>6, <2>1, <2>2, <3>1, <3>2, <3>3, <3>4
  <2>3. CASE p # x
    <3>1. fb[p] = fa[p]
      BY <2>3, <1>1 DEF fb, Typed
    <3>2. Line(st, cl, a, p, n + 1) <=> fa[p] # None /\ Line(st, cl, a, fa[p], n)
      BY <1>1 DEF Step
    <3>3. fa[p] # None => fa[p] \in Persons /\ st[fa[p]] = "live"
      BY <1>1 DEF Typed, Fathers
    <3>4. B(p) <=> fa[p] # None /\ B(fa[p])
      BY <1>7, <2>3
    <3>5. Graft1(a, p, n + 1) <=> fa[p] # None /\ Graft1(a, fa[p], n)
      <4>1. ASSUME Graft1(a, p, n + 1)
            PROVE  fa[p] # None /\ Graft1(a, fa[p], n)
        <5>1. PICK s \in Nat, k \in Nat :
                Line(st, cl, a, f, s) /\ Line(st, cl, x, p, k)
                /\ n + 1 = s + k + 1
          BY <4>1 DEF Graft1, Grafted
        <5>2. k # 0
          BY <1>1, <2>3, <5>1 DEF Zero
        <5>3. PICK j \in Nat : k = j + 1
          <6>1. k - 1 \in Nat /\ k = (k - 1) + 1
            BY <5>2
          <6> QED BY <6>1
        <5>4. fa[p] # None /\ Line(st, cl, x, fa[p], j)
          BY <1>1, <5>1, <5>3 DEF Step
        <5>5. n = s + j + 1
          BY <5>1, <5>3
        <5> QED BY <4>1, <5>1, <5>4, <5>5 DEF Graft1, Grafted
      <4>2. ASSUME fa[p] # None, Graft1(a, fa[p], n)
            PROVE  Graft1(a, p, n + 1)
        <5>1. PICK s \in Nat, k \in Nat :
                Line(st, cl, a, f, s) /\ Line(st, cl, x, fa[p], k)
                /\ n = s + k + 1
          BY <4>2 DEF Graft1, Grafted
        <5>2. Line(st, cl, x, p, k + 1)
          BY <1>1, <4>2, <5>1 DEF Step
        <5>3. k + 1 \in Nat /\ n + 1 = s + (k + 1) + 1
          BY <5>1
        <5> QED BY <4>2, <5>1, <5>2, <5>3 DEF Graft1, Grafted
      <4> QED BY <4>1, <4>2
    <3>6. Line(st, new, a, p, n + 1)
            <=> (Line(st, cl, a, p, n + 1) /\ (B(p) => B(a))) \/ Graft1(a, p, n + 1)
      BY <1>4, <2>1
    <3>7. fa[p] # None =>
            (Line(st, new, a, fa[p], n)
               <=> (Line(st, cl, a, fa[p], n) /\ (B(fa[p]) => B(a)))
                   \/ Graft1(a, fa[p], n))
      BY <1>4, <3>3
    <3> QED BY <3>1, <3>2, <3>4, <3>5, <3>6, <3>7
  <2> QED BY <2>2, <2>3
<1>16. NoCycle(st, new)
  <2> SUFFICES ASSUME NEW a \in Persons, NEW d \in Persons,
                      NEW m \in Nat, NEW n \in Nat,
                      Line(st, new, a, d, m), Line(st, new, d, a, n)
               PROVE  a = d /\ m = 0
    BY DEF NoCycle
  <2>1. ~Graft1(a, d, m) /\ ~Graft1(d, a, n)
    BY <1>4, <1>9, <1>10
  <2> QED BY <1>1, <1>4, <2>1 DEF NoCycle
<1>17. Trans(st, new)
  <2> SUFFICES ASSUME NEW a \in Persons, NEW b \in Persons, NEW d \in Persons,
                      NEW m \in Nat, NEW n \in Nat,
                      Line(st, new, a, b, m), Line(st, new, b, d, n)
               PROVE  Line(st, new, a, d, m + n)
    BY DEF Trans
  <2>1. m + n \in Nat
    OBVIOUS
  <2>2. CASE Graft1(b, d, n)
    <3>1. B(d) /\ ~B(b)
      BY <1>9, <2>2
    <3>2. Line(st, cl, a, b, m)
      BY <1>4, <1>9, <3>1
    <3>3. PICK s \in Nat, k \in Nat :
            Line(st, cl, b, f, s) /\ Line(st, cl, x, d, k) /\ n = s + k + 1
      BY <2>2 DEF Graft1, Grafted
    <3>4. f # None
      BY <2>2 DEF Graft1
    <3>5. Line(st, cl, a, f, m + s) /\ m + s \in Nat
      BY <1>1, <1>8, <3>2, <3>3, <3>4 DEF Trans
    <3>6. m + n = (m + s) + k + 1
      BY <3>3
    <3>7. Graft1(a, d, m + n)
      BY <3>3, <3>4, <3>5, <3>6 DEF Graft1, Grafted
    <3> QED BY <1>4, <2>1, <3>7
  <2>3. CASE ~Graft1(b, d, n) /\ Graft1(a, b, m)
    <3>1. Line(st, cl, b, d, n)
      BY <1>4, <2>3
    <3>2. PICK s \in Nat, k \in Nat :
            Line(st, cl, a, f, s) /\ Line(st, cl, x, b, k) /\ m = s + k + 1
      BY <2>3 DEF Graft1, Grafted
    <3>3. Line(st, cl, x, d, k + n) /\ k + n \in Nat
      BY <1>1, <3>1, <3>2 DEF Trans
    <3>4. m + n = s + (k + n) + 1
      BY <3>2
    <3>5. Graft1(a, d, m + n)
      BY <2>3, <3>2, <3>3, <3>4 DEF Graft1, Grafted
    <3> QED BY <1>4, <2>1, <3>5
  <2>4. CASE ~Graft1(b, d, n) /\ ~Graft1(a, b, m)
    <3>1. Line(st, cl, a, b, m) /\ Line(st, cl, b, d, n)
          /\ (B(b) => B(a)) /\ (B(d) => B(b))
      BY <1>4, <2>4
    <3>2. Line(st, cl, a, d, m + n)
      BY <1>1, <3>1 DEF Trans
    <3> QED BY <1>4, <2>1, <3>1, <3>2
  <2> QED BY <2>2, <2>3, <2>4
<1> QED BY <1>11, <1>12, <1>13, <1>14, <1>15, <1>16, <1>17 DEF Good, Lines, new, fb

-----------------------------------------------------------------------------
(* The other steps *)

\* A new person without a father.
LEMMA RootKeepsGood ==
  ASSUME NEW st, NEW fa, NEW cl, Good(st, fa, cl),
         NEW p \in Persons, st[p] = "unborn"
  PROVE  Good([st EXCEPT ![p] = "live"], [fa EXCEPT ![p] = None],
              cl \cup {SelfRow(p)})
<1> DEFINE sb == [st EXCEPT ![p] = "live"]
           fb == [fa EXCEPT ![p] = None]
           new == cl \cup {SelfRow(p)}
<1>1. Typed(st, fa, cl) /\ Fathers(st, fa) /\ Born(st, cl)
      /\ Zero(st, cl) /\ Step(st, fa, cl) /\ NoCycle(st, cl) /\ Trans(st, cl)
  BY DEF Good, Lines
<1>2. /\ sb[p] = "live" /\ fb[p] = None
      /\ \A q \in Persons : q # p => sb[q] = st[q] /\ fb[q] = fa[q]
  BY <1>1 DEF Typed
<1>3. \A a, d \in Persons : \A n \in Nat :
        <<a, d, n>> \in new <=> <<a, d, n>> \in cl \/ (a = p /\ d = p /\ n = 0)
  BY DEF SelfRow
<1>4. \A a \in Persons : \A n \in Nat :
        <<a, p, n>> \notin cl /\ <<p, a, n>> \notin cl
  BY <1>1 DEF Born
<1>5. Typed(sb, fb, new)
  BY <1>1 DEF Typed, States, Row, SelfRow
<1> HIDE DEF sb, fb, new
<1>6. \A a, d \in Persons : \A n \in Nat :
        Line(sb, new, a, d, n)
          <=> Line(st, cl, a, d, n) \/ (a = p /\ d = p /\ n = 0)
  BY <1>2, <1>3, <1>4 DEF Line
<1>7. \A a \in Persons : \A n \in Nat :
        ~Line(st, cl, a, p, n) /\ ~Line(st, cl, p, a, n)
  BY <1>4 DEF Line
<1>8. Fathers(sb, fb)
  BY <1>1, <1>2 DEF Fathers, Typed
<1>9. Born(sb, new)
  <2> SUFFICES ASSUME NEW a \in Persons, NEW d \in Persons, NEW n \in Nat,
                      <<a, d, n>> \in new
               PROVE  sb[a] # "unborn" /\ sb[d] # "unborn"
    BY DEF Born
  <2>1. CASE a = p /\ d = p
    BY <1>2, <2>1
  <2>2. CASE <<a, d, n>> \in cl
    <3>1. st[a] # "unborn" /\ st[d] # "unborn"
      BY <1>1, <2>2 DEF Born
    <3> QED BY <1>2, <3>1
  <2> QED BY <1>3, <2>1, <2>2
<1>10. Zero(sb, new)
  BY <1>1, <1>2, <1>6, <1>7 DEF Zero
<1>11. Step(sb, fb, new)
  <2> SUFFICES ASSUME NEW a \in Persons, NEW q \in Persons, NEW n \in Nat,
                      sb[q] = "live"
               PROVE  Line(sb, new, a, q, n + 1)
                        <=> fb[q] # None /\ Line(sb, new, a, fb[q], n)
    BY DEF Step
  <2>1. n + 1 \in Nat /\ n + 1 # 0
    OBVIOUS
  <2>2. CASE q = p
    BY <1>2, <1>6, <1>7, <2>1, <2>2
  <2>3. CASE q # p
    <3>1. st[q] = "live" /\ fb[q] = fa[q]
      BY <1>2, <2>3
    <3>2. Line(st, cl, a, q, n + 1) <=> fa[q] # None /\ Line(st, cl, a, fa[q], n)
      BY <1>1, <3>1 DEF Step
    <3>3. fa[q] # None => fa[q] \in Persons /\ fa[q] # p
      BY <1>1, <3>1 DEF Typed, Fathers
    <3> QED BY <1>6, <2>1, <2>3, <3>1, <3>2, <3>3
  <2> QED BY <2>2, <2>3
<1>12. NoCycle(sb, new)
  BY <1>1, <1>6, <1>7 DEF NoCycle
<1>13. Trans(sb, new)
  <2> SUFFICES ASSUME NEW a \in Persons, NEW b \in Persons, NEW d \in Persons,
                      NEW m \in Nat, NEW n \in Nat,
                      Line(sb, new, a, b, m), Line(sb, new, b, d, n)
               PROVE  Line(sb, new, a, d, m + n)
    BY DEF Trans
  <2>1. m + n \in Nat
    OBVIOUS
  <2>2. CASE b = p
    BY <1>6, <1>7, <2>1, <2>2
  <2>3. CASE b # p
    <3>1. Line(st, cl, a, b, m) /\ Line(st, cl, b, d, n)
      BY <1>6, <2>3
    <3>2. Line(st, cl, a, d, m + n)
      BY <1>1, <3>1 DEF Trans
    <3> QED BY <1>6, <2>1, <3>2
  <2> QED BY <2>2, <2>3
<1> QED BY <1>5, <1>8, <1>9, <1>10, <1>11, <1>12, <1>13 DEF Good, Lines, sb, fb, new

\* The operation Create: a root, then moved under its father.
LEMMA CreateKeepsGood ==
  ASSUME NEW st, NEW fa, NEW cl, Good(st, fa, cl),
         NEW p \in Persons, st[p] = "unborn",
         NEW f \in Persons \cup {None}, f # None => st[f] = "live"
  PROVE  Good([st EXCEPT ![p] = "live"], [fa EXCEPT ![p] = f],
              Under(cl \cup {SelfRow(p)}, p, f))
<1> DEFINE sb == [st EXCEPT ![p] = "live"]
           fb == [fa EXCEPT ![p] = None]
           new == cl \cup {SelfRow(p)}
<1>1. Good(sb, fb, new)
  BY RootKeepsGood
<1>2. cl \subseteq Row /\ st \in [Persons -> States]
      /\ fa \in [Persons -> Persons \cup {None}]
  BY DEF Good, Typed
<1>3. \A r \in cl : r[1] # p /\ r[2] # p
  <2> SUFFICES ASSUME NEW r \in cl PROVE r[1] # p /\ r[2] # p
    OBVIOUS
  <2>1. r \in Row
    BY <1>2
  <2>2. r = <<r[1], r[2], r[3]>> /\ r[1] \in Persons /\ r[2] \in Persons
        /\ r[3] \in Nat
    BY <2>1 DEF Row
  <2> QED BY <2>2 DEF Good, Born
<1>4. Strip(new, p) = {}
  <2> SUFFICES ASSUME NEW r \in new, r[2] \in Below(new, p),
                      r[1] \notin Below(new, p)
               PROVE  FALSE
    BY DEF Strip
  <2>1. PICK s \in new : s[1] = p /\ s[2] = r[2]
    BY DEF Below
  <2>2. s = <<p, p, 0>>
    BY <1>3, <2>1 DEF SelfRow
  <2>3. r = <<p, p, 0>>
    BY <1>3, <2>1, <2>2 DEF SelfRow
  <2>4. p \in Below(new, p)
    BY <2>2 DEF Below
  <2> QED BY <2>3, <2>4
<1>5. f # None => sb[f] = "live" /\ f \notin Below(new, p)
  <2> SUFFICES ASSUME f # None PROVE sb[f] = "live" /\ f \notin Below(new, p)
    OBVIOUS
  <2>1. f # p /\ sb[f] = "live"
    BY <1>2
  <2>2. ASSUME f \in Below(new, p) PROVE FALSE
    <3>1. PICK s \in new : s[1] = p /\ s[2] = f
      BY <2>2 DEF Below
    <3> QED BY <1>3, <2>1, <3>1 DEF SelfRow
  <2> QED BY <2>1, <2>2
<1>6. sb[p] = "live"
  BY <1>2
<1> HIDE DEF sb, fb, new
<1>7. Good(sb, [fb EXCEPT ![p] = f], Under(new \ Strip(new, p), p, f))
  BY <1>1, <1>5, <1>6, MoveKeepsGood
<1>8. new \ Strip(new, p) = new
  BY <1>4
<1>9. [fb EXCEPT ![p] = f] = [fa EXCEPT ![p] = f]
  BY <1>2 DEF fb
<1> QED BY <1>7, <1>8, <1>9 DEF sb, new

\* The operation Delete: the subtrees of the children are cut off, then the
\* person's rows go.
LEMMA DeleteKeepsGood ==
  ASSUME NEW st, NEW fa, NEW cl, Good(st, fa, cl),
         NEW p \in Persons, st[p] = "live",
         NEW children,
         children = {c \in Persons : st[c] = "live" /\ fa[c] = p}
  PROVE  Good([st EXCEPT ![p] = "deleted"],
              [c \in Persons |-> IF c \in children THEN None ELSE fa[c]],
              (cl \ UNION {Strip(cl, c) : c \in children}) \ RowsOf(cl, p))
<1> DEFINE sb == [st EXCEPT ![p] = "deleted"]
           fb == [c \in Persons |-> IF c \in children THEN None ELSE fa[c]]
           new == (cl \ UNION {Strip(cl, c) : c \in children}) \ RowsOf(cl, p)
           B(c, d) == d \in Below(cl, c)
<1>1. Typed(st, fa, cl) /\ Fathers(st, fa) /\ Born(st, cl)
      /\ Zero(st, cl) /\ Step(st, fa, cl) /\ NoCycle(st, cl) /\ Trans(st, cl)
  BY DEF Good, Lines
<1>2. /\ sb[p] = "deleted"
      /\ \A q \in Persons : q # p => sb[q] = st[q]
      /\ \A q \in Persons : fb[q] = IF q \in children THEN None ELSE fa[q]
  BY <1>1 DEF Typed
<1>3. \A c \in children : c \in Persons /\ st[c] = "live" /\ fa[c] = p
  OBVIOUS
<1>4. \A a, d \in Persons : \A n \in Nat :
        <<a, d, n>> \in new <=>
          /\ <<a, d, n>> \in cl /\ a # p /\ d # p
          /\ \A c \in children : B(c, d) => B(c, a)
  BY DEF Strip, RowsOf
<1>5. Typed(sb, fb, new)
  BY <1>1 DEF Typed, States
<1> HIDE DEF sb, fb, new
<1>6. \A a, d \in Persons : \A n \in Nat :
        Line(sb, new, a, d, n) <=>
          /\ Line(st, cl, a, d, n) /\ a # p /\ d # p
          /\ \A c \in children : B(c, d) => B(c, a)
  BY <1>2, <1>4 DEF Line
<1>7. \A a, d \in Persons : \A n \in Nat :
        Line(st, cl, a, d, n) => st[a] = "live" /\ st[d] = "live"
  BY DEF Line
<1>8. ASSUME NEW c \in children, NEW d \in Persons, st[d] = "live"
      PROVE  /\ B(c, d) <=> \E k \in Nat : Line(st, cl, c, d, k)
             /\ B(c, c)
             /\ d # c => (B(c, d) <=> fa[d] # None /\ B(c, fa[d]))
  BY <1>3, <1>8, BelowByFather
<1> HIDE DEF B
<1>9. Fathers(sb, fb)
  <2> SUFFICES ASSUME NEW q \in Persons, sb[q] = "live", fb[q] # None
               PROVE  sb[fb[q]] = "live"
    BY DEF Fathers
  <2>1. q # p /\ st[q] = "live" /\ fb[q] = fa[q] /\ q \notin children
    BY <1>2
  <2>2. fa[q] # p /\ fa[q] \in Persons /\ st[fa[q]] = "live"
    BY <1>1, <2>1 DEF Fathers, Typed
  <2> QED BY <1>2, <2>1, <2>2
<1>10. Born(sb, new)
  <2> SUFFICES ASSUME NEW a \in Persons, NEW d \in Persons, NEW n \in Nat,
                      <<a, d, n>> \in new
               PROVE  sb[a] # "unborn" /\ sb[d] # "unborn"
    BY DEF Born
  <2>1. <<a, d, n>> \in cl /\ a # p /\ d # p
    BY <1>4
  <2>2. st[a] # "unborn" /\ st[d] # "unborn"
    BY <1>1, <2>1 DEF Born
  <2> QED BY <1>2, <2>1, <2>2
<1>11. Zero(sb, new)
  <2> SUFFICES ASSUME NEW a \in Persons, NEW q \in Persons, sb[q] = "live"
               PROVE  Line(sb, new, a, q, 0) <=> a = q
    BY DEF Zero
  <2>1. q # p /\ st[q] = "live"
    BY <1>2
  <2>2. Line(st, cl, a, q, 0) <=> a = q
    BY <1>1, <2>1 DEF Zero
  <2> QED BY <1>6, <2>1, <2>2
<1>12. Step(sb, fb, new)
  <2> SUFFICES ASSUME NEW a \in Persons, NEW q \in Persons, NEW n \in Nat,
                      sb[q] = "live"
               PROVE  Line(sb, new, a, q, n + 1)
                        <=> fb[q] # None /\ Line(sb, new, a, fb[q], n)
    BY DEF Step
  <2>1. n + 1 \in Nat /\ n + 1 # 0
    OBVIOUS
  <2>2. q # p /\ st[q] = "live"
    BY <1>2
  <2>3. Line(st, cl, a, q, n + 1) <=> fa[q] # None /\ Line(st, cl, a, fa[q], n)
    BY <1>1, <2>2 DEF Step
  <2>4. CASE q \in children
    <3>1. fb[q] = None
      BY <1>2, <2>4
    <3>2. ASSUME Line(sb, new, a, q, n + 1) PROVE FALSE
      <4>1. Line(st, cl, a, q, n + 1) /\ (B(q, q) => B(q, a))
        BY <1>6, <2>1, <2>4, <3>2
      <4>2. B(q, a) /\ st[a] = "live"
        BY <1>7, <1>8, <2>1, <2>2, <2>4, <4>1
      <4>3. PICK k \in Nat : Line(st, cl, q, a, k)
        BY <1>8, <2>4, <4>2
      <4>4. n + 1 = 0
        BY <1>1, <2>1, <4>1, <4>3 DEF NoCycle
      <4> QED BY <2>1, <4>4
    <3> QED BY <3>1, <3>2
  <2>5. CASE q \notin children
    <3>1. fb[q] = fa[q]
      BY <1>2, <2>5
    <3>2. fa[q] # p
      BY <2>2, <2>5
    <3>3. fa[q] # None => fa[q] \in Persons /\ st[fa[q]] = "live"
      BY <1>1, <2>2 DEF Typed, Fathers
    <3>4. \A c \in children : B(c, q) <=> fa[q] # None /\ B(c, fa[q])
      BY <1>8, <2>2, <2>5
    <3>5. Line(sb, new, a, q, n + 1) <=>
            /\ Line(st, cl, a, q, n + 1) /\ a # p
            /\ \A c \in children : B(c, q) => B(c, a)
      BY <1>6, <2>1, <2>2
    <3>6. fa[q] # None =>
            (Line(sb, new, a, fa[q], n) <=>
               /\ Line(st, cl, a, fa[q], n) /\ a # p
               /\ \A c \in children : B(c, fa[q]) => B(c, a))
      BY <1>6, <3>2, <3>3
    <3> QED BY <2>3, <3>1, <3>4, <3>5, <3>6
  <2> QED BY <2>4, <2>5
<1>13. NoCycle(sb, new)
  BY <1>1, <1>6 DEF NoCycle
<1>14. Trans(sb, new)
  <2> SUFFICES ASSUME NEW a \in Persons, NEW b \in Persons, NEW d \in Persons,
                      NEW m \in Nat, NEW n \in Nat,
                      Line(sb, new, a, b, m), Line(sb, new, b, d, n)
               PROVE  Line(sb, new, a, d, m + n)
    BY DEF Trans
  <2>1. m + n \in Nat
    OBVIOUS
  <2>2. Line(st, cl, a, b, m) /\ a # p /\ \A c \in children : B(c, b) => B(c, a)
    BY <1>6
  <2>3. Line(st, cl, b, d, n) /\ d # p /\ \A c \in children : B(c, d) => B(c, b)
    BY <1>6
  <2>4. Line(st, cl, a, d, m + n)
    BY <1>1, <2>2, <2>3 DEF Trans
  <2> QED BY <1>6, <2>1, <2>2, <2>3, <2>4
<1> QED BY <1>5, <1>9, <1>10, <1>11, <1>12, <1>13, <1>14 DEF Good, Lines, sb, fb, new

\* The operation Withdraw: whoever stays has all its ancestors among those who
\* stay.
LEMMA WithdrawKeepsGood ==
  ASSUME NEW st, NEW fa, NEW cl, Good(st, fa, cl),
         NEW batch \in SUBSET Persons,
         \A p \in Persons \ batch : st[p] = "live" => fa[p] \notin batch
  PROVE  Good([p \in Persons |-> IF p \in batch /\ st[p] = "live"
                                 THEN "deleted" ELSE st[p]], fa, cl)
<1> DEFINE sb == [p \in Persons |-> IF p \in batch /\ st[p] = "live"
                                    THEN "deleted" ELSE st[p]]
<1>1. Typed(st, fa, cl) /\ Fathers(st, fa) /\ Born(st, cl)
      /\ Zero(st, cl) /\ Step(st, fa, cl) /\ NoCycle(st, cl) /\ Trans(st, cl)
  BY DEF Good, Lines
<1>2. \A p \in Persons : /\ sb[p] = "live" <=> st[p] = "live" /\ p \notin batch
                         /\ sb[p] = "unborn" <=> st[p] = "unborn"
  OBVIOUS
<1>3. Typed(sb, fa, cl)
  BY <1>1 DEF Typed, States
<1> HIDE DEF sb
<1>4. \A a, d \in Persons : \A n \in Nat :
        Line(sb, cl, a, d, n)
          <=> Line(st, cl, a, d, n) /\ a \notin batch /\ d \notin batch
  BY <1>2 DEF Line
<1>5. Fathers(sb, fa)
  BY <1>1, <1>2 DEF Fathers, Typed
<1>6. Born(sb, cl)
  BY <1>1, <1>2 DEF Born
<1>7. Zero(sb, cl)
  BY <1>1, <1>2, <1>4 DEF Zero
<1>8. Step(sb, fa, cl)
  <2> SUFFICES ASSUME NEW a \in Persons, NEW q \in Persons, NEW n \in Nat,
                      sb[q] = "live"
               PROVE  Line(sb, cl, a, q, n + 1)
                        <=> fa[q] # None /\ Line(sb, cl, a, fa[q], n)
    BY DEF Step
  <2>1. n + 1 \in Nat
    OBVIOUS
  <2>2. st[q] = "live" /\ q \notin batch /\ fa[q] \notin batch
    BY <1>2
  <2>3. Line(st, cl, a, q, n + 1) <=> fa[q] # None /\ Line(st, cl, a, fa[q], n)
    BY <1>1, <2>2 DEF Step
  <2>4. fa[q] # None => fa[q] \in Persons
    BY <1>1 DEF Typed
  <2> QED BY <1>4, <2>1, <2>2, <2>3, <2>4
<1>9. NoCycle(sb, cl)
  BY <1>1, <1>4 DEF NoCycle
<1>10. Trans(sb, cl)
  <2> SUFFICES ASSUME NEW a \in Persons, NEW b \in Persons, NEW d \in Persons,
                      NEW m \in Nat, NEW n \in Nat,
                      Line(sb, cl, a, b, m), Line(sb, cl, b, d, n)
               PROVE  Line(sb, cl, a, d, m + n)
    BY DEF Trans
  <2>1. m + n \in Nat
    OBVIOUS
  <2>2. Line(st, cl, a, d, m + n)
    BY <1>1, <1>4 DEF Trans
  <2> QED BY <1>4, <2>1, <2>2
<1> QED BY <1>3, <1>5, <1>6, <1>7, <1>8, <1>9, <1>10 DEF Good, Lines, sb

-----------------------------------------------------------------------------
(* The invariant *)

\* Acyclic and Transitive, and hence the whole invariant, row by row.
LEMMA GoodByRows ==
  ASSUME NEW st, NEW fa, NEW cl, Typed(st, fa, cl)
  PROVE  LET live == {p \in Persons : st[p] = "live"}
             rows == {r \in cl : r[1] \in live /\ r[2] \in live}
             above(p) == {<<r[1], r[3]>> : r \in {s \in rows : s[2] = p}}
         IN Good(st, fa, cl) <=>
              /\ \A p \in live : fa[p] # None => fa[p] \in live
              /\ \A r \in cl : st[r[1]] # "unborn" /\ st[r[2]] # "unborn"
              /\ \A p \in live :
                   above(p) = {<<p, 0>>} \cup
                     (IF fa[p] = None THEN {}
                      ELSE {<<a[1], a[2] + 1>> : a \in above(fa[p])})
              /\ \A r, s \in rows : r[1] = s[2] /\ r[2] = s[1]
                                     => r[1] = r[2] /\ r[3] = 0
              /\ \A r, s \in rows : r[2] = s[1]
                                     => <<r[1], s[2], r[3] + s[3]>> \in cl
<1> DEFINE live == {p \in Persons : st[p] = "live"}
           rows == {r \in cl : r[1] \in live /\ r[2] \in live}
           above(p) == {<<r[1], r[3]>> : r \in {s \in rows : s[2] = p}}
           recorded == \A p \in live :
                         above(p) = {<<p, 0>>} \cup
                           (IF fa[p] = None THEN {}
                            ELSE {<<a[1], a[2] + 1>> : a \in above(fa[p])})
<1>1. Fathers(st, fa) <=> \A p \in live : fa[p] # None => fa[p] \in live
  BY DEF Typed, Fathers
<1>2. Fathers(st, fa) => (recorded <=> Zero(st, cl) /\ Step(st, fa, cl))
  BY RowByRow
<1>3. \A r \in cl : r \in Row /\ r = <<r[1], r[2], r[3]>> /\ r[1] \in Persons
                    /\ r[2] \in Persons /\ r[3] \in Nat
  BY DEF Typed, Row
<1>4. \A a, d \in Persons : \A n \in Nat :
        Line(st, cl, a, d, n) <=> <<a, d, n>> \in rows
  BY DEF Line
<1>5. Born(st, cl)
        <=> \A r \in cl : st[r[1]] # "unborn" /\ st[r[2]] # "unborn"
  <2>1. ASSUME Born(st, cl), NEW r \in cl
        PROVE  st[r[1]] # "unborn" /\ st[r[2]] # "unborn"
    BY <1>3, <2>1 DEF Born
  <2>2. ASSUME \A r \in cl : st[r[1]] # "unborn" /\ st[r[2]] # "unborn"
        PROVE  Born(st, cl)
    BY <2>2 DEF Born
  <2> QED BY <2>1, <2>2
<1>6. \A r \in rows : r \in cl /\ r = <<r[1], r[2], r[3]>> /\ r[1] \in Persons
                      /\ r[2] \in Persons /\ r[3] \in Nat
  BY <1>3
<1> HIDE DEF rows
<1>7. NoCycle(st, cl) <=> \A r, s \in rows : r[1] = s[2] /\ r[2] = s[1]
                                            => r[1] = r[2] /\ r[3] = 0
  <2>1. ASSUME NoCycle(st, cl), NEW r \in rows, NEW s \in rows,
               r[1] = s[2], r[2] = s[1]
        PROVE  r[1] = r[2] /\ r[3] = 0
    <3>1. Line(st, cl, r[1], r[2], r[3]) /\ Line(st, cl, r[2], r[1], s[3])
      BY <1>4, <1>6, <2>1
    <3> QED BY <1>6, <2>1, <3>1 DEF NoCycle
  <2>2. ASSUME \A r, s \in rows : r[1] = s[2] /\ r[2] = s[1]
                                 => r[1] = r[2] /\ r[3] = 0,
               NEW a \in Persons, NEW d \in Persons, NEW m \in Nat, NEW n \in Nat,
               Line(st, cl, a, d, m), Line(st, cl, d, a, n)
        PROVE  a = d /\ m = 0
    <3> DEFINE r == <<a, d, m>>
               s == <<d, a, n>>
    <3>1. r \in rows /\ s \in rows
      BY <1>4, <2>2
    <3>2. r[1] = a /\ r[2] = d /\ r[3] = m /\ s[1] = d /\ s[2] = a
      OBVIOUS
    <3> HIDE DEF r, s
    <3> QED BY <2>2, <3>1, <3>2
  <2> QED BY <2>1, <2>2 DEF NoCycle
<1>8. Trans(st, cl) <=> \A r, s \in rows : r[2] = s[1]
                                 => <<r[1], s[2], r[3] + s[3]>> \in cl
  <2>1. ASSUME Trans(st, cl), NEW r \in rows, NEW s \in rows, r[2] = s[1]
        PROVE  <<r[1], s[2], r[3] + s[3]>> \in cl
    <3>1. Line(st, cl, r[1], r[2], r[3]) /\ Line(st, cl, r[2], s[2], s[3])
      BY <1>4, <1>6, <2>1
    <3>2. Line(st, cl, r[1], s[2], r[3] + s[3])
      BY <1>6, <2>1, <3>1 DEF Trans
    <3> QED BY <3>2 DEF Line
  <2>2. ASSUME \A r, s \in rows : r[2] = s[1]
                                 => <<r[1], s[2], r[3] + s[3]>> \in cl,
               NEW a \in Persons, NEW b \in Persons, NEW d \in Persons,
               NEW m \in Nat, NEW n \in Nat,
               Line(st, cl, a, b, m), Line(st, cl, b, d, n)
        PROVE  Line(st, cl, a, d, m + n)
    <3> DEFINE r == <<a, b, m>>
               s == <<b, d, n>>
    <3>1. r \in rows /\ s \in rows
      BY <1>4, <2>2
    <3>2. r[1] = a /\ r[2] = b /\ r[3] = m /\ s[1] = b /\ s[2] = d /\ s[3] = n
      OBVIOUS
    <3> HIDE DEF r, s
    <3>3. <<a, d, m + n>> \in cl
      BY <2>2, <3>1, <3>2
    <3> QED BY <2>2, <3>3 DEF Line
  <2> QED BY <2>1, <2>2 DEF Trans
<1> HIDE DEF recorded
<1>9. Good(st, fa, cl) <=>
        Fathers(st, fa) /\ Born(st, cl) /\ recorded /\ NoCycle(st, cl)
        /\ Trans(st, cl)
  BY <1>2 DEF Good, Lines
<1> QED BY <1>1, <1>5, <1>7, <1>8, <1>9 DEF recorded, rows

-----------------------------------------------------------------------------
(* Climbing the fathers, for Walk.  Induction is by a least counterexample.  *)

LEMMA Least ==
  ASSUME NEW T, T \subseteq Nat, T # {} PROVE \E m \in T : \A k \in T : m <= k
<1> DEFINE R == OpToRel(<, Nat)
<1>1. IsWellFoundedOn(OpToRel(<, Nat), Nat)
  BY NatLessThanWellFounded
<1>2. IsWellFoundedOn(R, Nat)
  BY <1>1
<1>3. \A a, b \in Nat : a < b => <<a, b>> \in R
  BY DEF OpToRel
<1> HIDE DEF R
<1>4. PICK m \in T : \A k \in T : ~(<<k, m>> \in R)
  BY <1>2, WFMin
<1>5. ASSUME NEW k \in T PROVE m <= k
  <2>1. m \in Nat /\ k \in Nat
    OBVIOUS
  <2>2. ~(k < m)
    BY <2>1, <1>3, <1>4
  <2>3. QED
    BY <2>1, <2>2
<1>6. QED
  BY <1>5

\* The step of Up, and its first n values.
Higher(st, fa, g) ==
  [p \in Persons |-> IF g[p] = None THEN None
                     ELSE IF st[g[p]] # "live" THEN None ELSE fa[g[p]]]
Nobody == [p \in Persons |-> p]
Climb(st, fa, n, g) ==
  g = [k \in 0..n |-> IF k = 0 THEN Nobody ELSE Higher(st, fa, g[k - 1])]

LEMMA ClimbsAgree ==
  ASSUME NEW st, NEW fa, NEW m \in Nat, NEW n \in Nat, NEW g, NEW h,
         Climb(st, fa, m, g), Climb(st, fa, n, h)
  PROVE  \A k \in Nat : k <= m /\ k <= n => g[k] = h[k]
<1> DEFINE T == {k \in Nat : k <= m /\ k <= n /\ g[k] # h[k]}
<1>1. ASSUME T # {} PROVE FALSE
  <2>1. PICK k \in T : \A j \in T : k <= j
    BY <1>1, Least
  <2>2. k \in 0..m /\ k \in 0..n /\ g[k] # h[k]
    BY <2>1
  <2>3. g[k] = (IF k = 0 THEN Nobody ELSE Higher(st, fa, g[k - 1]))
    BY <2>2, Zenon DEF Climb
  <2>4. h[k] = (IF k = 0 THEN Nobody ELSE Higher(st, fa, h[k - 1]))
    BY <2>2, Zenon DEF Climb
  <2>5. k # 0
    BY <2>2, <2>3, <2>4
  <2>6. k - 1 \in Nat /\ k - 1 <= m /\ k - 1 <= n /\ ~(k <= k - 1)
    BY <2>1, <2>2, <2>5
  <2>7. g[k - 1] = h[k - 1]
    BY <2>1, <2>6
  <2>8. QED
    BY <2>2, <2>3, <2>4, <2>5, <2>7
<1>2. QED
  BY <1>1

LEMMA ClimbsExist ==
  ASSUME NEW st, NEW fa PROVE \A n \in Nat : \E g : Climb(st, fa, n, g)
<1> DEFINE T == {n \in Nat : ~ \E g : Climb(st, fa, n, g)}
<1>1. ASSUME T # {} PROVE FALSE
  <2>1. PICK n \in T : \A m \in T : n <= m
    BY <1>1, Least
  <2>2. n \in Nat /\ ~ \E g : Climb(st, fa, n, g)
    BY <2>1
  <2>3. CASE n = 0
    <3> DEFINE g == [k \in 0..n |-> Nobody]
    <3>1. g = [k \in 0..n |-> IF k = 0 THEN Nobody ELSE Higher(st, fa, g[k - 1])]
      BY <2>3
    <3>2. QED
      BY <2>2, <3>1 DEF Climb
  <2>4. CASE n # 0
    <3>1. n - 1 \in Nat /\ ~(n <= n - 1)
      BY <2>2, <2>4
    <3>2. PICK f : Climb(st, fa, n - 1, f)
      BY <2>1, <3>1
    <3> DEFINE g == [k \in 0..n |-> IF k = n THEN Higher(st, fa, f[n - 1]) ELSE f[k]]
    <3>3. g = [k \in 0..n |-> IF k = 0 THEN Nobody ELSE Higher(st, fa, g[k - 1])]
      <4>1. \A k \in 0..n : k # n => k \in 0..(n - 1)
        BY <2>2
      <4>2. \A k \in 0..(n - 1) :
              f[k] = (IF k = 0 THEN Nobody ELSE Higher(st, fa, f[k - 1]))
        BY <3>2, Zenon DEF Climb
      <4>3. \A k \in 0..n : k # 0 => k - 1 \in 0..n /\ k - 1 # n
        BY <2>2
      <4>4. \A k \in 0..n : k # 0 => g[k - 1] = f[k - 1]
        BY <4>3
      <4>5. \A k \in 0..n : g[k] = (IF k = 0 THEN Nobody ELSE Higher(st, fa, g[k - 1]))
        <5>1. ASSUME NEW k \in 0..n, k = n PROVE g[k] = Higher(st, fa, g[k - 1]) /\ k # 0
          BY <2>4, <4>4, <5>1
        <5>2. ASSUME NEW k \in 0..n, k # n
              PROVE  g[k] = (IF k = 0 THEN Nobody ELSE Higher(st, fa, g[k - 1]))
          <6>1. g[k] = f[k]
            BY <5>2
          <6>2. QED
            BY <4>1, <4>2, <4>4, <5>2, <6>1
        <5>3. QED
          BY <5>1, <5>2
      <4> HIDE DEF g
      <4>6. DOMAIN g = 0..n /\ g = [k \in 0..n |-> g[k]]
        BY DEF g
      <4>7. QED
        BY <4>5, <4>6
    <3>4. QED
      BY <2>2, <3>3 DEF Climb
  <2>5. QED
    BY <2>3, <2>4
<1>2. QED
  BY <1>1

LEMMA UpEquation ==
  ASSUME NEW st, NEW fa
  PROVE  Up(st, fa) = [n \in Nat |-> IF n = 0 THEN Nobody ELSE Higher(st, fa, Up(st, fa)[n - 1])]
<1> DEFINE nth(n) == CHOOSE g : Climb(st, fa, n, g)
           F == [n \in Nat |-> nth(n)[n]]
<1>1. \A n \in Nat : Climb(st, fa, n, nth(n))
  BY ClimbsExist
<1>2. ASSUME NEW n \in Nat
      PROVE  F[n] = (IF n = 0 THEN Nobody ELSE Higher(st, fa, F[n - 1]))
  <2>1. n \in 0..n
    OBVIOUS
  <2>2. nth(n)[n] = (IF n = 0 THEN Nobody ELSE Higher(st, fa, nth(n)[n - 1]))
    <3> HIDE DEF nth
    <3>1. Climb(st, fa, n, nth(n))
      BY <1>1
    <3>2. QED
      BY <2>1, <3>1, Zenon DEF Climb
  <2>3. F[n] = nth(n)[n]
    OBVIOUS
  <2>4. CASE n # 0
    <3>1. n - 1 \in Nat /\ n - 1 <= n /\ n - 1 <= n - 1
      BY <2>4
    <3>2. nth(n)[n - 1] = nth(n - 1)[n - 1]
      <4> HIDE DEF nth
      <4>1. Climb(st, fa, n, nth(n)) /\ Climb(st, fa, n - 1, nth(n - 1))
        BY <1>1, <3>1
      <4>2. QED
        BY <3>1, <4>1, ClimbsAgree
    <3>3. F[n - 1] = nth(n - 1)[n - 1]
      BY <3>1
    <3> HIDE DEF F, nth
    <3>4. QED
      BY <2>2, <2>3, <2>4, <3>2, <3>3
  <2> HIDE DEF F, nth
  <2>5. QED
    BY <2>2, <2>3, <2>4
<1>3. F = [n \in Nat |-> F[n]]
  OBVIOUS
<1> HIDE DEF F
<1>4. F = [n \in Nat |-> IF n = 0 THEN Nobody ELSE Higher(st, fa, F[n - 1])]
  BY <1>2, <1>3
<1>5. QED
  BY <1>4 DEF Up, Nobody, Higher

Linked(st, fa) ==
  st \in [Persons -> States] /\ fa \in [Persons -> Persons \cup {None}] /\ Fathers(st, fa)

\* One step up from q.
OneUp(st, fa, q) == IF q = None THEN None ELSE IF st[q] # "live" THEN None ELSE fa[q]

LEMMA UpZero == ASSUME NEW st, NEW fa, NEW p \in Persons PROVE Up(st, fa)[0][p] = p
<1>1. PICK up : up = Up(st, fa)
  OBVIOUS
<1>2. up = [n \in Nat |-> IF n = 0 THEN Nobody ELSE Higher(st, fa, up[n - 1])]
  BY <1>1, UpEquation
<1>3. up[0] = Nobody
  BY <1>2
<1>4. QED
  BY <1>1, <1>3 DEF Nobody

LEMMA UpNext ==
  ASSUME NEW st, NEW fa, NEW p \in Persons, NEW n \in Nat
  PROVE  Up(st, fa)[n + 1][p] = OneUp(st, fa, Up(st, fa)[n][p])
<1>1. PICK up : up = Up(st, fa)
  OBVIOUS
<1>2. up = [k \in Nat |-> IF k = 0 THEN Nobody ELSE Higher(st, fa, up[k - 1])]
  BY <1>1, UpEquation
<1>3. n + 1 \in Nat /\ n + 1 # 0 /\ (n + 1) - 1 = n
  OBVIOUS
<1>4. up[n + 1] = Higher(st, fa, up[(n + 1) - 1])
  BY <1>2, <1>3
<1>5. Higher(st, fa, up[n])[p] = OneUp(st, fa, up[n][p])
  BY DEF Higher, OneUp
<1>6. QED
  BY <1>1, <1>3, <1>4, <1>5

\* Whoever is reached from a living person is alive.
LEMMA UpLives ==
  ASSUME NEW st, NEW fa, Linked(st, fa), NEW p \in Persons, st[p] = "live"
  PROVE  \A n \in Nat : \/ Up(st, fa)[n][p] = None
                        \/ /\ Up(st, fa)[n][p] \in Persons
                           /\ st[Up(st, fa)[n][p]] = "live"
<1> DEFINE at(n) == Up(st, fa)[n][p]
           T == {n \in Nat : ~(at(n) = None \/ (at(n) \in Persons /\ st[at(n)] = "live"))}
<1>1. ASSUME T # {} PROVE FALSE
  <2>1. PICK n \in T : \A m \in T : n <= m
    BY <1>1, Least
  <2>2. n # 0
    BY <2>1, UpZero
  <2>3. n - 1 \in Nat /\ (n - 1) + 1 = n /\ ~(n <= n - 1)
    BY <2>1, <2>2
  <2>4. at(n - 1) = None \/ (at(n - 1) \in Persons /\ st[at(n - 1)] = "live")
    BY <2>1, <2>3
  <2>5. at((n - 1) + 1) = OneUp(st, fa, at(n - 1))
    BY <2>3, UpNext
  <2>6. at(n) = None \/ (at(n) \in Persons /\ st[at(n)] = "live")
    <3> HIDE DEF at
    <3>1. QED
      BY <2>3, <2>4, <2>5 DEF Linked, Fathers, OneUp
  <2>7. QED
    BY <2>1, <2>6
<1>2. QED
  BY <1>1

\* Climbing n from p and m from there.
LEMMA UpAdds ==
  ASSUME NEW st, NEW fa, NEW p \in Persons, NEW n \in Nat, NEW q \in Persons,
         Up(st, fa)[n][p] = q
  PROVE  \A m \in Nat : Up(st, fa)[m + n][p] = Up(st, fa)[m][q]
<1> DEFINE T == {m \in Nat : Up(st, fa)[m + n][p] # Up(st, fa)[m][q]}
<1>1. ASSUME T # {} PROVE FALSE
  <2>1. PICK m \in T : \A k \in T : m <= k
    BY <1>1, Least
  <2>2. PICK up : up = Up(st, fa)
    OBVIOUS
  <2>3. m # 0
    <3>1. 0 + n = n
      OBVIOUS
    <3>2. QED
      BY <2>1, <3>1, UpZero
  <2>4. m - 1 \in Nat /\ (m - 1) + 1 = m /\ ~(m <= m - 1)
        /\ (m - 1) + n \in Nat /\ ((m - 1) + n) + 1 = m + n
    BY <2>1, <2>3
  <2>5. up[(m - 1) + n][p] = up[m - 1][q]
    BY <2>1, <2>2, <2>4
  <2>6. up[((m - 1) + n) + 1][p] = OneUp(st, fa, up[(m - 1) + n][p])
    BY <2>2, <2>4, UpNext
  <2>7. up[(m - 1) + 1][q] = OneUp(st, fa, up[m - 1][q])
    BY <2>2, <2>4, UpNext
  <2>8. up[m + n][p] = up[m][q]
    BY <2>4, <2>5, <2>6, <2>7
  <2>9. QED
    BY <2>1, <2>2, <2>8
<1>2. QED
  BY <1>1

\* The chain above p ends: everybody on it is somebody else.
LEMMA ChainsEnd ==
  ASSUME NEW st, NEW fa, Linked(st, fa), Rooted(st, fa), NEW p \in Persons, st[p] = "live",
         NEW n \in Nat, Up(st, fa)[n][p] # None
  PROVE  n < Cardinality(Persons)
<1> DEFINE at(k) == Up(st, fa)[k][p]
           size == Cardinality(Persons)
<1>1. size \in Nat /\ IsFiniteSet(Persons)
  BY PersonsOK, FS_CardinalityType
<1>2. \A k \in Nat : at(k) = None => at(k + 1) = None
  BY UpNext DEF OneUp
<1>3. \A k \in Nat : k <= n => at(k) # None
  <2> DEFINE T == {j \in Nat : j <= n /\ at(n - j) = None}
  <2>1. ASSUME T # {} PROVE FALSE
    <3>1. PICK j \in T : \A i \in T : j <= i
      BY <2>1, Least
    <3>2. j # 0
      BY <3>1
    <3>3. j - 1 \in Nat /\ j - 1 <= n /\ n - j \in Nat /\ (n - j) + 1 = n - (j - 1) /\ ~(j <= j - 1)
      BY <3>1, <3>2
    <3>4. at((n - j) + 1) = None
      BY <3>1, <3>3, <1>2
    <3>5. j - 1 \in T
      BY <3>3, <3>4
    <3>6. QED
      BY <3>1, <3>3, <3>5
  <2>2. ASSUME NEW k \in Nat, k <= n PROVE at(k) # None
    <3>1. n - k \in Nat /\ n - k <= n /\ n - (n - k) = k
      BY <2>2
    <3>2. n - k \notin T
      BY <2>1
    <3>3. QED
      BY <3>1, <3>2
  <2>3. QED
    BY <2>2
<1>4. ASSUME size <= n PROVE FALSE
  <2> DEFINE f == [k \in 0..size |-> at(k)]
  <2>1. \A k \in 0..size : at(k) \in Persons /\ st[at(k)] = "live"
    <3>1. \A k \in 0..size : k \in Nat /\ k <= n
      BY <1>1, <1>4
    <3>2. QED
      BY <3>1, <1>3, UpLives
  <2>2. ASSUME NEW i \in 0..size, NEW j \in 0..size, i < j, at(i) = at(j) PROVE FALSE
    <3>1. i \in Nat /\ j - i \in 1..size /\ (j - i) + i = j /\ j - i \in Nat
      BY <1>1, <2>2
    <3>2. PICK q \in Persons : q = at(i) /\ st[q] = "live"
      BY <2>1
    <3>3. Up(st, fa)[(j - i) + i][p] = Up(st, fa)[j - i][q]
      BY <3>1, <3>2, UpAdds
    <3>4. Up(st, fa)[j - i][q] = q
      BY <2>2, <3>1, <3>2, <3>3
    <3>5. QED
      BY <3>1, <3>2, <3>4 DEF Rooted
  <2>3. f \in [0..size -> Persons]
    BY <2>1
  <2>4. IsFiniteSet(0..size) /\ Cardinality(0..size) = size - 0 + 1
    BY <1>1, FS_Interval
  <2>5. \E i, j \in 0..size : i # j /\ f[i] = f[j]
    <3> HIDE DEF f
    <3>1. Cardinality(Persons) < Cardinality(0..size)
      BY <1>1, <2>4
    <3>2. QED
      BY <1>1, <2>3, <2>4, <3>1, FS_PigeonHole
  <2>6. PICK i \in 0..size, j \in 0..size : i # j /\ at(i) = at(j)
    BY <2>5
  <2>7. i < j \/ j < i
    BY <1>1, <2>6
  <2>8. QED
    BY <2>2, <2>6, <2>7
<1>5. QED
  BY <1>1, <1>4

\* A person who is not alive is asked for no father.
LEMMA UpOfTheDead ==
  ASSUME NEW st, NEW fa, NEW p \in Persons, st[p] # "live"
  PROVE  \A n \in Nat : n # 0 => Up(st, fa)[n][p] = None
<1> DEFINE at(n) == Up(st, fa)[n][p]
           T == {n \in Nat : n # 0 /\ at(n) # None}
<1>1. ASSUME T # {} PROVE FALSE
  <2>1. PICK n \in T : \A m \in T : n <= m
    BY <1>1, Least
  <2>2. n - 1 \in Nat /\ (n - 1) + 1 = n /\ ~(n <= n - 1)
    BY <2>1
  <2>3. at((n - 1) + 1) = OneUp(st, fa, at(n - 1))
    BY <2>2, UpNext
  <2>4. n - 1 = 0 => at(n - 1) = p
    BY UpZero
  <2>5. n - 1 # 0 => at(n - 1) = None
    BY <2>1, <2>2
  <2> HIDE DEF at
  <2>6. at(n) = None
    BY <2>2, <2>3, <2>4, <2>5 DEF OneUp
  <2>7. QED
    BY <2>1, <2>6
<1>2. QED
  BY <1>1

\* The table that rebuildForTenant writes.
Rebuilt(st, fa) == {SelfRow(p) : p \in {q \in Persons : st[q] = "live"}} \cup Walk(st, fa)

LEMMA RebuiltLines ==
  ASSUME NEW st, NEW fa, Linked(st, fa), Rooted(st, fa)
  PROVE  /\ Rebuilt(st, fa) \subseteq Row
         /\ \A a, d \in Persons : \A n \in Nat :
              <<a, d, n>> \in Rebuilt(st, fa) <=>
                st[a] = "live" /\ st[d] = "live" /\ Up(st, fa)[n][d] = a
<1>1. Cardinality(Persons) \in Nat
  BY PersonsOK, FS_CardinalityType
<1>2. Rebuilt(st, fa) \subseteq Row
  BY <1>1 DEF Rebuilt, Walk, SelfRow, Row
<1>3. ASSUME NEW a \in Persons, NEW d \in Persons, NEW n \in Nat
      PROVE  <<a, d, n>> \in Rebuilt(st, fa) <=>
               st[a] = "live" /\ st[d] = "live" /\ Up(st, fa)[n][d] = a
  <2>1. <<a, d, n>> \in Rebuilt(st, fa) <=>
          \/ a = d /\ n = 0 /\ st[a] = "live"
          \/ n \in 1 .. Cardinality(Persons) /\ Up(st, fa)[n][d] = a /\ st[a] = "live"
    <3>1. <<a, d, n>> \in Walk(st, fa) <=>
            n \in 1 .. Cardinality(Persons) /\ Up(st, fa)[n][d] = a /\ st[a] = "live"
      BY <1>1 DEF Walk
    <3>2. <<a, d, n>> \in {SelfRow(p) : p \in {q \in Persons : st[q] = "live"}} <=>
            a = d /\ n = 0 /\ st[a] = "live"
      BY DEF SelfRow
    <3>3. QED
      BY <3>1, <3>2 DEF Rebuilt
  <2>2. CASE n = 0
    <3>1. Up(st, fa)[n][d] = d
      BY <2>2, UpZero
    <3>2. QED
      BY <1>1, <2>1, <2>2, <3>1
  <2>3. CASE n # 0
    <3>1. Up(st, fa)[n][d] = a => st[d] = "live"
      BY <2>3, UpOfTheDead, PersonsOK
    <3>2. st[d] = "live" /\ Up(st, fa)[n][d] = a => n < Cardinality(Persons)
      BY ChainsEnd, PersonsOK
    <3>3. QED
      BY <1>1, <2>1, <2>3, <3>1, <3>2
  <2>4. QED
    BY <2>2, <2>3
<1>4. QED
  BY <1>2, <1>3

\* rebuildForTenant leaves the table exact.
LEMMA RebuiltIsGood ==
  ASSUME NEW st, NEW fa, Linked(st, fa), Rooted(st, fa)
  PROVE  Good(st, fa, Rebuilt(st, fa))
<1> DEFINE new == Rebuilt(st, fa)
           at(d, n) == Up(st, fa)[n][d]
<1>1. /\ new \subseteq Row
      /\ \A a, d \in Persons : \A n \in Nat :
           <<a, d, n>> \in new <=> st[a] = "live" /\ st[d] = "live" /\ at(d, n) = a
  BY RebuiltLines
<1>2. \A a, d \in Persons : \A n \in Nat :
        Line(st, new, a, d, n) <=> st[a] = "live" /\ st[d] = "live" /\ at(d, n) = a
  BY <1>1 DEF Line
<1> HIDE DEF new
<1>3. Typed(st, fa, new) /\ Fathers(st, fa)
  BY <1>1 DEF Typed, Linked
<1>4. Born(st, new)
  BY <1>1 DEF Born
<1>5. Zero(st, new)
  <2>1. \A p \in Persons : at(p, 0) = p
    BY UpZero
  <2>2. QED
    BY <1>2, <2>1 DEF Zero
<1>6. Step(st, fa, new)
  <2> SUFFICES ASSUME NEW a \in Persons, NEW p \in Persons, NEW n \in Nat, st[p] = "live"
               PROVE  Line(st, new, a, p, n + 1) <=> fa[p] # None /\ Line(st, new, a, fa[p], n)
    BY DEF Step
  <2>1. at(p, 0) = p /\ at(p, 0 + 1) = OneUp(st, fa, at(p, 0))
    <3>1. Up(st, fa)[0][p] = p
      BY UpZero
    <3>2. Up(st, fa)[0 + 1][p] = OneUp(st, fa, Up(st, fa)[0][p])
      BY UpNext
    <3>3. QED
      BY <3>1, <3>2
  <2>2. at(p, 1) = fa[p]
    <3>1. at(p, 1) = at(p, 0 + 1)
      OBVIOUS
    <3> HIDE DEF at
    <3>2. QED
      BY <2>1, <3>1, PersonsOK DEF OneUp
  <2>3. CASE fa[p] = None
    <3>1. at(p, n + 1) = None
      <4> DEFINE T == {k \in Nat : at(p, k + 1) # None}
      <4>1. ASSUME T # {} PROVE FALSE
        <5>1. PICK k \in T : \A j \in T : k <= j
          BY <4>1, Least
        <5>2. k # 0
          BY <2>2, <2>3, <5>1
        <5>3. k - 1 \in Nat /\ (k - 1) + 1 = k /\ ~(k <= k - 1)
          BY <5>1, <5>2
        <5>4. at(p, k) = None
          BY <5>1, <5>3
        <5>5. at(p, k + 1) = OneUp(st, fa, at(p, k))
          BY <5>1, UpNext
        <5>6. at(p, k + 1) = None
          BY <5>4, <5>5, Zenon DEF OneUp
        <5>7. QED
          BY <5>1, <5>6
      <4>2. QED
        BY <4>1
    <3>2. QED
      BY <1>2, <2>3, <3>1, PersonsOK
  <2>4. CASE fa[p] # None
    <3>1. PICK q \in Persons : q = fa[p] /\ st[q] = "live"
      BY <2>4 DEF Linked, Fathers
    <3>2. Up(st, fa)[1][p] = q /\ 1 \in Nat
      BY <2>2, <3>1
    <3>3. Up(st, fa)[n + 1][p] = Up(st, fa)[n][q]
      BY <3>2, UpAdds
    <3>4. at(p, n + 1) = at(q, n) /\ n + 1 \in Nat
      BY <3>3
    <3> HIDE DEF at
    <3>5. QED
      BY <1>2, <2>4, <3>1, <3>4
  <2>5. QED
    BY <2>3, <2>4
<1>7. ASSUME NEW a \in Persons, NEW b \in Persons, NEW d \in Persons, NEW m \in Nat, NEW n \in Nat,
             Line(st, new, a, b, m), Line(st, new, b, d, n)
      PROVE  Line(st, new, a, d, m + n)
  <2>1. Up(st, fa)[n][d] = b /\ Up(st, fa)[m][b] = a /\ m + n \in Nat /\ st[a] = "live" /\ st[d] = "live"
    BY <1>2, <1>7
  <2>2. Up(st, fa)[m + n][d] = a
    BY <2>1, UpAdds
  <2>3. QED
    BY <1>2, <2>1, <2>2
<1>8. Trans(st, new)
  BY <1>7 DEF Trans
<1>9. NoCycle(st, new)
  <2> SUFFICES ASSUME NEW a \in Persons, NEW d \in Persons, NEW m \in Nat, NEW n \in Nat,
                      Line(st, new, a, d, m), Line(st, new, d, a, n)
               PROVE  a = d /\ m = 0
    BY DEF NoCycle
  <2>1. n + m \in Nat /\ Line(st, new, d, d, n + m)
    BY <1>7
  <2>2. st[d] = "live" /\ Up(st, fa)[n + m][d] = d /\ at(d, m) = a
    BY <1>2, <2>1
  <2>3. n + m < Cardinality(Persons) /\ Cardinality(Persons) \in Nat
    BY <2>1, <2>2, ChainsEnd, PersonsOK, FS_CardinalityType
  <2>4. n + m \notin 1 .. Cardinality(Persons)
    BY <2>2 DEF Rooted
  <2>5. m = 0
    BY <2>1, <2>3, <2>4
  <2>6. Up(st, fa)[0][d] = d
    BY UpZero
  <2>7. QED
    BY <2>2, <2>5, <2>6
<1>10. QED
  BY <1>3, <1>4, <1>5, <1>6, <1>8, <1>9 DEF Good, Lines, new

\* A forest recorded by some table is rooted.
LEMMA GoodIsRooted ==
  ASSUME NEW st, NEW fa, NEW cl, Good(st, fa, cl)
  PROVE  Linked(st, fa) /\ Rooted(st, fa)
<1>1. Linked(st, fa)
  BY DEF Good, Typed, Linked
<1>2. Zero(st, cl) /\ Step(st, fa, cl) /\ NoCycle(st, cl) /\ Trans(st, cl) /\ Fathers(st, fa)
      /\ fa \in [Persons -> Persons \cup {None}]
  BY DEF Good, Lines, Typed
<1>3. ASSUME NEW p \in Persons, st[p] = "live"
      PROVE  \A n \in Nat : Up(st, fa)[n][p] # None => Line(st, cl, Up(st, fa)[n][p], p, n)
  <2> DEFINE at(n) == Up(st, fa)[n][p]
             T == {n \in Nat : ~(at(n) # None => Line(st, cl, at(n), p, n))}
  <2>1. ASSUME T # {} PROVE FALSE
    <3>1. PICK n \in T : \A m \in T : n <= m
      BY <2>1, Least
    <3>2. at(0) = p
      BY UpZero
    <3>3. n # 0
      <4>1. Line(st, cl, p, p, 0)
        BY <1>2, <1>3 DEF Zero
      <4>2. QED
        BY <3>1, <3>2, <4>1
    <3>4. n - 1 \in Nat /\ (n - 1) + 1 = n /\ 1 + (n - 1) = n /\ ~(n <= n - 1)
      BY <3>1, <3>3
    <3>5. at((n - 1) + 1) = OneUp(st, fa, at(n - 1))
      BY <3>4, UpNext
    <3>6. at(n - 1) = None \/ (at(n - 1) \in Persons /\ st[at(n - 1)] = "live")
      BY <1>1, <1>3, <3>4, UpLives
    <3>7. at(n - 1) # None => Line(st, cl, at(n - 1), p, n - 1)
      BY <3>1, <3>4
    <3>8. at(n) # None /\ ~Line(st, cl, at(n), p, n)
      BY <3>1
    <3> HIDE DEF at
    <3>9. at(n - 1) # None /\ fa[at(n - 1)] = at(n)
      BY <3>4, <3>5, <3>6, <3>8 DEF OneUp
    <3>10. PICK q \in Persons, a \in Persons :
             q = at(n - 1) /\ a = at(n) /\ fa[q] = a /\ st[q] = "live" /\ st[a] = "live" /\ a # None
      BY <1>2, <3>6, <3>8, <3>9 DEF Fathers
    <3>11. Line(st, cl, a, a, 0)
      BY <1>2, <3>10 DEF Zero
    <3>12. Line(st, cl, a, q, 0 + 1)
      BY <1>2, <3>10, <3>11 DEF Step
    <3>13. Line(st, cl, a, p, (0 + 1) + (n - 1))
      <4>1. 0 + 1 \in Nat /\ Line(st, cl, q, p, n - 1)
        BY <3>7, <3>9, <3>10
      <4>2. QED
        BY <1>2, <3>4, <3>12, <4>1 DEF Trans
    <3>14. (0 + 1) + (n - 1) = n
      BY <3>4
    <3>15. QED
      BY <3>8, <3>10, <3>13, <3>14
  <2>2. QED
    BY <2>1
<1>4. ASSUME NEW p \in Persons, NEW n \in 1 .. Cardinality(Persons), st[p] = "live",
             Up(st, fa)[n][p] = p
      PROVE  FALSE
  <2>1. n \in Nat /\ n # 0
    BY PersonsOK, FS_CardinalityType
  <2>2. Line(st, cl, p, p, n)
    BY <1>3, <1>4, <2>1, PersonsOK
  <2>3. QED
    BY <1>2, <2>1, <2>2 DEF NoCycle
<1>5. QED
  BY <1>1, <1>4 DEF Rooted

\* Whether the others are alive does not matter to a chain of the living.
LEMMA RootedAmongAll ==
  ASSUME NEW st, NEW fa, Linked(st, fa), Rooted([p \in Persons |-> "live"], fa)
  PROVE  Rooted(st, fa)
<1> DEFINE all == [p \in Persons |-> "live"]
<1>1. ASSUME NEW p \in Persons, st[p] = "live"
      PROVE  \A n \in Nat : Up(st, fa)[n][p] = Up(all, fa)[n][p]
  <2> DEFINE at(n) == Up(st, fa)[n][p]
             bt(n) == Up(all, fa)[n][p]
             T == {n \in Nat : at(n) # bt(n)}
  <2>1. ASSUME T # {} PROVE FALSE
    <3>1. PICK n \in T : \A m \in T : n <= m
      BY <2>1, Least
    <3>2. at(0) = p /\ bt(0) = p
      BY UpZero
    <3>3. n - 1 \in Nat /\ (n - 1) + 1 = n /\ ~(n <= n - 1)
      BY <3>1, <3>2
    <3>4. at((n - 1) + 1) = OneUp(st, fa, at(n - 1)) /\ bt((n - 1) + 1) = OneUp(all, fa, bt(n - 1))
      BY <3>3, UpNext
    <3>5. at(n - 1) = None \/ (at(n - 1) \in Persons /\ st[at(n - 1)] = "live")
      BY <1>1, <3>3, UpLives
    <3>6. at(n - 1) = bt(n - 1) /\ at(n) # bt(n)
      BY <3>1, <3>3
    <3> HIDE DEF at, bt
    <3>7. QED
      BY <3>3, <3>4, <3>5, <3>6 DEF OneUp
  <2>2. QED
    BY <2>1
<1>2. \A n \in 1 .. Cardinality(Persons) : n \in Nat
  BY PersonsOK, FS_CardinalityType
<1>3. QED
  BY <1>1, <1>2 DEF Rooted

\* What the runs check of the three variables is what the lemmas speak of.
LEMMA ConsistentIsGood ==
  Typed(state, father, closure) => (Consistent <=> Good(state, father, closure))
<1> SUFFICES ASSUME Typed(state, father, closure)
             PROVE  Consistent <=> Good(state, father, closure)
  OBVIOUS
<1> QED BY GoodByRows
        DEF Consistent, FathersLive, NoUnborn, Tracks, Records, Acyclic,
            Transitive, Above, LiveRows, Live

-----------------------------------------------------------------------------
(* Whom the rows put below whom, the deleted included: their rows stay until *)
(* the table is rebuilt, and deletions may leave them at any depth.  Among   *)
(* the living who are above somebody, each is above or below the other.      *)

Ordered(st, cl) ==
  \A a, b, d \in Persons : st[a] = "live" /\ st[b] = "live" =>
    /\ b \in Below(cl, a) /\ d \in Below(cl, b) => d \in Below(cl, a)
    /\ d \in Below(cl, a) /\ d \in Below(cl, b) => a \in Below(cl, b) \/ b \in Below(cl, a)

LEMMA GoodIsOrdered ==
  ASSUME NEW st, NEW fa, NEW cl, Good(st, fa, cl),
         \A r \in cl : st[r[1]] = "live" /\ st[r[2]] = "live"
  PROVE  Ordered(st, cl)
<1>1. ASSUME NEW a \in Persons, NEW d \in Below(cl, a) PROVE d \in Persons /\ st[d] = "live"
  BY DEF Below
<1>2. ASSUME NEW a \in Persons, NEW b \in Persons, NEW d \in Persons, st[a] = "live", st[b] = "live",
             b \in Below(cl, a), d \in Below(cl, b)
      PROVE  d \in Below(cl, a)
  <2>1. st[d] = "live"
    BY <1>1, <1>2
  <2>2. PICK m \in Nat : Line(st, cl, a, b, m)
    BY <1>2, BelowByFather
  <2>3. PICK n \in Nat : Line(st, cl, b, d, n)
    BY <1>2, <2>1, BelowByFather
  <2>4. Line(st, cl, a, d, m + n) /\ m + n \in Nat
    BY <2>2, <2>3 DEF Good, Lines, Trans
  <2>5. QED
    BY <1>2, <2>1, <2>4, BelowByFather
<1>3. ASSUME NEW a \in Persons, NEW b \in Persons, st[a] = "live", st[b] = "live",
             a \notin Below(cl, b), b \notin Below(cl, a)
      PROVE  ~\E d \in Persons : d \in Below(cl, a) /\ d \in Below(cl, b)
  <2> DEFINE T == {n \in Nat : \E d \in Persons : Line(st, cl, a, d, n) /\ d \in Below(cl, b)}
  <2>1. ASSUME T # {} PROVE FALSE
    <3>1. PICK n \in T : \A m \in T : n <= m
      BY <2>1, Least
    <3>2. n \in Nat
      OBVIOUS
    <3>3. PICK d \in Persons : Line(st, cl, a, d, n) /\ d \in Below(cl, b)
      BY <3>1
    <3>4. st[d] = "live" /\ a # d /\ b # d
      <4>1. st[d] = "live"
        BY <3>3 DEF Line
      <4>2. d \in Below(cl, a)
        BY <1>3, <3>2, <3>3, <4>1, BelowByFather
      <4>3. QED
        BY <1>3, <3>3, <4>1, <4>2
    <3>5. n # 0
      BY <3>3, <3>4 DEF Good, Lines, Zero
    <3>6. PICK j \in Nat : n = j + 1
      <4>1. n - 1 \in Nat /\ n = (n - 1) + 1
        BY <3>2, <3>5
      <4>2. QED
        BY <4>1
    <3>7. fa[d] # None /\ Line(st, cl, a, fa[d], j)
      BY <3>3, <3>4, <3>6 DEF Good, Lines, Step
    <3>8. fa[d] \in Persons
      BY <3>7 DEF Good, Typed
    <3>9. fa[d] \in Below(cl, b)
      BY <1>3, <3>3, <3>4, BelowByFather
    <3>10. j \in T
      BY <3>7, <3>8, <3>9
    <3>11. QED
      BY <3>1, <3>6, <3>10
  <2>2. QED
    <3>1. SUFFICES ASSUME NEW d \in Persons, d \in Below(cl, a), d \in Below(cl, b) PROVE FALSE
      OBVIOUS
    <3>2. PICK n \in Nat : Line(st, cl, a, d, n)
      BY <1>1, <1>3, <3>1, BelowByFather
    <3>3. n \in T
      BY <3>1, <3>2
    <3>4. QED
      BY <2>1, <3>3
<1>4. QED
  BY <1>2, <1>3 DEF Ordered

LEMMA StripBelow ==
  ASSUME NEW cl, NEW x, NEW a, NEW d
  PROVE  d \in Below(cl \ Strip(cl, x), a) <=>
           d \in Below(cl, a) /\ (a \in Below(cl, x) \/ d \notin Below(cl, x))
BY DEF Below, Strip

LEMMA UnderBelow ==
  ASSUME NEW cl \in SUBSET Row, NEW x, NEW f, NEW a \in Persons, NEW d \in Persons
  PROVE  d \in Below(Under(cl, x, f), a) <=>
           d \in Below(cl, a) \/ (f # None /\ f \in Below(cl, a) /\ d \in Below(cl, x))
<1>1. CASE f = None
  BY <1>1 DEF Under
<1>2. CASE f # None
  <2>1. Under(cl, x, f) = cl \cup Graft(cl, x, f)
    BY <1>2 DEF Under
  <2>2. (\E r \in Graft(cl, x, f) : r[1] = a /\ r[2] = d) <=> f \in Below(cl, a) /\ d \in Below(cl, x)
    <3>1. ASSUME NEW r \in Graft(cl, x, f), r[1] = a, r[2] = d
          PROVE  f \in Below(cl, a) /\ d \in Below(cl, x)
      <4>1. PICK s \in cl, u \in cl : s[2] = f /\ u[1] = x /\ r = <<s[1], u[2], s[3] + u[3] + 1>>
        BY DEF Graft
      <4>2. s[1] = a /\ u[2] = d /\ f \in Persons
        BY <3>1, <4>1 DEF Row
      <4>3. QED
        BY <4>1, <4>2 DEF Below
    <3>2. ASSUME f \in Below(cl, a), d \in Below(cl, x)
          PROVE  \E r \in Graft(cl, x, f) : r[1] = a /\ r[2] = d
      <4>1. PICK s \in cl : s[1] = a /\ s[2] = f
        BY <3>2 DEF Below
      <4>2. PICK u \in cl : u[1] = x /\ u[2] = d
        BY <3>2 DEF Below
      <4>3. <<s[1], u[2], s[3] + u[3] + 1>> \in Graft(cl, x, f)
        BY <4>1, <4>2 DEF Graft
      <4>4. QED
        BY <4>1, <4>2, <4>3
    <3>3. QED
      BY <3>1, <3>2
  <2>3. QED
    BY <1>2, <2>1, <2>2 DEF Below
<1>3. QED
  BY <1>1, <1>2

LEMMA MoveKeepsOrdered ==
  ASSUME NEW st, NEW cl \in SUBSET Row, Ordered(st, cl),
         NEW x \in Persons, st[x] = "live", x \in Below(cl, x),
         NEW f \in Persons \cup {None}, f # None => st[f] = "live" /\ f \notin Below(cl, x)
  PROVE  Ordered(st, Under(cl \ Strip(cl, x), x, f))
<1>1. PICK cut \in SUBSET Row : cut = cl \ Strip(cl, x)
  OBVIOUS
<1>2. PICK new : new = Under(cut, x, f)
  OBVIOUS
<1>3. ASSUME NEW a \in Persons, NEW d \in Persons
      PROVE  d \in Below(new, a) <=>
               \/ d \in Below(cl, a) /\ (a \in Below(cl, x) \/ d \notin Below(cl, x))
               \/ f # None /\ f \in Below(cl, a) /\ d \in Below(cl, x)
  <2>1. d \in Below(new, a) <=>
          d \in Below(cut, a) \/ (f # None /\ f \in Below(cut, a) /\ d \in Below(cut, x))
    BY <1>2, UnderBelow
  <2>2. d \in Below(cut, a) <=> d \in Below(cl, a) /\ (a \in Below(cl, x) \/ d \notin Below(cl, x))
    BY <1>1, StripBelow
  <2>3. d \in Below(cut, x) <=> d \in Below(cl, x)
    BY <1>1, StripBelow
  <2>4. f # None => (f \in Below(cut, a) <=> f \in Below(cl, a))
    BY <1>1, StripBelow
  <2>5. QED
    BY <2>1, <2>2, <2>3, <2>4
<1>4. ASSUME NEW a \in Persons, NEW b \in Persons, NEW d \in Persons, st[a] = "live", st[b] = "live",
             b \in Below(new, a), d \in Below(new, b)
      PROVE  d \in Below(new, a)
  <2>1. CASE f = None
    BY <1>3, <1>4, <2>1 DEF Ordered
  <2>2. CASE f # None
    <3>1. f \in Persons /\ st[f] = "live" /\ f \notin Below(cl, x)
      BY <2>2
    <3>2. QED
      BY <1>3, <1>4, <2>2, <3>1 DEF Ordered
  <2>3. QED
    BY <2>1, <2>2
<1>5. ASSUME NEW a \in Persons, NEW b \in Persons, NEW d \in Persons, st[a] = "live", st[b] = "live",
             d \in Below(new, a), d \in Below(new, b)
      PROVE  a \in Below(new, b) \/ b \in Below(new, a)
  <2>1. CASE f = None
    BY <1>3, <1>5, <2>1 DEF Ordered
  <2>2. CASE f # None
    <3>1. f \in Persons /\ st[f] = "live" /\ f \notin Below(cl, x)
      BY <2>2
    <3>2. QED
      BY <1>3, <1>5, <2>2, <3>1 DEF Ordered
  <2>3. QED
    BY <2>1, <2>2
<1>6. QED
  BY <1>1, <1>2, <1>4, <1>5 DEF Ordered

LEMMA CreateKeepsOrdered ==
  ASSUME NEW st \in [Persons -> States], NEW cl \in SUBSET Row, Ordered(st, cl), Born(st, cl),
         NEW x \in Persons, st[x] = "unborn",
         NEW f \in Persons \cup {None}, f # None => st[f] = "live"
  PROVE  Ordered([st EXCEPT ![x] = "live"], Under(cl \cup {SelfRow(x)}, x, f))
<1>1. PICK more : more = cl \cup {SelfRow(x)}
  OBVIOUS
<1>2. more \in SUBSET Row
  BY <1>1 DEF SelfRow, Row
<1>3. PICK new : new = Under(more, x, f)
  OBVIOUS
<1>4. PICK su : su = [st EXCEPT ![x] = "live"]
  OBVIOUS
<1>5. \A r \in cl : r[1] # x /\ r[2] # x
  BY DEF Born, Row
<1>6. ASSUME NEW a \in Persons, NEW d \in Persons
      PROVE  d \in Below(new, a) <=> \/ d \in Below(cl, a) \/ (a = x /\ d = x)
                                     \/ d = x /\ f # None /\ f \in Below(cl, a)
  <2>1. \A b, e \in Persons : e \in Below(more, b) <=> e \in Below(cl, b) \/ (b = x /\ e = x)
    <3>1. PICK self : self = SelfRow(x)
      OBVIOUS
    <3>2. self[1] = x /\ self[2] = x
      BY <3>1 DEF SelfRow
    <3>3. more = cl \cup {self}
      BY <1>1, <3>1
    <3>4. QED
      BY <3>2, <3>3 DEF Below
  <2>2. \A e \in Persons : e \notin Below(cl, x)
    BY <1>5 DEF Below
  <2>3. d \in Below(new, a) <=>
          d \in Below(more, a) \/ (f # None /\ f \in Below(more, a) /\ d \in Below(more, x))
    BY <1>2, <1>3, UnderBelow
  <2>4. QED
    BY <2>1, <2>2, <2>3
<1>7. \A a \in Persons : a \notin Below(cl, x) /\ x \notin Below(cl, a)
  BY <1>5 DEF Below
<1>8. ASSUME NEW a \in Persons, NEW b \in Persons, NEW d \in Persons, su[a] = "live", su[b] = "live"
      PROVE  /\ b \in Below(new, a) /\ d \in Below(new, b) => d \in Below(new, a)
             /\ d \in Below(new, a) /\ d \in Below(new, b) => a \in Below(new, b) \/ b \in Below(new, a)
  <2>1. (a # x => st[a] = "live") /\ (b # x => st[b] = "live")
    BY <1>4, <1>8
  <2>2. f # None => f \in Persons /\ st[f] = "live" /\ f # x
    OBVIOUS
  <2>3. QED
    BY <1>6, <1>7, <2>1, <2>2 DEF Ordered
<1>9. QED
  BY <1>1, <1>3, <1>4, <1>8 DEF Ordered

\* The subtrees of all of S are cut off at once.
Unlinked(cl, S) == cl \ UNION {Strip(cl, c) : c \in S}

LEMMA UnlinkedBelow ==
  ASSUME NEW cl, NEW S, NEW a, NEW d
  PROVE  d \in Below(Unlinked(cl, S), a) <=>
           d \in Below(cl, a) /\ \A c \in S : a \in Below(cl, c) \/ d \notin Below(cl, c)
BY DEF Below, Unlinked, Strip

LEMMA UnlinkedKeepsOrdered ==
  ASSUME NEW st, NEW cl, Ordered(st, cl), NEW S \in SUBSET Persons, \A c \in S : st[c] = "live"
  PROVE  Ordered(st, Unlinked(cl, S))
<1> DEFINE new == Unlinked(cl, S)
<1>1. ASSUME NEW a \in Persons, NEW d \in Persons
      PROVE  d \in Below(new, a) <=>
               d \in Below(cl, a) /\ \A c \in S : a \in Below(cl, c) \/ d \notin Below(cl, c)
  BY UnlinkedBelow
<1> HIDE DEF new
<1>2. ASSUME NEW a \in Persons, NEW b \in Persons, NEW d \in Persons, st[a] = "live", st[b] = "live",
             b \in Below(new, a), d \in Below(new, b)
      PROVE  d \in Below(new, a)
  BY <1>1, <1>2 DEF Ordered
<1>3. ASSUME NEW a \in Persons, NEW b \in Persons, NEW d \in Persons, st[a] = "live", st[b] = "live",
             d \in Below(new, a), d \in Below(new, b), b \in Below(cl, a)
      PROVE  b \in Below(new, a)
  <2>1. ASSUME NEW c \in S, b \in Below(cl, c) PROVE a \in Below(cl, c)
    <3>1. d \in Below(cl, c)
      BY <1>1, <1>3, <2>1 DEF Ordered
    <3>2. QED
      BY <1>1, <1>3, <3>1
  <2>2. QED
    BY <1>1, <1>3, <2>1
<1>4. \A a, b, d \in Persons : st[a] = "live" /\ st[b] = "live" /\ d \in Below(new, a) /\ d \in Below(new, b)
        => a \in Below(new, b) \/ b \in Below(new, a)
  BY <1>1, <1>3 DEF Ordered
<1>5. Ordered(st, new)
  BY <1>2, <1>4 DEF Ordered
<1>6. QED
  BY <1>5 DEF new

LEMMA DropKeepsOrdered ==
  ASSUME NEW st \in [Persons -> States], NEW cl, Ordered(st, cl), NEW x \in Persons
  PROVE  Ordered([st EXCEPT ![x] = "deleted"], cl \ RowsOf(cl, x))
<1>1. PICK new : new = cl \ RowsOf(cl, x)
  OBVIOUS
<1>2. PICK su : su = [st EXCEPT ![x] = "deleted"]
  OBVIOUS
<1>3. \A a, d \in Persons : d \in Below(new, a) <=> d \in Below(cl, a) /\ a # x /\ d # x
  BY <1>1 DEF Below, RowsOf
<1>4. \A a \in Persons : su[a] = "live" => st[a] = "live" /\ a # x
  BY <1>2
<1>5. Ordered(su, new)
  BY <1>3, <1>4 DEF Ordered
<1>6. QED
  BY <1>1, <1>2, <1>5

\* Two children of one father have nobody in common below them.
LEMMA SiblingsApart ==
  ASSUME NEW st, NEW fa, NEW cl, Good(st, fa, cl), Ordered(st, cl), NEW p \in Persons, st[p] = "live",
         NEW c \in Persons, st[c] = "live", fa[c] = p, NEW e \in Persons, st[e] = "live", fa[e] = p, c # e
  PROVE  Below(cl, c) \cap Below(cl, e) = {}
<1>0. p # None
  BY PersonsOK
<1>1. ASSUME NEW x \in Persons, NEW y \in Persons, st[x] = "live", st[y] = "live", fa[x] = p, fa[y] = p,
             x # y, y \in Below(cl, x)
      PROVE  FALSE
  <2>1. p \in Below(cl, x)
    BY <1>1, BelowByFather
  <2>2. PICK m \in Nat : Line(st, cl, x, p, m)
    BY <1>1, <2>1, BelowByFather
  <2>3. Line(st, cl, p, p, 0)
    BY DEF Good, Lines, Zero
  <2>4. Line(st, cl, p, x, 0 + 1)
    BY <1>0, <1>1, <2>3 DEF Good, Lines, Step
  <2>5. 0 + 1 \in Nat /\ 0 + 1 # 0
    OBVIOUS
  <2>6. QED
    BY <2>2, <2>4, <2>5 DEF Good, Lines, NoCycle
<1>2. \A d : d \in Below(cl, c) => d \in Persons
  BY DEF Below
<1>3. QED
  BY <1>1, <1>2 DEF Ordered

\* Cutting the children off one after the other cuts off the same rows.
LEMMA UnlinkOneMore ==
  ASSUME NEW cl, NEW S, NEW c, \A e \in S, d \in Persons : ~(d \in Below(cl, c) /\ d \in Below(cl, e))
  PROVE  Unlinked(cl, S) \ Strip(Unlinked(cl, S), c) = Unlinked(cl, S \cup {c})
<1> DEFINE v == Unlinked(cl, S)
<1> HIDE DEF v
<1>1. \A d \in Persons : d \in Below(v, c) <=> d \in Below(cl, c)
  BY UnlinkedBelow DEF v
<1>2. Below(v, c) = Below(cl, c)
  BY <1>1 DEF Below
<1>3. ASSUME NEW r \in v PROVE r \in Strip(v, c) <=> r \in Strip(cl, c)
  BY <1>2 DEF Strip, Unlinked, v
<1>4. QED
  BY <1>3 DEF Unlinked, v
==============================================================================
