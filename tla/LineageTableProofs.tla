------------------------- MODULE LineageTableProofs -------------------------
(***************************************************************************)
(* The closure table stays the record of the father forest.                *)
(***************************************************************************)
EXTENDS LineageTable, ForestProofs

LEMMA InvariantIsGood ==
  TypeOK => (Consistent <=> Good(state, father, closure))
BY ConsistentIsGood DEF TypeOK, Typed

LEMMA NextInvariantIsGood ==
  TypeOK' => (Consistent' <=> Good(state', father', closure'))
<1> SUFFICES ASSUME TypeOK' PROVE Consistent' <=> Good(state', father', closure')
  OBVIOUS
<1>1. Typed(state', father', closure')
  BY DEF TypeOK, Typed
<1> QED BY <1>1, GoodByRows
        DEF Consistent, FathersLive, NoUnborn, Tracks, Records, Acyclic,
            Transitive, Above, LiveRows, Live

LEMMA InitConsistent == Init => TypeOK /\ Consistent
<1> SUFFICES ASSUME Init PROVE TypeOK /\ Good(state, father, closure)
  BY InvariantIsGood
<1>1. TypeOK
  BY DEF Init, TypeOK, States, Live, SelfRow, Row
<1>2. \A p \in Persons : father[p] = None
  BY DEF Init
<1>3. \A a, d \in Persons : \A n \in Nat :
        <<a, d, n>> \in closure <=> a \in Live /\ d = a /\ n = 0
  BY DEF Init, SelfRow
<1>4. \A a, d \in Persons : \A n \in Nat :
        Line(state, closure, a, d, n) <=> a \in Live /\ d = a /\ n = 0
  BY <1>3 DEF Line, Live
<1>5. Fathers(state, father) /\ Born(state, closure)
  BY <1>2, <1>3 DEF Fathers, Born, Live
<1>6. Zero(state, closure) /\ NoCycle(state, closure)
  BY <1>4 DEF Zero, NoCycle, Live
<1>7. Step(state, father, closure)
  <2> SUFFICES ASSUME NEW a \in Persons, NEW p \in Persons, NEW n \in Nat
               PROVE  ~Line(state, closure, a, p, n + 1)
    BY <1>2 DEF Step
  <2>1. n + 1 \in Nat /\ n + 1 # 0
    OBVIOUS
  <2> QED BY <1>4, <2>1
<1>8. Trans(state, closure)
  <2> SUFFICES ASSUME NEW a \in Persons, NEW b \in Persons, NEW d \in Persons,
                      NEW m \in Nat, NEW n \in Nat,
                      Line(state, closure, a, b, m), Line(state, closure, b, d, n)
               PROVE  Line(state, closure, a, d, m + n)
    BY DEF Trans
  <2>1. a = b /\ b = d /\ m = 0 /\ n = 0
    BY <1>4
  <2> QED BY <2>1
<1>9. Typed(state, father, closure)
  BY <1>1 DEF Typed, TypeOK
<1> QED BY <1>1, <1>5, <1>6, <1>7, <1>8, <1>9 DEF Good, Lines

LEMMA NextConsistent == TypeOK /\ Consistent /\ [Next]_vars => TypeOK' /\ Consistent'
<1> SUFFICES ASSUME TypeOK, Consistent, [Next]_vars PROVE TypeOK' /\ Consistent'
  OBVIOUS
<1>1. Good(state, father, closure)
  BY InvariantIsGood
<1>2. ASSUME Good(state', father', closure') PROVE TypeOK' /\ Consistent'
  <2>1. TypeOK'
    BY <1>2 DEF Good, Typed, TypeOK
  <2> QED BY <1>2, <2>1, NextInvariantIsGood
<1>3. ASSUME NEW p \in Persons, NEW f \in Persons \cup {None}, Create(p, f)
      PROVE  Good(state', father', closure')
  <2>1. state[p] = "unborn" /\ (f # None => state[f] = "live")
    BY <1>3 DEF Create, CanBeFather, Live
  <2>2. Good([state EXCEPT ![p] = "live"], [father EXCEPT ![p] = f],
             Under(closure \cup {SelfRow(p)}, p, f))
    BY <1>1, <2>1, CreateKeepsGood
  <2> QED BY <1>3, <2>2 DEF Create
<1>4. ASSUME NEW p \in Persons, NEW f \in Persons \cup {None}, Refather(p, f)
      PROVE  Good(state', father', closure')
  <2>1. /\ state[p] = "live"
        /\ f # None => state[f] = "live" /\ f \notin Below(closure, p)
    BY <1>4 DEF Refather, CanBeFather, Live, WouldCreateCycle
  <2>2. Good(state, [father EXCEPT ![p] = f],
             Under(closure \ Strip(closure, p), p, f))
    BY <1>1, <2>1, MoveKeepsGood
  <2> QED BY <1>4, <2>2 DEF Refather
<1>5. ASSUME NEW p \in Persons, Delete(p)
      PROVE  Good(state', father', closure')
  <2> DEFINE children == {c \in Live : father[c] = p}
  <2>1. state[p] = "live"
    BY <1>5 DEF Delete, Live
  <2>2. children = {c \in Persons : state[c] = "live" /\ father[c] = p}
    BY DEF Live
  <2>3. /\ state' = [state EXCEPT ![p] = "deleted"]
        /\ father' = [c \in Persons |-> IF c \in children THEN None
                                       ELSE father[c]]
        /\ closure' = (closure \ UNION {Strip(closure, c) : c \in children})
                        \ RowsOf(closure, p)
    BY <1>5 DEF Delete
  <2> HIDE DEF children
  <2>4. Good([state EXCEPT ![p] = "deleted"],
             [c \in Persons |-> IF c \in children THEN None ELSE father[c]],
             (closure \ UNION {Strip(closure, c) : c \in children})
               \ RowsOf(closure, p))
    BY <1>1, <2>1, <2>2, DeleteKeepsGood
  <2> QED BY <2>3, <2>4
<1>6. ASSUME NEW batch \in SUBSET Persons, Withdraw(batch)
      PROVE  Good(state', father', closure')
  <2>1. \A p \in Persons \ batch : state[p] = "live" => father[p] \notin batch
    BY <1>6 DEF Withdraw, Live
  <2>2. Good([p \in Persons |-> IF p \in batch /\ state[p] = "live"
                               THEN "deleted" ELSE state[p]], father, closure)
    BY <1>1, <2>1, WithdrawKeepsGood
  <2>3. state' = [p \in Persons |-> IF p \in batch /\ state[p] = "live"
                                   THEN "deleted" ELSE state[p]]
    BY <1>6 DEF Withdraw, Live
  <2> QED BY <1>6, <2>2, <2>3 DEF Withdraw
<1>7. ASSUME Rebuild PROVE TypeOK' /\ Consistent'
  <2>1. Live' = Live
    BY <1>7 DEF Rebuild, Live
  <2>2. closure' \subseteq Row /\ TypeOK'
    BY <1>7 DEF Rebuild, TypeOK, Row, Live
  <2>3. NoUnborn'
    <3> SUFFICES ASSUME NEW r \in closure'
                 PROVE  state[r[1]] # "unborn" /\ state[r[2]] # "unborn"
      BY <1>7 DEF NoUnborn, Rebuild
    <3>1. r[1] \in Live /\ r[2] \in Live
      BY <1>7 DEF Rebuild
    <3> QED BY <3>1 DEF Live
  <2>4. FathersLive'
    BY <1>7, <2>1 DEF Consistent, FathersLive, Rebuild
  <2>5. Tracks'
    BY <1>7 DEF Rebuild
  <2> QED BY <2>2, <2>3, <2>4, <2>5 DEF Consistent
<1>8. CASE UNCHANGED vars
  <2>1. Good(state', father', closure')
    BY <1>1, <1>8 DEF vars
  <2> QED BY <1>2, <2>1
<1> QED BY <1>2, <1>3, <1>4, <1>5, <1>6, <1>7, <1>8 DEF Next

LEMMA SpecConsistent == Spec => [](TypeOK /\ Consistent)
  BY InitConsistent, NextConsistent, PTL DEF Spec

\* Whatever persons are created, moved and deleted, in whatever order, and
\* between and after the two transactions of a rollback: the fathers of the
\* living form a forest and person_closures records exactly that forest.
THEOREM TableStaysConsistent == Spec => []Consistent
<1>1. TypeOK /\ Consistent => Consistent
  OBVIOUS
<1> QED BY <1>1, SpecConsistent, PTL

\* The check of wouldCreateCycle is enough: the table never puts a living
\* person above its own father.
THEOREM NobodyBegetsHisFather ==
  Spec => [](\A p \in Live : father[p] # None
                              => father[p] \notin Below(closure, p))
<1>1. ASSUME TypeOK, Consistent, NEW p \in Live, father[p] # None,
             father[p] \in Below(closure, p)
      PROVE  FALSE
  <2>1. Good(state, father, closure)
    BY <1>1, InvariantIsGood
  <2>2. PICK f \in Persons : f = father[p]
    BY <1>1 DEF TypeOK, Live
  <2>3. p \in Persons /\ state[p] = "live" /\ state[f] = "live"
    BY <1>1, <2>2 DEF Consistent, FathersLive, Live
  <2>4. PICK n \in Nat : Line(state, closure, p, f, n)
    BY <1>1, <2>1, <2>2, <2>3, BelowByFather
  <2>5. Line(state, closure, f, f, 0)
    BY <2>1, <2>2, <2>3 DEF Good, Lines, Zero
  <2>6. Line(state, closure, f, p, 0 + 1)
    BY <1>1, <2>1, <2>2, <2>3, <2>5 DEF Good, Lines, Step
  <2>7. 0 + 1 \in Nat /\ 0 + 1 # 0
    OBVIOUS
  <2>8. 0 + 1 = 0
    BY <2>1, <2>2, <2>3, <2>4, <2>6, <2>7 DEF Good, Lines, NoCycle
  <2> QED BY <2>7, <2>8
<1>2. TypeOK /\ Consistent
        => \A p \in Live : father[p] # None => father[p] \notin Below(closure, p)
  BY <1>1
<1> QED BY <1>2, SpecConsistent, PTL
=============================================================================
