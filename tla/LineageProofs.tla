---------------------------- MODULE LineageProofs ----------------------------
(***************************************************************************)
(* The safety of Lineage, for any number of persons, of requests in flight *)
(* and of statements of theirs that interleave.                            *)
(***************************************************************************)
EXTENDS Lineage, ForestProofs

Steps == {"idle", "parents", "cycle", "self", "strip", "graft", "row", "children", "detach", "unlink",
          "drop", "blockers", "withdraw", "wipe", "selves", "walk", "commit", "status"}
Requests == [pc : Steps, op : Ops \cup {None}, id : Maybe, to : Maybe, base : Nat, seen : Maybe,
             todo : SUBSET Persons, child : Maybe, detached : SUBSET Persons,
             dels : SUBSET Row, ins : SUBSET Row, waits : SUBSET Handlers]

LineageTypeOK ==
  /\ state \in [Persons -> States]
  /\ father \in [Persons -> Maybe]
  /\ closure \subseteq Row
  /\ version \in [Persons -> Nat]
  /\ tx \in [Handlers -> Requests]
  /\ mixed \in BOOLEAN

-----------------------------------------------------------------------------
(* What holds of every request r in flight, whatever runs beside it.          *)

\* The steps of each operation, and the person it is about.
OnCourse(st, r) ==
  /\ r.pc = "idle" => r.op = None
  /\ r.op = None => r.pc = "idle" /\ r.id = None
  /\ r.op = "create" => /\ r.pc \in {"parents", "self", "strip", "graft", "commit"}
                        /\ r.id \in Persons /\ st[r.id] = "unborn"
                        /\ r.pc \in {"parents", "strip", "graft"} => r.to # None
  /\ r.op = "refather" => r.pc \in {"parents", "cycle", "strip", "graft", "row", "commit"}
  /\ r.op = "gender" => r.pc \in {"row", "commit"}
  /\ r.op = "delete" => r.pc \in {"children", "detach", "unlink", "drop", "row", "commit"}
  /\ r.op = "rollback" =>
       r.pc \in {"blockers", "withdraw", "wipe", "selves", "walk", "commit", "status"}
  /\ r.op \in {"refather", "gender", "delete"} => r.id \in Persons /\ st[r.id] # "unborn"
  /\ r.op = "rollback" => r.id = None

\* A depth 0 row is inserted for the person who is created or by a rebuild, and deleted with
\* its person or by a rebuild that puts it back.
MindsSelves(st, r) ==
  /\ r.op = "create" /\ r.pc \in {"strip", "graft", "commit"} => SelfRow(r.id) \in r.ins
  /\ \A p \in Persons :
       SelfRow(p) \in r.ins => \/ r.op = "create" /\ r.id = p
                               \/ r.op = "rollback" /\ st[p] # "unborn"
  /\ \A p \in Persons :
       SelfRow(p) \in r.dels =>
         /\ st[p] # "unborn"
         /\ \/ st[p] = "deleted"
            \/ r.op = "delete" /\ r.id = p
            \/ r.op = "rollback" /\ (r.pc = "selves" \/ SelfRow(p) \in r.ins)
  /\ r.pc \in {"idle", "blockers", "withdraw", "wipe", "status"} => r.ins = {} /\ r.dels = {}

SelvesInv ==
  /\ \A p \in Persons : SelfRow(p) \in closure => state[p] # "unborn"
  /\ EveryoneHasASelfRow
  /\ \A h \in Handlers : OnCourse(state, tx[h]) /\ MindsSelves(state, tx[h])
  /\ \A g, h \in Handlers : g # h /\ tx[g].op = "create" => tx[h].id # tx[g].id

-----------------------------------------------------------------------------
(* What a request sees while nothing overlaps but creations and changes of    *)
(* gender.                                                                   *)

Seen(cl, r) == (cl \ r.dels) \cup r.ins
NothingYet(r) == r.dels = {} /\ r.ins = {}
Orphaned(fa, cut) == [p \in Persons |-> IF p \in cut THEN None ELSE fa[p]]
Cut(r) == IF r.pc = "unlink" THEN r.detached \ {r.child} ELSE r.detached

\* A father who is alive and not below the person.
Suits(st, cl, p, f) == f # None => st[f] = "live" /\ f \notin Below(cl, p)

CreateSees(st, cl, r) ==
  /\ r.dels = {} /\ r.detached = {}
  /\ r.pc # "parents" /\ r.to # None => st[r.to] = "live"
  /\ r.pc \in {"parents", "self"} => r.ins = {}
  /\ r.pc \in {"strip", "graft"} => r.to # None /\ r.ins = {SelfRow(r.id)}
  /\ r.pc = "commit" =>
       r.ins = {SelfRow(r.id)} \cup
               (IF r.to = None THEN {} ELSE Graft(cl \cup {SelfRow(r.id)}, r.id, r.to))

RefatherSees(st, fa, cl, r) ==
  /\ r.detached = {} /\ st[r.id] = "live" /\ r.seen = fa[r.id]
  /\ r.pc \in {"parents", "cycle", "strip"} => NothingYet(r)
  /\ r.pc \in {"parents", "cycle", "graft"} => r.to # None
  /\ r.pc = "cycle" => st[r.to] = "live"
  /\ r.pc \in {"strip", "graft"} => Suits(st, cl, r.id, r.to)
  /\ r.pc = "graft" => r.ins = {} /\ r.dels = Strip(cl, r.id)
  /\ r.pc \in {"row", "commit"} =>
       \/ NothingYet(r) /\ r.to = fa[r.id]
       \/ /\ Suits(st, cl, r.id, r.to)
          /\ Seen(cl, r) = Under(cl \ Strip(cl, r.id), r.id, r.to)

DeleteSees(st, fa, cl, r) ==
  /\ st[r.id] = "live"
  /\ r.pc = "children" => NothingYet(r) /\ r.detached = {}
  /\ r.pc \in {"detach", "unlink", "drop"} =>
       /\ r.detached \cup r.todo = {c \in Persons : st[c] = "live" /\ fa[c] = r.id}
       /\ r.detached \cap r.todo = {}
       /\ r.pc = "unlink" => r.child \in r.detached
       /\ r.pc = "drop" => r.todo = {}
       /\ r.ins = {}
       /\ Good(st, Orphaned(fa, Cut(r)), Seen(cl, r))
  /\ r.pc \in {"row", "commit"} =>
       Good([st EXCEPT ![r.id] = "deleted"], Orphaned(fa, r.detached), Seen(cl, r))

RollbackSees(st, fa, cl, r) ==
  /\ r.detached = {}
  /\ r.pc = "withdraw" => \A c \in Persons \ Imported : st[c] = "live" => fa[c] \notin Imported
  /\ r.pc = "selves" => r.dels = cl /\ r.ins = {}
  /\ r.pc = "walk" => r.dels = cl /\ r.ins = {SelfRow(p) : p \in {q \in Persons : st[q] = "live"}}
  /\ r.pc = "commit" => r.dels = cl /\ r.ins = Rebuilt(st, fa)

Sees(st, fa, cl, r) ==
  /\ r.op = "create" => CreateSees(st, cl, r)
  /\ r.op = "gender" => NothingYet(r) /\ r.detached = {}
  /\ r.op = "refather" => RefatherSees(st, fa, cl, r)
  /\ r.op = "delete" => DeleteSees(st, fa, cl, r)
  /\ r.op = "rollback" => RollbackSees(st, fa, cl, r)

Alone ==
  \A g, h \in Handlers :
    g # h /\ tx[g].pc # "idle" /\ tx[h].pc # "idle" => {tx[g].op, tx[h].op} \subseteq {"create", "gender"}

ExactInv ==
  ~mixed => /\ Good(state, father, closure)
            /\ Alone
            /\ \A h \in Handlers : Sees(state, father, closure, tx[h])

LineageInv == LineageTypeOK /\ SelvesInv /\ ExactInv

-----------------------------------------------------------------------------
(* The records of the requests *)

Same(r, q) ==
  /\ r.op = q.op /\ r.id = q.id /\ r.to = q.to /\ r.seen = q.seen
  /\ r.todo = q.todo /\ r.child = q.child /\ r.detached = q.detached

\* Only h goes on, and as r.
Becomes(h, r) == tx' = [tx EXCEPT ![h] = r]

LEMMA Put ==
  ASSUME NEW h \in Handlers, NEW r \in Requests, tx \in [Handlers -> Requests], Becomes(h, r)
  PROVE  /\ tx' \in [Handlers -> Requests] /\ tx'[h] = r
         /\ \A g \in Handlers : g # h => tx'[g] = tx[g]
BY DEF Becomes

LEMMA IdleIs ==
  /\ Idle \in Requests /\ Idle.pc = "idle" /\ Idle.op = None /\ Idle.id = None
  /\ Idle.dels = {} /\ Idle.ins = {} /\ Idle.detached = {}
BY DEF Idle, Requests, Steps, Maybe

LEMMA GotoPuts ==
  ASSUME NEW h \in Handlers, NEW pc \in Steps, tx \in [Handlers -> Requests], Goto(h, pc)
  PROVE  \E r \in Requests : /\ Becomes(h, r) /\ Same(r, tx[h]) /\ r.pc = pc
                             /\ r.dels = tx[h].dels /\ r.ins = tx[h].ins
<1>1. PICK q \in Requests : q = tx[h]
  OBVIOUS
<1>2. PICK r : r = [q EXCEPT !.pc = pc]
  OBVIOUS
<1>3. r \in Requests /\ Same(r, q) /\ r.pc = pc /\ r.dels = q.dels /\ r.ins = q.ins
  BY <1>2 DEF Requests, Same
<1>4. Becomes(h, r)
  BY <1>1, <1>2 DEF Goto, Becomes
<1>5. QED
  BY <1>1, <1>3, <1>4

LEMMA DeletePuts ==
  ASSUME NEW h \in Handlers, NEW pc \in Steps, NEW rows \in SUBSET Row,
         tx \in [Handlers -> Requests], DeleteRows(h, rows, pc)
  PROVE  \E r \in Requests : /\ Becomes(h, r) /\ Same(r, tx[h]) /\ r.pc = pc
                             /\ r.dels = tx[h].dels \cup (rows \ tx[h].ins)
                             /\ r.ins = tx[h].ins \ rows
<1>1. PICK q \in Requests : q = tx[h]
  OBVIOUS
<1>2. PICK w : w = Holders(h, rows)
  OBVIOUS
<1>3. PICK r : r = [q EXCEPT !.dels = q.dels \cup (rows \ q.ins), !.ins = q.ins \ rows,
                             !.waits = w, !.pc = pc]
  OBVIOUS
<1>4. w \subseteq Handlers
  BY <1>2 DEF Holders
<1>5. /\ r \in Requests /\ Same(r, q) /\ r.pc = pc
      /\ r.dels = q.dels \cup (rows \ q.ins) /\ r.ins = q.ins \ rows
  BY <1>3, <1>4 DEF Requests, Same
<1>6. Becomes(h, r)
  BY <1>1, <1>2, <1>3 DEF DeleteRows, Becomes
<1>7. QED
  BY <1>1, <1>5, <1>6

LEMMA InsertPuts ==
  ASSUME NEW h \in Handlers, NEW pc \in Steps, NEW rows \in SUBSET Row,
         tx \in [Handlers -> Requests], InsertRows(h, rows, pc)
  PROVE  \E r \in Requests : /\ Becomes(h, r) /\ Same(r, tx[h]) /\ r.pc = pc
                             /\ r.dels = tx[h].dels /\ r.ins = tx[h].ins \cup rows
<1>1. PICK q \in Requests : q = tx[h]
  OBVIOUS
<1>2. PICK w : w = Holders(h, rows)
  OBVIOUS
<1>3. PICK r : r = [q EXCEPT !.ins = q.ins \cup rows, !.waits = w, !.pc = pc]
  OBVIOUS
<1>4. w \subseteq Handlers
  BY <1>2 DEF Holders
<1>5. r \in Requests /\ Same(r, q) /\ r.pc = pc /\ r.dels = q.dels /\ r.ins = q.ins \cup rows
  BY <1>3, <1>4 DEF Requests, Same
<1>6. Becomes(h, r)
  BY <1>1, <1>2, <1>3 DEF InsertRows, Becomes
<1>7. QED
  BY <1>1, <1>5, <1>6

\* The end of a transaction: the others lose at most deletes that it made.
LEMMA EndPuts ==
  ASSUME NEW h \in Handlers, NEW r \in Requests, NEW gone,
         tx \in [Handlers -> Requests], End(h, r, gone)
  PROVE  /\ tx' \in [Handlers -> Requests] /\ tx'[h] = r
         /\ \A g \in Handlers : g # h =>
              /\ Same(tx'[g], tx[g]) /\ tx'[g].pc = tx[g].pc /\ tx'[g].ins = tx[g].ins
              /\ tx'[g].dels = tx[g].dels \ gone
<1>1. ASSUME NEW g \in Handlers, g # h
      PROVE  /\ tx'[g] \in Requests /\ Same(tx'[g], tx[g]) /\ tx'[g].pc = tx[g].pc
             /\ tx'[g].ins = tx[g].ins /\ tx'[g].dels = tx[g].dels \ gone
  <2>1. PICK q \in Requests : q = tx[g]
    OBVIOUS
  <2>2. PICK s : s = [q EXCEPT !.waits = q.waits \ {h}, !.dels = q.dels \ gone]
    OBVIOUS
  <2>3. s \in Requests /\ Same(s, q) /\ s.pc = q.pc /\ s.ins = q.ins /\ s.dels = q.dels \ gone
    BY <2>2 DEF Requests, Same
  <2>4. tx'[g] = s
    BY <1>1, <2>1, <2>2 DEF End
  <2>5. QED
    BY <2>1, <2>3, <2>4
<1>2. tx'[h] = r
  BY DEF End
<1>3. tx' = [g \in Handlers |-> tx'[g]]
  BY DEF End
<1>4. tx' \in [Handlers -> Requests]
  <2>1. \A g \in Handlers : tx'[g] \in Requests
    BY <1>1, <1>2
  <2>2. QED
    BY <1>3, <2>1
<1>5. QED
  BY <1>1, <1>2, <1>4

\* States go from unborn to live to deleted.
Ages(st, su) ==
  \A p \in Persons : /\ st[p] # "unborn" => su[p] # "unborn"
                     /\ st[p] = "deleted" => su[p] = "deleted"

\* What holds of a request holds on, whatever the others commit.
LEMMA OthersHold ==
  ASSUME NEW st \in [Persons -> States], NEW su \in [Persons -> States], Ages(st, su),
         NEW q \in Requests, NEW r \in Requests,
         OnCourse(st, q), MindsSelves(st, q),
         q.op = "create" => su[q.id] = "unborn",
         Same(r, q), r.pc = q.pc, r.ins = q.ins, r.dels \subseteq q.dels
  PROVE  OnCourse(su, r) /\ MindsSelves(su, r)
<1>1. OnCourse(su, r)
  BY DEF OnCourse, Same, Ages
<1>2. \A p \in Persons : st[p] = "deleted" => su[p] = "deleted"
  BY DEF Ages
<1>3. MindsSelves(su, r)
  <2>1. r.op = "create" /\ r.pc \in {"strip", "graft", "commit"} => SelfRow(r.id) \in r.ins
    BY DEF MindsSelves, Same
  <2>2. \A p \in Persons : SelfRow(p) \in r.ins =>
          (r.op = "create" /\ r.id = p) \/ (r.op = "rollback" /\ su[p] # "unborn")
    BY DEF MindsSelves, Same, Ages
  <2>3. \A p \in Persons : SelfRow(p) \in r.dels => su[p] # "unborn"
    BY DEF MindsSelves, Ages
  <2>4. \A p \in Persons : SelfRow(p) \in r.dels =>
          \/ su[p] = "deleted"
          \/ r.op = "delete" /\ r.id = p
          \/ r.op = "rollback" /\ (r.pc = "selves" \/ SelfRow(p) \in r.ins)
    BY <1>2 DEF MindsSelves, Same
  <2>5. r.pc \in {"idle", "blockers", "withdraw", "wipe", "status"} => r.ins = {} /\ r.dels = {}
    BY DEF MindsSelves
  <2>6. QED
    BY <2>1, <2>2, <2>3, <2>4, <2>5 DEF MindsSelves
<1>4. QED
  BY <1>1, <1>3

LEMMA SeesSame ==
  ASSUME NEW st, NEW fa, NEW cl, NEW q, NEW r, Sees(st, fa, cl, q),
         Same(r, q), r.pc = q.pc, r.ins = q.ins, r.dels = q.dels
  PROVE  Sees(st, fa, cl, r)
<1>1. Seen(cl, r) = Seen(cl, q) /\ (NothingYet(r) <=> NothingYet(q)) /\ Cut(r) = Cut(q)
  BY DEF Seen, NothingYet, Cut, Same
<1>2. q.op = "create" => CreateSees(st, cl, r)
  BY <1>1 DEF Sees, CreateSees, Same
<1>3. q.op = "refather" => RefatherSees(st, fa, cl, r)
  BY <1>1 DEF Sees, RefatherSees, Same
<1>4. q.op = "delete" => DeleteSees(st, fa, cl, r)
  BY <1>1 DEF Sees, DeleteSees, Same
<1>5. q.op = "rollback" => RollbackSees(st, fa, cl, r)
  BY <1>1 DEF Sees, RollbackSees, Same
<1>6. q.op = "gender" => NothingYet(r) /\ r.detached = {}
  BY <1>1 DEF Sees, Same
<1>7. QED
  BY <1>2, <1>3, <1>4, <1>5, <1>6 DEF Sees, Same

LEMMA NoneIsNoOp == None \notin Ops /\ None \notin Persons
BY ConstantsOK, PersonsOK

LEMMA IdleHolds ==
  ASSUME NEW st, NEW fa, NEW cl
  PROVE  OnCourse(st, Idle) /\ MindsSelves(st, Idle) /\ Sees(st, fa, cl, Idle)
BY IdleIs, NoneIsNoOp DEF OnCourse, MindsSelves, Sees, Ops

\* A statement of h that commits nothing.
LEMMA LocalKeeps ==
  ASSUME LineageInv, NEW h \in Handlers, NEW r \in Requests, Becomes(h, r),
         UNCHANGED <<state, father, closure, version, mixed>>,
         tx[h].pc # "idle", r.op = tx[h].op, r.id = tx[h].id,
         OnCourse(state, r), MindsSelves(state, r),
         ~mixed => Sees(state, father, closure, r)
  PROVE  LineageInv'
<1>1. /\ tx' \in [Handlers -> Requests] /\ tx'[h] = r
      /\ \A g \in Handlers : g # h => tx'[g] = tx[g]
  BY Put DEF LineageInv, LineageTypeOK
<1>2. LineageTypeOK'
  BY <1>1 DEF LineageInv, LineageTypeOK
<1>3. SelvesInv'
  <2>1. \A p \in Persons : SelfRow(p) \in closure' => state'[p] # "unborn"
    BY DEF LineageInv, SelvesInv
  <2>2. EveryoneHasASelfRow'
    BY DEF LineageInv, SelvesInv, EveryoneHasASelfRow, Live
  <2>3. \A g \in Handlers : OnCourse(state', tx'[g]) /\ MindsSelves(state', tx'[g])
    BY <1>1 DEF LineageInv, SelvesInv
  <2>4. \A f, g \in Handlers : f # g /\ tx'[f].op = "create" => tx'[g].id # tx'[f].id
    BY <1>1 DEF LineageInv, SelvesInv
  <2>5. QED
    BY <2>1, <2>2, <2>3, <2>4 DEF SelvesInv
<1>4. ExactInv'
  <2>1. ~mixed => Alone'
    BY <1>1 DEF LineageInv, ExactInv, Alone
  <2>2. ~mixed => \A g \in Handlers : Sees(state', father', closure', tx'[g])
    BY <1>1 DEF LineageInv, ExactInv
  <2>3. ~mixed => Good(state', father', closure')
    BY DEF LineageInv, ExactInv
  <2>4. QED
    BY <2>1, <2>2, <2>3 DEF ExactInv
<1>5. QED
  BY <1>2, <1>3, <1>4 DEF LineageInv

\* A request that begins.
LEMMA BeginKeeps ==
  ASSUME LineageInv, NEW h \in Handlers, NEW r \in Requests, Becomes(h, r),
         UNCHANGED <<state, father, closure, version>>, tx[h].pc = "idle",
         mixed' = (mixed \/ \E g \in Handlers : /\ tx[g].pc # "idle"
                                               /\ ~{r.op, tx[g].op} \subseteq {"create", "gender"}),
         OnCourse(state, r), NothingYet(r), r.op # None,
         r.op = "create" => r.pc \in {"parents", "self"} /\ \A g \in Handlers : tx[g].id # r.id,
         r.op # "create" => r.id = None \/ state[r.id] # "unborn",
         ~mixed => Sees(state, father, closure, r)
  PROVE  LineageInv'
<1>1. /\ tx' \in [Handlers -> Requests] /\ tx'[h] = r
      /\ \A g \in Handlers : g # h => tx'[g] = tx[g]
  BY Put DEF LineageInv, LineageTypeOK
<1>2. LineageTypeOK'
  BY <1>1 DEF LineageInv, LineageTypeOK
<1>3. MindsSelves(state, r)
  BY DEF MindsSelves, NothingYet
<1>4. SelvesInv'
  <2>1. \A p \in Persons : SelfRow(p) \in closure' => state'[p] # "unborn"
    BY DEF LineageInv, SelvesInv
  <2>2. EveryoneHasASelfRow'
    BY DEF LineageInv, SelvesInv, EveryoneHasASelfRow, Live
  <2>3. \A g \in Handlers : OnCourse(state', tx'[g]) /\ MindsSelves(state', tx'[g])
    BY <1>1, <1>3 DEF LineageInv, SelvesInv
  <2>4. \A g \in Handlers : tx[g].op = "create" => tx[g].id \in Persons /\ state[tx[g].id] = "unborn"
    BY DEF LineageInv, SelvesInv, OnCourse
  <2>5. \A g \in Handlers : tx[g].op = "create" => r.id # tx[g].id
    BY <2>4, NoneIsNoOp
  <2>6. \A f, g \in Handlers : f # g /\ tx[f].op = "create" => tx[g].id # tx[f].id
    BY DEF LineageInv, SelvesInv
  <2>7. \A f, g \in Handlers : f # g /\ tx'[f].op = "create" => tx'[g].id # tx'[f].id
    BY <1>1, <2>5, <2>6
  <2>8. QED
    BY <2>1, <2>2, <2>3, <2>7 DEF SelvesInv
<1>5. ExactInv'
  <2>1. ~mixed' => /\ ~mixed
                   /\ \A g \in Handlers : tx[g].pc # "idle" => {r.op, tx[g].op} \subseteq {"create", "gender"}
    OBVIOUS
  <2>2. ~mixed' => Alone'
    BY <1>1, <2>1 DEF LineageInv, ExactInv, Alone
  <2>3. ~mixed' => \A g \in Handlers : Sees(state', father', closure', tx'[g])
    BY <1>1, <2>1 DEF LineageInv, ExactInv
  <2>4. ~mixed' => Good(state', father', closure')
    BY <2>1 DEF LineageInv, ExactInv
  <2>5. QED
    BY <2>2, <2>3, <2>4 DEF ExactInv
<1>6. QED
  BY <1>2, <1>4, <1>5 DEF LineageInv

\* A transaction that is given up.
LEMMA GivenUpKeeps ==
  ASSUME LineageInv, NEW h \in Handlers, End(h, Idle, {}),
         UNCHANGED <<state, father, closure, version, mixed>>
  PROVE  LineageInv'
<1>1. /\ tx' \in [Handlers -> Requests] /\ tx'[h] = Idle
      /\ \A g \in Handlers : g # h =>
           /\ Same(tx'[g], tx[g]) /\ tx'[g].pc = tx[g].pc /\ tx'[g].ins = tx[g].ins
           /\ tx'[g].dels = tx[g].dels
  <2>1. Idle \in Requests /\ tx \in [Handlers -> Requests]
    BY IdleIs DEF LineageInv, LineageTypeOK
  <2>2. /\ tx' \in [Handlers -> Requests] /\ tx'[h] = Idle
        /\ \A g \in Handlers : g # h =>
             /\ Same(tx'[g], tx[g]) /\ tx'[g].pc = tx[g].pc /\ tx'[g].ins = tx[g].ins
             /\ tx'[g].dels = tx[g].dels \ {}
    <3>0. PICK r \in Requests : r = Idle
      BY <2>1
    <3>1. PICK gone : gone = {}
      OBVIOUS
    <3>2. End(h, r, gone)
      BY <3>0, <3>1
    <3>3. /\ tx' \in [Handlers -> Requests] /\ tx'[h] = r
          /\ \A g \in Handlers : g # h =>
               /\ Same(tx'[g], tx[g]) /\ tx'[g].pc = tx[g].pc /\ tx'[g].ins = tx[g].ins
               /\ tx'[g].dels = tx[g].dels \ gone
      BY <2>1, <3>2, EndPuts
    <3>4. QED
      BY <3>0, <3>1, <3>3
  <2>3. QED
    BY <2>2
<1>2. LineageTypeOK'
  BY <1>1 DEF LineageInv, LineageTypeOK
<1>3. \A g \in Handlers : OnCourse(state', tx'[g]) /\ MindsSelves(state', tx'[g])
  <2>1. ASSUME NEW g \in Handlers, g # h PROVE OnCourse(state', tx'[g]) /\ MindsSelves(state', tx'[g])
    <3>1. tx'[g] \in Requests /\ tx[g] \in Requests /\ tx'[g].dels \subseteq tx[g].dels
      BY <1>1, <2>1 DEF LineageInv, LineageTypeOK
    <3>2. OnCourse(state, tx[g]) /\ MindsSelves(state, tx[g])
      BY DEF LineageInv, SelvesInv
    <3>3. Ages(state, state') /\ (tx[g].op = "create" => state'[tx[g].id] = "unborn")
      BY <3>2 DEF Ages, OnCourse
    <3>4. state \in [Persons -> States] /\ state' \in [Persons -> States]
      BY DEF LineageInv, LineageTypeOK
    <3>5. QED
      BY <1>1, <2>1, <3>1, <3>2, <3>3, <3>4, OthersHold
  <2>2. QED
    BY <1>1, <2>1, IdleHolds
<1>4. SelvesInv'
  <2>1. \A p \in Persons : SelfRow(p) \in closure' => state'[p] # "unborn"
    BY DEF LineageInv, SelvesInv
  <2>2. EveryoneHasASelfRow'
    BY DEF LineageInv, SelvesInv, EveryoneHasASelfRow, Live
  <2>3. \A f, g \in Handlers : f # g /\ tx[f].op = "create" => tx[g].id # tx[f].id /\ tx[f].id \in Persons
    BY DEF LineageInv, SelvesInv, OnCourse
  <2>4. \A f, g \in Handlers : f # g /\ tx'[f].op = "create" => tx'[g].id # tx'[f].id
    BY <1>1, <2>3, IdleIs, NoneIsNoOp DEF Same, Ops
  <2>5. QED
    BY <1>3, <2>1, <2>2, <2>4 DEF SelvesInv
<1>5. ExactInv'
  <2>1. ~mixed => Alone'
    BY <1>1, IdleIs DEF LineageInv, ExactInv, Alone, Same
  <2>2. ASSUME ~mixed, NEW g \in Handlers PROVE Sees(state, father, closure, tx'[g])
    <3>1. Sees(state, father, closure, tx[g])
      BY <2>2 DEF LineageInv, ExactInv
    <3>2. CASE g # h
      BY <1>1, <3>1, <3>2, SeesSame
    <3>3. QED
      BY <1>1, <3>2, IdleHolds
  <2>3. ~mixed => Good(state, father, closure)
    BY DEF LineageInv, ExactInv
  <2>4. QED
    BY <2>1, <2>2, <2>3 DEF ExactInv
<1>6. QED
  BY <1>2, <1>4, <1>5 DEF LineageInv

-----------------------------------------------------------------------------
(* Requests that begin *)

LEMMA BeginPuts ==
  ASSUME LineageInv, NEW h \in Handlers, NEW op \in Ops, NEW q \in Requests, Begin(h, op, q)
  PROVE  /\ tx[h].pc = "idle" /\ UNCHANGED <<state, father, closure, version>>
         /\ \E r \in Requests :
              /\ Becomes(h, r) /\ r.op = op
              /\ r.pc = q.pc /\ r.id = q.id /\ r.to = q.to /\ r.seen = q.seen
              /\ r.detached = q.detached /\ r.dels = q.dels /\ r.ins = q.ins
              /\ mixed' = (mixed \/ \E g \in Handlers :
                             /\ tx[g].pc # "idle"
                             /\ ~{r.op, tx[g].op} \subseteq {"create", "gender"})
<1>1. PICK r : r = [q EXCEPT !.op = op]
  OBVIOUS
<1>2. /\ r \in Requests /\ r.op = op /\ r.pc = q.pc /\ r.id = q.id /\ r.to = q.to /\ r.seen = q.seen
      /\ r.detached = q.detached /\ r.dels = q.dels /\ r.ins = q.ins
  BY <1>1 DEF Requests
<1>3. Becomes(h, r)
  BY <1>1 DEF Begin, Becomes
<1>4. tx[h].pc = "idle" /\ UNCHANGED <<state, father, closure, version>>
  BY DEF Begin, persons
<1>5. mixed' = (mixed \/ \E g \in Handlers : /\ tx[g].pc # "idle"
                                            /\ ~{op, tx[g].op} \subseteq {"create", "gender"})
  BY Zenon DEF Begin
<1>6. QED
  BY <1>2, <1>3, <1>4, <1>5

LEMMA StartCreateKeeps ==
  ASSUME LineageInv, NEW h \in Handlers, NEW p \in Persons, NEW f \in Maybe, StartCreate(h, p, f)
  PROVE  LineageInv'
<1>1. PICK q : q = [Idle EXCEPT !.pc = IF f = None THEN "self" ELSE "parents", !.id = p, !.to = f]
  OBVIOUS
<1>2. /\ q \in Requests /\ q.pc = (IF f = None THEN "self" ELSE "parents") /\ q.id = p /\ q.to = f
      /\ q.detached = {} /\ q.dels = {} /\ q.ins = {}
  BY <1>1 DEF Idle, Requests, Steps, Maybe
<1>3. Begin(h, "create", q) /\ state[p] = "unborn" /\ \A g \in Handlers : tx[g].id # p
  BY <1>1 DEF StartCreate
<1>4. PICK r \in Requests :
        /\ Becomes(h, r) /\ r.op = "create"
        /\ r.pc = q.pc /\ r.id = q.id /\ r.to = q.to /\ r.seen = q.seen
        /\ r.detached = q.detached /\ r.dels = q.dels /\ r.ins = q.ins
        /\ mixed' = (mixed \/ \E g \in Handlers :
                       /\ tx[g].pc # "idle"
                       /\ ~{r.op, tx[g].op} \subseteq {"create", "gender"})
  BY <1>2, <1>3, BeginPuts DEF Ops
<1>5. tx[h].pc = "idle" /\ UNCHANGED <<state, father, closure, version>>
  BY <1>2, <1>3, BeginPuts DEF Ops
<1>6. OnCourse(state, r) /\ NothingYet(r) /\ Sees(state, father, closure, r)
  BY <1>2, <1>3, <1>4, NoneIsNoOp DEF OnCourse, NothingYet, Sees, CreateSees, Ops
<1>7. r.op # None /\ r.pc \in {"parents", "self"}
  BY <1>2, <1>4, NoneIsNoOp DEF Ops
<1>8. QED
  BY <1>2, <1>3, <1>4, <1>5, <1>6, <1>7, BeginKeeps

LEMMA StartRefatherKeeps ==
  ASSUME LineageInv, NEW h \in Handlers, NEW p \in Persons, NEW f \in Maybe, StartRefather(h, p, f)
  PROVE  LineageInv'
<1> DEFINE pc == IF f # None THEN "parents" ELSE IF father[p] = None THEN "row" ELSE "strip"
<1>1. PICK q : q = [Idle EXCEPT !.pc = pc, !.id = p, !.to = f, !.base = version[p],
                                !.seen = father[p]]
  OBVIOUS
<1>2. version[p] \in Nat /\ father[p] \in Maybe
  BY DEF LineageInv, LineageTypeOK
<1>3. /\ q \in Requests /\ q.pc = pc /\ q.id = p /\ q.to = f /\ q.seen = father[p]
      /\ q.detached = {} /\ q.dels = {} /\ q.ins = {}
  BY <1>1, <1>2 DEF Idle, Requests, Steps, Maybe
<1>4. Begin(h, "refather", q) /\ state[p] = "live"
  BY <1>1 DEF StartRefather, Live
<1>5. PICK r \in Requests :
        /\ Becomes(h, r) /\ r.op = "refather"
        /\ r.pc = q.pc /\ r.id = q.id /\ r.to = q.to /\ r.seen = q.seen
        /\ r.detached = q.detached /\ r.dels = q.dels /\ r.ins = q.ins
        /\ mixed' = (mixed \/ \E g \in Handlers :
                       /\ tx[g].pc # "idle"
                       /\ ~{r.op, tx[g].op} \subseteq {"create", "gender"})
  BY <1>3, <1>4, BeginPuts DEF Ops
<1>6. tx[h].pc = "idle" /\ UNCHANGED <<state, father, closure, version>>
  BY <1>3, <1>4, BeginPuts DEF Ops
<1>7. OnCourse(state, r) /\ NothingYet(r)
  BY <1>3, <1>4, <1>5, NoneIsNoOp DEF OnCourse, NothingYet, Ops
<1>8. Sees(state, father, closure, r)
  BY <1>3, <1>4, <1>5, <1>7 DEF Sees, RefatherSees, Suits
<1>9. r.op # None
  BY <1>5, NoneIsNoOp DEF Ops
<1>10. QED
  BY <1>3, <1>4, <1>5, <1>6, <1>7, <1>8, <1>9, BeginKeeps

LEMMA StartGenderKeeps ==
  ASSUME LineageInv, NEW h \in Handlers, NEW p \in Persons, StartGender(h, p) PROVE LineageInv'
<1>1. PICK q : q = [Idle EXCEPT !.pc = "row", !.id = p, !.base = version[p]]
  OBVIOUS
<1>2. version[p] \in Nat
  BY DEF LineageInv, LineageTypeOK
<1>3. /\ q \in Requests /\ q.pc = "row" /\ q.id = p
      /\ q.detached = {} /\ q.dels = {} /\ q.ins = {}
  BY <1>1, <1>2 DEF Idle, Requests, Steps, Maybe
<1>4. Begin(h, "gender", q) /\ state[p] = "live"
  BY <1>1 DEF StartGender, Live
<1>5. PICK r \in Requests :
        /\ Becomes(h, r) /\ r.op = "gender"
        /\ r.pc = q.pc /\ r.id = q.id /\ r.to = q.to /\ r.seen = q.seen
        /\ r.detached = q.detached /\ r.dels = q.dels /\ r.ins = q.ins
        /\ mixed' = (mixed \/ \E g \in Handlers :
                       /\ tx[g].pc # "idle"
                       /\ ~{r.op, tx[g].op} \subseteq {"create", "gender"})
  BY <1>3, <1>4, BeginPuts DEF Ops
<1>6. tx[h].pc = "idle" /\ UNCHANGED <<state, father, closure, version>>
  BY <1>3, <1>4, BeginPuts DEF Ops
<1>7. OnCourse(state, r) /\ NothingYet(r) /\ Sees(state, father, closure, r) /\ r.op # None
  BY <1>3, <1>4, <1>5, NoneIsNoOp DEF OnCourse, NothingYet, Ops, Sees
<1>8. QED
  BY <1>3, <1>4, <1>5, <1>6, <1>7, BeginKeeps

LEMMA StartDeleteKeeps ==
  ASSUME LineageInv, NEW h \in Handlers, NEW p \in Persons, StartDelete(h, p) PROVE LineageInv'
<1>1. PICK q : q = [Idle EXCEPT !.pc = "children", !.id = p]
  OBVIOUS
<1>2. /\ q \in Requests /\ q.pc = "children" /\ q.id = p
      /\ q.detached = {} /\ q.dels = {} /\ q.ins = {}
  BY <1>1 DEF Idle, Requests, Steps, Maybe
<1>3. Begin(h, "delete", q) /\ state[p] = "live"
  BY <1>1 DEF StartDelete, Live
<1>4. PICK r \in Requests :
        /\ Becomes(h, r) /\ r.op = "delete"
        /\ r.pc = q.pc /\ r.id = q.id /\ r.to = q.to /\ r.seen = q.seen
        /\ r.detached = q.detached /\ r.dels = q.dels /\ r.ins = q.ins
        /\ mixed' = (mixed \/ \E g \in Handlers :
                       /\ tx[g].pc # "idle"
                       /\ ~{r.op, tx[g].op} \subseteq {"create", "gender"})
  BY <1>2, <1>3, BeginPuts DEF Ops
<1>5. tx[h].pc = "idle" /\ UNCHANGED <<state, father, closure, version>>
  BY <1>2, <1>3, BeginPuts DEF Ops
<1>6. OnCourse(state, r) /\ NothingYet(r) /\ r.op # None
  BY <1>2, <1>3, <1>4, NoneIsNoOp DEF OnCourse, NothingYet, Ops
<1>7. Sees(state, father, closure, r)
  BY <1>2, <1>3, <1>4, <1>6 DEF Sees, DeleteSees
<1>8. QED
  BY <1>2, <1>3, <1>4, <1>5, <1>6, <1>7, BeginKeeps

LEMMA StartRollbackKeeps ==
  ASSUME LineageInv, NEW h \in Handlers, StartRollback(h) PROVE LineageInv'
<1>1. PICK q : q = [Idle EXCEPT !.pc = "blockers"]
  OBVIOUS
<1>2. /\ q \in Requests /\ q.pc = "blockers" /\ q.id = None
      /\ q.detached = {} /\ q.dels = {} /\ q.ins = {}
  BY <1>1 DEF Idle, Requests, Steps, Maybe
<1>3. Begin(h, "rollback", q)
  BY <1>1 DEF StartRollback
<1>4. PICK r \in Requests :
        /\ Becomes(h, r) /\ r.op = "rollback"
        /\ r.pc = q.pc /\ r.id = q.id /\ r.to = q.to /\ r.seen = q.seen
        /\ r.detached = q.detached /\ r.dels = q.dels /\ r.ins = q.ins
        /\ mixed' = (mixed \/ \E g \in Handlers :
                       /\ tx[g].pc # "idle"
                       /\ ~{r.op, tx[g].op} \subseteq {"create", "gender"})
  BY <1>2, <1>3, BeginPuts DEF Ops
<1>5. tx[h].pc = "idle" /\ UNCHANGED <<state, father, closure, version>>
  BY <1>2, <1>3, BeginPuts DEF Ops
<1>6. OnCourse(state, r) /\ NothingYet(r) /\ r.op # None
  BY <1>2, <1>3, <1>4, NoneIsNoOp DEF OnCourse, NothingYet, Ops
<1>7. Sees(state, father, closure, r)
  BY <1>2, <1>3, <1>4 DEF Sees, RollbackSees
<1>8. QED
  BY <1>2, <1>3, <1>4, <1>5, <1>6, <1>7, BeginKeeps

LEMMA StartKeeps == ASSUME LineageInv, NEW h \in Handlers, Start(h) PROVE LineageInv'
<1>1. CASE \E p \in Persons, f \in Maybe : StartCreate(h, p, f) \/ StartRefather(h, p, f)
  BY <1>1, StartCreateKeeps, StartRefatherKeeps
<1>2. CASE \E p \in Persons : StartGender(h, p) \/ StartDelete(h, p)
  BY <1>2, StartGenderKeeps, StartDeleteKeeps
<1>3. CASE StartRollback(h)
  BY <1>3, StartRollbackKeeps
<1>4. QED
  BY <1>1, <1>2, <1>3, Zenon DEF Start

-----------------------------------------------------------------------------
(* Statements that commit nothing *)

\* What is known of the request of h when its next statement runs.
LEMMA Known ==
  ASSUME LineageInv, NEW h \in Handlers
  PROVE  /\ tx \in [Handlers -> Requests] /\ tx[h] \in Requests
         /\ OnCourse(state, tx[h]) /\ MindsSelves(state, tx[h])
         /\ ~mixed => Sees(state, father, closure, tx[h]) /\ Good(state, father, closure)
         /\ View(h) = Seen(closure, tx[h]) /\ View(h) \subseteq Row
<1>1. tx \in [Handlers -> Requests] /\ tx[h] \in Requests /\ closure \subseteq Row
  BY DEF LineageInv, LineageTypeOK
<1>2. tx[h].ins \subseteq Row
  BY <1>1 DEF Requests
<1>3. QED
  BY <1>1, <1>2 DEF LineageInv, SelvesInv, ExactInv, View, Seen

LEMMA RequireIs ==
  ASSUME LineageInv, NEW h \in Handlers, NEW condition, NEW pc, Require(h, condition, pc)
  PROVE  /\ UNCHANGED <<state, father, closure, version, mixed>>
         /\ (condition /\ Goto(h, pc)) \/ LineageInv'
<1>1. UNCHANGED <<state, father, closure, version, mixed>>
  BY DEF Require, persons
<1>2. (condition /\ Goto(h, pc)) \/ End(h, Idle, {})
  BY Zenon DEF Require
<1>3. QED
  BY <1>1, <1>2, GivenUpKeeps

\* The statements on the closure take no depth 0 row, but for the one of a person who is dropped.
LEMMA NoSelfRows ==
  ASSUME NEW t, t \subseteq Row, NEW p
  PROVE  /\ Strip(t, p) \subseteq Row /\ RowsOf(t, p) \subseteq Row
         /\ \A q \in Persons : SelfRow(q) \notin Strip(t, p)
         /\ \A q \in Persons : SelfRow(q) \in RowsOf(t, p) => q = p
         /\ \A f \in Maybe : /\ Graft(t, p, f) \subseteq Row
                             /\ \A q \in Persons : SelfRow(q) \notin Graft(t, p, f)
<1>1. Strip(t, p) \subseteq Row /\ RowsOf(t, p) \subseteq Row
  BY DEF Strip, RowsOf
<1>2. \A q \in Persons : SelfRow(q) \notin Strip(t, p) /\ (SelfRow(q) \in RowsOf(t, p) => q = p)
  BY DEF Strip, RowsOf, SelfRow
<1>3. ASSUME NEW f \in Maybe, NEW x \in Graft(t, p, f) PROVE x \in Row /\ x[3] # 0
  <2>1. PICK s \in t, u \in t : x = <<s[1], u[2], s[3] + u[3] + 1>>
    BY <1>3 DEF Graft
  <2>2. s \in Row /\ u \in Row
    BY <2>1
  <2>3. s[1] \in Persons /\ u[2] \in Persons /\ s[3] \in Nat /\ u[3] \in Nat
    BY <2>2 DEF Row
  <2>4. QED
    BY <2>1, <2>3 DEF Row
<1>4. \A q \in Persons : SelfRow(q)[3] = 0
  BY DEF SelfRow
<1>5. QED
  BY <1>1, <1>2, <1>3, <1>4

LEMMA ParentsKeep == ASSUME LineageInv, NEW h \in Handlers, Parents(h) PROVE LineageInv'
<1>1. PICK q \in Requests : q = tx[h]
  BY Known
<1>2. PICK pc : pc = IF q.op = "create" THEN "self" ELSE IF q.to = q.seen THEN "row" ELSE "cycle"
  OBVIOUS
<1>3. q.pc = "parents" /\ Require(h, q.to \in Live /\ q.to \in male, pc) /\ pc \in Steps
  BY <1>1, <1>2 DEF Parents, At, Steps
<1>4. /\ UNCHANGED <<state, father, closure, version, mixed>>
      /\ (q.to \in Live /\ Goto(h, pc)) \/ LineageInv'
  BY <1>3, RequireIs
<1>5. ASSUME q.to \in Live, Goto(h, pc) PROVE LineageInv'
  <2>1. PICK r \in Requests : /\ Becomes(h, r) /\ Same(r, q) /\ r.pc = pc
                              /\ r.dels = q.dels /\ r.ins = q.ins
    BY <1>1, <1>3, <1>5, GotoPuts, Known
  <2>2. OnCourse(state, q) /\ MindsSelves(state, q) /\ (~mixed => Sees(state, father, closure, q))
    BY <1>1, Known
  <2>3. q.op \in {"create", "refather"} /\ state[q.to] = "live"
    BY <1>3, <1>5, <2>2 DEF OnCourse, Requests, Ops, Live
  <2>4. OnCourse(state, r)
    BY <1>2, <1>3, <2>1, <2>2, <2>3 DEF OnCourse, Same
  <2>5. MindsSelves(state, r)
    BY <1>2, <1>3, <2>1, <2>2, <2>3 DEF MindsSelves, Same
  <2>6. ASSUME ~mixed PROVE Sees(state, father, closure, r)
    <3>1. CASE q.op = "create"
      BY <1>2, <1>3, <2>1, <2>2, <2>3, <2>6, <3>1 DEF Sees, CreateSees, Same
    <3>2. CASE q.op = "refather"
      <4>1. RefatherSees(state, father, closure, q)
        BY <2>2, <2>6, <3>2 DEF Sees
      <4>2. NothingYet(r) <=> NothingYet(q)
        BY <2>1 DEF NothingYet
      <4>3. RefatherSees(state, father, closure, r)
        BY <1>2, <1>3, <2>1, <2>3, <3>2, <4>1, <4>2 DEF RefatherSees, Same
      <4>4. QED
        BY <2>1, <3>2, <4>3 DEF Sees, Same
    <3>3. QED
      BY <2>3, <3>1, <3>2
  <2>7. QED
    BY <1>1, <1>2, <1>3, <1>4, <2>1, <2>4, <2>5, <2>6, LocalKeeps DEF Same
<1>6. QED
  BY <1>4, <1>5

LEMMA CycleKeeps == ASSUME LineageInv, NEW h \in Handlers, Cycle(h) PROVE LineageInv'
<1>1. PICK q \in Requests : q = tx[h]
  BY Known
<1>2. q.pc = "cycle" /\ Require(h, ~WouldCreateCycle(View(h), q.id, q.to), "strip") /\ "strip" \in Steps
  BY <1>1 DEF Cycle, At, Steps
<1>3. /\ UNCHANGED <<state, father, closure, version, mixed>>
      /\ (~WouldCreateCycle(View(h), q.id, q.to) /\ Goto(h, "strip")) \/ LineageInv'
  BY <1>2, RequireIs
<1>4. ASSUME ~WouldCreateCycle(View(h), q.id, q.to), Goto(h, "strip") PROVE LineageInv'
  <2>1. PICK r \in Requests : /\ Becomes(h, r) /\ Same(r, q) /\ r.pc = "strip"
                              /\ r.dels = q.dels /\ r.ins = q.ins
    BY <1>1, <1>2, <1>4, GotoPuts, Known
  <2>2. /\ OnCourse(state, q) /\ MindsSelves(state, q) /\ (~mixed => Sees(state, father, closure, q))
        /\ View(h) = Seen(closure, q)
    BY <1>1, Known
  <2>3. q.op = "refather"
    BY <1>2, <2>2 DEF OnCourse, Requests, Ops
  <2>4. OnCourse(state, r)
    BY <1>2, <2>1, <2>2, <2>3 DEF OnCourse, Same
  <2>5. MindsSelves(state, r)
    BY <1>2, <2>1, <2>2, <2>3 DEF MindsSelves, Same
  <2>6. ASSUME ~mixed PROVE Sees(state, father, closure, r)
    <3>1. RefatherSees(state, father, closure, q)
      BY <2>2, <2>3, <2>6 DEF Sees
    <3>2. NothingYet(r) /\ NothingYet(q)
      BY <1>2, <2>1, <3>1 DEF NothingYet, RefatherSees
    <3>3. View(h) = closure
      BY <2>2, <3>2 DEF NothingYet, Seen
    <3>4. Suits(state, closure, q.id, q.to)
      BY <1>2, <1>4, <3>1, <3>3 DEF WouldCreateCycle, RefatherSees, Suits
    <3>5. RefatherSees(state, father, closure, r)
      BY <1>2, <2>1, <2>3, <3>1, <3>2, <3>4 DEF RefatherSees, Same
    <3>6. QED
      BY <2>1, <2>3, <3>5 DEF Sees, Same
  <2>7. QED
    BY <1>1, <1>2, <1>3, <2>1, <2>4, <2>5, <2>6, LocalKeeps DEF Same
<1>5. QED
  BY <1>3, <1>4

LEMMA SelvesDiffer == \A p, q \in Persons : SelfRow(p) = SelfRow(q) => p = q
BY DEF SelfRow

LEMMA InsertSelfKeeps == ASSUME LineageInv, NEW h \in Handlers, InsertSelf(h) PROVE LineageInv'
<1>1. PICK q \in Requests : q = tx[h]
  BY Known
<1>2. PICK pc : pc = IF q.to = None THEN "commit" ELSE "strip"
  OBVIOUS
<1>3. /\ q.pc = "self" /\ InsertRows(h, {SelfRow(q.id)}, pc) /\ pc \in Steps
      /\ UNCHANGED <<state, father, closure, version, mixed>>
  BY <1>1, <1>2 DEF InsertSelf, At, Steps, persons
<1>4. OnCourse(state, q) /\ MindsSelves(state, q) /\ (~mixed => Sees(state, father, closure, q))
  BY <1>1, Known
<1>5. q.op = "create" /\ q.id \in Persons
  BY <1>3, <1>4 DEF OnCourse, Requests, Ops
<1>6. SelfRow(q.id) \in Row
  BY <1>5 DEF SelfRow, Row
<1>7. PICK rows \in SUBSET Row : rows = {SelfRow(q.id)}
  BY <1>6
<1>8. PICK r \in Requests : /\ Becomes(h, r) /\ Same(r, q) /\ r.pc = pc
                            /\ r.dels = q.dels /\ r.ins = q.ins \cup rows
  BY <1>1, <1>3, <1>7, InsertPuts, Known
<1>9. OnCourse(state, r)
  BY <1>2, <1>4, <1>5, <1>8 DEF OnCourse, Same
<1>10. MindsSelves(state, r)
  <2>1. SelfRow(r.id) \in r.ins
    BY <1>7, <1>8 DEF Same
  <2>2. \A p \in Persons : SelfRow(p) \in r.ins =>
          (r.op = "create" /\ r.id = p) \/ (r.op = "rollback" /\ state[p] # "unborn")
    BY <1>4, <1>5, <1>7, <1>8, SelvesDiffer DEF MindsSelves, Same
  <2>3. \A p \in Persons : SelfRow(p) \in r.dels => state[p] # "unborn" /\ state[p] = "deleted"
    BY <1>4, <1>5, <1>8 DEF MindsSelves
  <2>4. QED
    BY <1>2, <1>5, <1>8, <2>1, <2>2, <2>3 DEF MindsSelves
<1>11. ASSUME ~mixed PROVE Sees(state, father, closure, r)
  <2>1. CreateSees(state, closure, q)
    BY <1>4, <1>5, <1>11 DEF Sees
  <2>2. CreateSees(state, closure, r)
    BY <1>2, <1>3, <1>7, <1>8, <2>1 DEF CreateSees, Same
  <2>3. QED
    BY <1>5, <1>8, <2>2 DEF Sees, Same
<1>12. QED
  BY <1>1, <1>3, <1>8, <1>9, <1>10, <1>11, LocalKeeps DEF Same

\* Nobody is above a person whose own row is all the table has of him.
LEMMA NothingToStrip ==
  ASSUME NEW st, NEW cl, cl \subseteq Row, Born(st, cl), NEW p \in Persons, st[p] = "unborn"
  PROVE  /\ \A r \in cl : r[1] # p /\ r[2] # p
         /\ Strip(cl \cup {SelfRow(p)}, p) = {}
<1>1. \A r \in cl : r[1] # p /\ r[2] # p
  <2>1. ASSUME NEW r \in cl PROVE r[1] # p /\ r[2] # p
    <3>1. r[1] \in Persons /\ r[2] \in Persons /\ r[3] \in Nat /\ r = <<r[1], r[2], r[3]>>
      BY DEF Row
    <3>2. QED
      BY <3>1 DEF Born
  <2>2. QED
    BY <2>1
<1>2. SelfRow(p)[1] = p /\ SelfRow(p)[2] = p
  BY DEF SelfRow
<1>3. p \in Below(cl \cup {SelfRow(p)}, p)
  BY <1>2 DEF Below
<1>4. \A d \in Below(cl \cup {SelfRow(p)}, p) : d = p
  BY <1>1, <1>2 DEF Below
<1>5. QED
  BY <1>1, <1>2, <1>3, <1>4 DEF Strip

LEMMA StripKeeps == ASSUME LineageInv, NEW h \in Handlers, StripRows(h) PROVE LineageInv'
<1>1. PICK q \in Requests : q = tx[h]
  BY Known
<1>2. PICK pc : pc = IF q.to = None THEN "row" ELSE "graft"
  OBVIOUS
<1>3. PICK v \in SUBSET Row : v = View(h)
  BY Known
<1>4. PICK rows \in SUBSET Row : rows = Strip(v, q.id)
  BY NoSelfRows
<1>5. /\ q.pc = "strip" /\ DeleteRows(h, rows, pc) /\ pc \in Steps
      /\ UNCHANGED <<state, father, closure, version, mixed>>
  BY <1>1, <1>2, <1>3, <1>4 DEF StripRows, At, Steps, persons
<1>6. /\ OnCourse(state, q) /\ MindsSelves(state, q) /\ v = Seen(closure, q)
      /\ ~mixed => Sees(state, father, closure, q) /\ Good(state, father, closure)
  BY <1>1, <1>3, Known
<1>7. q.op \in {"create", "refather"}
  BY <1>5, <1>6 DEF OnCourse, Requests, Ops
<1>8. PICK r \in Requests : /\ Becomes(h, r) /\ Same(r, q) /\ r.pc = pc
                            /\ r.dels = q.dels \cup (rows \ q.ins) /\ r.ins = q.ins \ rows
  BY <1>1, <1>5, DeletePuts, Known
<1>9. OnCourse(state, r)
  BY <1>2, <1>5, <1>6, <1>7, <1>8 DEF OnCourse, Same
<1>10. MindsSelves(state, r)
  <2>1. \A p \in Persons : SelfRow(p) \notin rows
    BY <1>4, NoSelfRows
  <2>2. \A p \in Persons : /\ SelfRow(p) \in r.ins <=> SelfRow(p) \in q.ins
                           /\ SelfRow(p) \in r.dels <=> SelfRow(p) \in q.dels
    BY <1>8, <2>1
  <2>3. q.op = "create" => q.id \in Persons /\ SelfRow(q.id) \in r.ins
    BY <1>5, <1>6, <2>2 DEF OnCourse, MindsSelves
  <2>4. \A p \in Persons : SelfRow(p) \in r.ins =>
          (r.op = "create" /\ r.id = p) \/ (r.op = "rollback" /\ state[p] # "unborn")
    BY <1>6, <1>8, <2>2 DEF MindsSelves, Same
  <2>5. \A p \in Persons : SelfRow(p) \in r.dels => state[p] # "unborn" /\ state[p] = "deleted"
    BY <1>6, <1>7, <2>2 DEF MindsSelves
  <2>6. QED
    BY <1>2, <1>8, <2>3, <2>4, <2>5 DEF MindsSelves, Same
<1>11. ASSUME ~mixed PROVE Sees(state, father, closure, r)
  <2>1. CASE q.op = "create"
    <3>1. CreateSees(state, closure, q)
      BY <1>6, <1>11, <2>1 DEF Sees
    <3>2. q.id \in Persons /\ state[q.id] = "unborn"
      BY <1>6, <2>1 DEF OnCourse
    <3>3. v = closure \cup {SelfRow(q.id)}
      BY <1>5, <1>6, <3>1 DEF CreateSees, Seen
    <3>4. closure \subseteq Row /\ Born(state, closure)
      BY <1>6, <1>11 DEF Good, Typed
    <3>5. rows = {}
      BY <1>4, <3>2, <3>3, <3>4, NothingToStrip
    <3>6. r.dels = q.dels /\ r.ins = q.ins /\ r.pc = "graft"
      BY <1>2, <1>5, <1>8, <3>1, <3>5 DEF CreateSees
    <3>7. CreateSees(state, closure, r)
      BY <1>5, <1>8, <3>1, <3>6 DEF CreateSees, Same
    <3>8. QED
      BY <1>8, <2>1, <3>7 DEF Sees, Same
  <2>2. CASE q.op = "refather"
    <3>1. RefatherSees(state, father, closure, q)
      BY <1>6, <1>11, <2>2 DEF Sees
    <3>2. NothingYet(q) /\ Suits(state, closure, q.id, q.to)
      BY <1>5, <3>1 DEF RefatherSees
    <3>3. v = closure
      BY <1>6, <3>2 DEF NothingYet, Seen
    <3>4. r.dels = Strip(closure, r.id) /\ r.ins = {}
      BY <1>4, <1>8, <3>2, <3>3 DEF NothingYet, Same
    <3>5. r.to = None => Seen(closure, r) = Under(closure \ Strip(closure, r.id), r.id, r.to)
      BY <3>4 DEF Seen, Under
    <3>6. RefatherSees(state, father, closure, r)
      BY <1>2, <1>8, <3>1, <3>2, <3>4, <3>5 DEF RefatherSees, Same
    <3>7. QED
      BY <1>8, <2>2, <3>6 DEF Sees, Same
  <2>3. QED
    BY <1>7, <2>1, <2>2
<1>12. QED
  BY <1>1, <1>5, <1>8, <1>9, <1>10, <1>11, LocalKeeps DEF Same

LEMMA GraftKeeps == ASSUME LineageInv, NEW h \in Handlers, GraftRows(h) PROVE LineageInv'
<1>1. PICK q \in Requests : q = tx[h]
  BY Known
<1>2. PICK pc : pc = IF q.op = "create" THEN "commit" ELSE "row"
  OBVIOUS
<1>3. PICK v \in SUBSET Row : v = View(h)
  BY Known
<1>4. q.to \in Maybe
  BY DEF Requests
<1>5. PICK rows \in SUBSET Row : rows = Graft(v, q.id, q.to)
  BY <1>4, NoSelfRows
<1>6. /\ q.pc = "graft" /\ InsertRows(h, rows, pc) /\ pc \in Steps
      /\ UNCHANGED <<state, father, closure, version, mixed>>
  BY <1>1, <1>2, <1>3, <1>5 DEF GraftRows, At, Steps, persons
<1>7. /\ OnCourse(state, q) /\ MindsSelves(state, q) /\ v = Seen(closure, q)
      /\ ~mixed => Sees(state, father, closure, q)
  BY <1>1, <1>3, Known
<1>8. q.op \in {"create", "refather"}
  BY <1>6, <1>7 DEF OnCourse, Requests, Ops
<1>9. PICK r \in Requests : /\ Becomes(h, r) /\ Same(r, q) /\ r.pc = pc
                            /\ r.dels = q.dels /\ r.ins = q.ins \cup rows
  BY <1>1, <1>6, InsertPuts, Known
<1>10. OnCourse(state, r)
  BY <1>2, <1>6, <1>7, <1>8, <1>9 DEF OnCourse, Same
<1>11. MindsSelves(state, r)
  <2>1. \A p \in Persons : SelfRow(p) \notin rows
    BY <1>4, <1>5, NoSelfRows
  <2>2. \A p \in Persons : SelfRow(p) \in r.ins <=> SelfRow(p) \in q.ins
    BY <1>9, <2>1
  <2>3. q.op = "create" => SelfRow(q.id) \in r.ins
    BY <1>6, <1>7, <1>9 DEF MindsSelves
  <2>4. \A p \in Persons : SelfRow(p) \in r.ins =>
          (r.op = "create" /\ r.id = p) \/ (r.op = "rollback" /\ state[p] # "unborn")
    BY <1>7, <1>9, <2>2 DEF MindsSelves, Same
  <2>5. \A p \in Persons : SelfRow(p) \in r.dels => state[p] # "unborn" /\ state[p] = "deleted"
    BY <1>7, <1>8, <1>9 DEF MindsSelves
  <2>6. QED
    BY <1>2, <1>9, <2>3, <2>4, <2>5 DEF MindsSelves, Same
<1>12. ASSUME ~mixed PROVE Sees(state, father, closure, r)
  <2>1. CASE q.op = "create"
    <3>1. CreateSees(state, closure, q)
      BY <1>7, <1>12, <2>1 DEF Sees
    <3>2. v = closure \cup {SelfRow(q.id)}
      BY <1>6, <1>7, <3>1 DEF CreateSees, Seen
    <3>3. r.ins = {SelfRow(r.id)} \cup Graft(closure \cup {SelfRow(r.id)}, r.id, r.to)
      BY <1>5, <1>6, <1>9, <3>1, <3>2 DEF CreateSees, Same
    <3>4. CreateSees(state, closure, r)
      BY <1>2, <1>6, <1>9, <2>1, <3>1, <3>3 DEF CreateSees, Same
    <3>5. QED
      BY <1>9, <2>1, <3>4 DEF Sees, Same
  <2>2. CASE q.op = "refather"
    <3>1. RefatherSees(state, father, closure, q)
      BY <1>7, <1>12, <2>2 DEF Sees
    <3>2. /\ q.ins = {} /\ q.dels = Strip(closure, q.id) /\ q.to # None
          /\ Suits(state, closure, q.id, q.to)
      BY <1>6, <3>1 DEF RefatherSees
    <3>3. v = closure \ Strip(closure, q.id)
      BY <1>7, <3>2 DEF Seen
    <3>4. Seen(closure, r) = Under(closure \ Strip(closure, r.id), r.id, r.to)
      BY <1>5, <1>9, <3>2, <3>3 DEF Seen, Under, Same
    <3>5. RefatherSees(state, father, closure, r)
      BY <1>2, <1>9, <2>2, <3>1, <3>2, <3>4 DEF RefatherSees, Same
    <3>6. QED
      BY <1>9, <2>2, <3>5 DEF Sees, Same
  <2>3. QED
    BY <1>8, <2>1, <2>2
<1>13. QED
  BY <1>1, <1>6, <1>9, <1>10, <1>11, <1>12, LocalKeeps DEF Same

LEMMA WriteRowKeeps == ASSUME LineageInv, NEW h \in Handlers, WriteRow(h) PROVE LineageInv'
<1>1. PICK q \in Requests : q = tx[h]
  BY Known
<1>2. PICK condition : condition = (q.op = "delete" \/ (q.id \in Live /\ version[q.id] = q.base))
  OBVIOUS
<1>3. q.pc = "row" /\ Require(h, condition, "commit") /\ "commit" \in Steps
  BY <1>1, <1>2 DEF WriteRow, At, Steps
<1>4. /\ UNCHANGED <<state, father, closure, version, mixed>>
      /\ (condition /\ Goto(h, "commit")) \/ LineageInv'
  BY <1>3, RequireIs
<1>5. ASSUME Goto(h, "commit") PROVE LineageInv'
  <2>1. PICK r \in Requests : /\ Becomes(h, r) /\ Same(r, q) /\ r.pc = "commit"
                              /\ r.dels = q.dels /\ r.ins = q.ins
    BY <1>1, <1>3, <1>5, GotoPuts, Known
  <2>2. OnCourse(state, q) /\ MindsSelves(state, q) /\ (~mixed => Sees(state, father, closure, q))
    BY <1>1, Known
  <2>3. q.op \in {"refather", "gender", "delete"}
    BY <1>3, <2>2 DEF OnCourse, Requests, Ops
  <2>4. OnCourse(state, r)
    BY <1>3, <2>1, <2>2, <2>3 DEF OnCourse, Same
  <2>5. MindsSelves(state, r)
    BY <1>3, <2>1, <2>2, <2>3 DEF MindsSelves, Same
  <2>6. ASSUME ~mixed PROVE Sees(state, father, closure, r)
    <3>1. /\ Seen(closure, r) = Seen(closure, q) /\ (NothingYet(r) <=> NothingYet(q))
      BY <2>1 DEF Seen, NothingYet
    <3>2. q.op = "refather" => RefatherSees(state, father, closure, r)
      BY <1>3, <2>1, <2>2, <2>6, <3>1 DEF Sees, RefatherSees, Same
    <3>3. q.op = "delete" => DeleteSees(state, father, closure, r)
      BY <1>3, <2>1, <2>2, <2>6, <3>1 DEF Sees, DeleteSees, Same
    <3>4. q.op = "gender" => NothingYet(r) /\ r.detached = {}
      BY <2>1, <2>2, <2>6, <3>1 DEF Sees, Same
    <3>5. QED
      BY <2>1, <2>3, <3>2, <3>3, <3>4 DEF Sees, Same
  <2>7. QED
    BY <1>1, <1>3, <1>4, <2>1, <2>4, <2>5, <2>6, LocalKeeps DEF Same
<1>6. QED
  BY <1>4, <1>5

LEMMA ChildrenKeep == ASSUME LineageInv, NEW h \in Handlers, Children(h) PROVE LineageInv'
<1>1. PICK q \in Requests : q = tx[h]
  BY Known
<1>2. PICK found \in SUBSET Persons : found = {c \in Live : father[c] = q.id}
  BY DEF Live
<1>3. PICK r : r = [q EXCEPT !.todo = found, !.pc = IF found = {} THEN "drop" ELSE "detach"]
  OBVIOUS
<1>4. /\ r \in Requests /\ r.pc = (IF found = {} THEN "drop" ELSE "detach") /\ r.todo = found
      /\ r.op = q.op /\ r.id = q.id /\ r.detached = q.detached /\ r.dels = q.dels /\ r.ins = q.ins
  BY <1>3 DEF Requests, Steps
<1>5. q.pc = "children" /\ UNCHANGED <<state, father, closure, version, mixed>>
  BY <1>1 DEF Children, At, persons
<1>6. Becomes(h, r)
  BY <1>1, <1>2, <1>3 DEF Children, Becomes
<1>7. /\ OnCourse(state, q) /\ MindsSelves(state, q)
      /\ ~mixed => Sees(state, father, closure, q) /\ Good(state, father, closure)
  BY <1>1, Known
<1>8. q.op = "delete"
  BY <1>5, <1>7 DEF OnCourse, Requests, Ops
<1>9. OnCourse(state, r)
  BY <1>4, <1>7, <1>8 DEF OnCourse
<1>10. MindsSelves(state, r)
  BY <1>4, <1>7, <1>8 DEF MindsSelves
<1>11. ASSUME ~mixed PROVE Sees(state, father, closure, r)
  <2>1. DeleteSees(state, father, closure, q)
    BY <1>7, <1>8, <1>11 DEF Sees
  <2>2. r.detached = {} /\ NothingYet(r) /\ Cut(r) = {}
    BY <1>4, <1>5, <2>1 DEF DeleteSees, NothingYet, Cut
  <2>3. father = Orphaned(father, {})
    <3>1. father \in [Persons -> Maybe]
      BY DEF LineageInv, LineageTypeOK
    <3>2. QED
      BY <3>1 DEF Orphaned
  <2>4. Good(state, Orphaned(father, Cut(r)), Seen(closure, r))
    BY <1>7, <1>11, <2>2, <2>3 DEF Seen, NothingYet
  <2>5. r.detached \cup r.todo = {c \in Persons : state[c] = "live" /\ father[c] = r.id}
    BY <1>2, <1>4, <2>2 DEF Live
  <2>6. DeleteSees(state, father, closure, r)
    BY <1>4, <2>1, <2>2, <2>4, <2>5 DEF DeleteSees, NothingYet
  <2>7. QED
    BY <1>4, <1>8, <2>6 DEF Sees
<1>12. QED
  BY <1>1, <1>4, <1>5, <1>6, <1>9, <1>10, <1>11, LocalKeeps

LEMMA DetachKeeps ==
  ASSUME LineageInv, NEW h \in Handlers, NEW c \in Persons, Detach(h, c) PROVE LineageInv'
<1>1. PICK q \in Requests : q = tx[h]
  BY Known
<1>2. PICK r : r = [q EXCEPT !.detached = q.detached \cup {c}, !.child = c,
                             !.todo = q.todo \ {c}, !.pc = "unlink"]
  OBVIOUS
<1>3. /\ r \in Requests /\ r.pc = "unlink" /\ r.todo = q.todo \ {c} /\ r.child = c
      /\ r.detached = q.detached \cup {c}
      /\ r.op = q.op /\ r.id = q.id /\ r.dels = q.dels /\ r.ins = q.ins
  BY <1>2 DEF Requests, Steps, Maybe
<1>4. q.pc = "detach" /\ c \in q.todo /\ UNCHANGED <<state, father, closure, version, mixed>>
  BY <1>1 DEF Detach, At, persons
<1>5. Becomes(h, r)
  BY <1>1, <1>2 DEF Detach, Becomes
<1>6. /\ OnCourse(state, q) /\ MindsSelves(state, q)
      /\ ~mixed => Sees(state, father, closure, q)
  BY <1>1, Known
<1>7. q.op = "delete"
  BY <1>4, <1>6 DEF OnCourse, Requests, Ops
<1>8. OnCourse(state, r)
  BY <1>3, <1>6, <1>7 DEF OnCourse
<1>9. MindsSelves(state, r)
  BY <1>3, <1>6, <1>7 DEF MindsSelves
<1>10. ASSUME ~mixed PROVE Sees(state, father, closure, r)
  <2>1. DeleteSees(state, father, closure, q)
    BY <1>6, <1>7, <1>10 DEF Sees
  <2>2. c \notin q.detached
    BY <1>4, <2>1 DEF DeleteSees
  <2>3. Cut(r) = Cut(q) /\ Seen(closure, r) = Seen(closure, q)
    BY <1>3, <1>4, <2>2 DEF Cut, Seen
  <2>4. r.detached \cup r.todo = q.detached \cup q.todo /\ r.detached \cap r.todo = {}
    BY <1>3, <1>4, <2>1 DEF DeleteSees
  <2>5. DeleteSees(state, father, closure, r)
    BY <1>3, <1>4, <2>1, <2>3, <2>4 DEF DeleteSees
  <2>6. QED
    BY <1>3, <1>7, <2>5 DEF Sees
<1>11. QED
  BY <1>1, <1>3, <1>4, <1>5, <1>8, <1>9, <1>10, LocalKeeps

\* A row set taken from a delete, none of whose depth 0 rows is of another person.
LEMMA DeleteMinds ==
  ASSUME NEW st, NEW q, NEW r, NEW rows, MindsSelves(st, q), Same(r, q), q.op = "delete",
         r.pc \in {"drop", "detach", "row"},
         r.dels = q.dels \cup (rows \ q.ins), r.ins = q.ins \ rows,
         st[q.id] # "unborn", \A p \in Persons : SelfRow(p) \in rows => p = q.id
  PROVE  MindsSelves(st, r)
<1>1. r.op = "delete" /\ r.id = q.id
  BY DEF Same
<1>2. \A p \in Persons : SelfRow(p) \notin r.ins
  BY DEF MindsSelves
<1>3. \A p \in Persons : SelfRow(p) \in r.dels =>
        st[p] # "unborn" /\ (st[p] = "deleted" \/ r.id = p)
  BY <1>1 DEF MindsSelves
<1>4. QED
  BY <1>1, <1>2, <1>3 DEF MindsSelves

LEMMA UnlinkKeeps == ASSUME LineageInv, NEW h \in Handlers, Unlink(h) PROVE LineageInv'
<1>1. PICK q \in Requests : q = tx[h]
  BY Known
<1>2. PICK pc : pc = IF q.todo = {} THEN "drop" ELSE "detach"
  OBVIOUS
<1>3. PICK v \in SUBSET Row : v = View(h)
  BY Known
<1>4. PICK rows \in SUBSET Row : rows = Strip(v, q.child)
  BY NoSelfRows
<1>5. /\ q.pc = "unlink" /\ DeleteRows(h, rows, pc) /\ pc \in Steps
      /\ UNCHANGED <<state, father, closure, version, mixed>>
  BY <1>1, <1>2, <1>3, <1>4 DEF Unlink, At, Steps, persons
<1>6. /\ OnCourse(state, q) /\ MindsSelves(state, q) /\ v = Seen(closure, q)
      /\ ~mixed => Sees(state, father, closure, q)
  BY <1>1, <1>3, Known
<1>7. q.op = "delete" /\ q.id \in Persons /\ state[q.id] # "unborn"
  BY <1>5, <1>6 DEF OnCourse, Requests, Ops
<1>8. PICK r \in Requests : /\ Becomes(h, r) /\ Same(r, q) /\ r.pc = pc
                            /\ r.dels = q.dels \cup (rows \ q.ins) /\ r.ins = q.ins \ rows
  BY <1>1, <1>5, DeletePuts, Known
<1>9. OnCourse(state, r)
  BY <1>2, <1>6, <1>7, <1>8 DEF OnCourse, Same
<1>10. MindsSelves(state, r)
  <2>1. \A p \in Persons : SelfRow(p) \notin rows
    BY <1>4, NoSelfRows
  <2>2. QED
    BY <1>2, <1>6, <1>7, <1>8, <2>1, DeleteMinds
<1>11. ASSUME ~mixed PROVE Sees(state, father, closure, r)
  <2>1. DeleteSees(state, father, closure, q)
    BY <1>6, <1>7, <1>11 DEF Sees
  <2>2. /\ Good(state, Orphaned(father, Cut(q)), v) /\ q.ins = {}
        /\ q.child \in Persons /\ state[q.child] = "live" /\ q.child \in q.detached
    BY <1>5, <1>6, <2>1 DEF DeleteSees
  <2>3. Good(state, [Orphaned(father, Cut(q)) EXCEPT ![q.child] = None],
             Under(v \ Strip(v, q.child), q.child, None))
    <3>1. PICK fa, f : fa = Orphaned(father, Cut(q)) /\ f = None
      OBVIOUS
    <3>2. Good(state, [fa EXCEPT ![q.child] = f], Under(v \ Strip(v, q.child), q.child, f))
      BY <2>2, <3>1, MoveKeepsGood
    <3>3. QED
      BY <3>1, <3>2
  <2>4. [Orphaned(father, Cut(q)) EXCEPT ![q.child] = None] = Orphaned(father, Cut(r))
    BY <1>2, <1>5, <1>8, <2>2 DEF Orphaned, Cut, Same
  <2>5. Under(v \ Strip(v, q.child), q.child, None) = Seen(closure, r)
    BY <1>4, <1>6, <1>8, <2>2 DEF Under, Seen
  <2>6. Good(state, Orphaned(father, Cut(r)), Seen(closure, r)) /\ r.ins = {}
    BY <1>8, <2>2, <2>3, <2>4, <2>5
  <2>7. DeleteSees(state, father, closure, r)
    BY <1>2, <1>5, <1>8, <2>1, <2>6 DEF DeleteSees, Same
  <2>8. QED
    BY <1>7, <1>8, <2>7 DEF Sees, Same
<1>12. QED
  BY <1>1, <1>5, <1>8, <1>9, <1>10, <1>11, LocalKeeps DEF Same

LEMMA DropRowsKeeps == ASSUME LineageInv, NEW h \in Handlers, DropRows(h) PROVE LineageInv'
<1>1. PICK q \in Requests : q = tx[h]
  BY Known
<1>2. PICK v \in SUBSET Row : v = View(h)
  BY Known
<1>3. PICK rows \in SUBSET Row : rows = RowsOf(v, q.id)
  BY NoSelfRows
<1>4. /\ q.pc = "drop" /\ DeleteRows(h, rows, "row") /\ "row" \in Steps
      /\ UNCHANGED <<state, father, closure, version, mixed>>
  BY <1>1, <1>2, <1>3 DEF DropRows, At, Steps, persons
<1>5. /\ OnCourse(state, q) /\ MindsSelves(state, q) /\ v = Seen(closure, q)
      /\ ~mixed => Sees(state, father, closure, q)
  BY <1>1, <1>2, Known
<1>6. q.op = "delete" /\ q.id \in Persons /\ state[q.id] # "unborn"
  BY <1>4, <1>5 DEF OnCourse, Requests, Ops
<1>7. PICK r \in Requests : /\ Becomes(h, r) /\ Same(r, q) /\ r.pc = "row"
                            /\ r.dels = q.dels \cup (rows \ q.ins) /\ r.ins = q.ins \ rows
  BY <1>1, <1>4, DeletePuts, Known
<1>8. OnCourse(state, r)
  BY <1>5, <1>6, <1>7 DEF OnCourse, Same
<1>9. MindsSelves(state, r)
  <2>1. \A p \in Persons : SelfRow(p) \in rows => p = q.id
    BY <1>3, NoSelfRows
  <2>2. QED
    BY <1>5, <1>6, <1>7, <2>1, DeleteMinds
<1>10. ASSUME ~mixed PROVE Sees(state, father, closure, r)
  <2>1. DeleteSees(state, father, closure, q)
    BY <1>5, <1>6, <1>10 DEF Sees
  <2>2. PICK fa : fa = Orphaned(father, q.detached)
    OBVIOUS
  <2>3. /\ Good(state, fa, v) /\ q.ins = {} /\ state[q.id] = "live"
        /\ q.detached = {c \in Persons : state[c] = "live" /\ father[c] = q.id}
    BY <1>4, <1>5, <2>1, <2>2 DEF DeleteSees, Cut
  <2>4. PICK p, children :
          /\ p \in Persons /\ p = q.id
          /\ children = {c \in Persons : state[c] = "live" /\ fa[c] = p}
    BY <1>6
  <2>5. children = {}
    BY <1>6, <2>2, <2>3, <2>4, NoneIsNoOp DEF Orphaned
  <2>6. Good([state EXCEPT ![p] = "deleted"],
             [c \in Persons |-> IF c \in children THEN None ELSE fa[c]],
             (v \ UNION {Strip(v, c) : c \in children}) \ RowsOf(v, p))
    <3>1. Good(state, fa, v) /\ state[p] = "live"
      BY <2>3, <2>4
    <3>2. QED
      BY <2>4, <3>1, DeleteKeepsGood
  <2>7. [c \in Persons |-> IF c \in children THEN None ELSE fa[c]] = fa
    BY <2>2, <2>5 DEF Orphaned
  <2>8. (v \ UNION {Strip(v, c) : c \in children}) \ RowsOf(v, p) = Seen(closure, r)
    <3>1. UNION {Strip(v, c) : c \in children} = {}
      BY <2>5
    <3>2. QED
      BY <1>3, <1>5, <1>7, <2>3, <2>4, <3>1 DEF Seen
  <2>9. Good([state EXCEPT ![r.id] = "deleted"], Orphaned(father, r.detached), Seen(closure, r))
    BY <1>7, <2>2, <2>4, <2>6, <2>7, <2>8 DEF Same
  <2>10. DeleteSees(state, father, closure, r)
    BY <1>7, <2>3, <2>9 DEF DeleteSees, Same
  <2>11. QED
    BY <1>6, <1>7, <2>10 DEF Sees, Same
<1>11. QED
  BY <1>1, <1>4, <1>7, <1>8, <1>9, <1>10, LocalKeeps DEF Same

LEMMA BlockersKeep == ASSUME LineageInv, NEW h \in Handlers, Blockers(h) PROVE LineageInv'
<1>1. PICK q \in Requests : q = tx[h]
  BY Known
<1>2. PICK condition : condition = \A c \in Live \ Imported : father[c] \notin Imported
  OBVIOUS
<1>3. q.pc = "blockers" /\ Require(h, condition, "withdraw") /\ "withdraw" \in Steps
  BY <1>1, <1>2 DEF Blockers, At, Steps
<1>4. /\ UNCHANGED <<state, father, closure, version, mixed>>
      /\ (condition /\ Goto(h, "withdraw")) \/ LineageInv'
  BY <1>3, RequireIs
<1>5. ASSUME condition, Goto(h, "withdraw") PROVE LineageInv'
  <2>1. PICK r \in Requests : /\ Becomes(h, r) /\ Same(r, q) /\ r.pc = "withdraw"
                              /\ r.dels = q.dels /\ r.ins = q.ins
    BY <1>1, <1>3, <1>5, GotoPuts, Known
  <2>2. OnCourse(state, q) /\ MindsSelves(state, q) /\ (~mixed => Sees(state, father, closure, q))
    BY <1>1, Known
  <2>3. q.op = "rollback"
    BY <1>3, <2>2 DEF OnCourse, Requests, Ops
  <2>4. OnCourse(state, r)
    BY <2>1, <2>2, <2>3 DEF OnCourse, Same
  <2>5. MindsSelves(state, r)
    BY <1>3, <2>1, <2>2, <2>3 DEF MindsSelves, Same
  <2>6. ASSUME ~mixed PROVE Sees(state, father, closure, r)
    BY <1>2, <1>5, <2>1, <2>2, <2>3, <2>6 DEF Sees, RollbackSees, Same, Live
  <2>7. QED
    BY <1>1, <1>3, <1>4, <2>1, <2>4, <2>5, <2>6, LocalKeeps DEF Same
<1>6. QED
  BY <1>4, <1>5

\* The persons of the batch are deleted: nothing else is open unless requests are mixed.
LEMMA WithdrawBatchKeeps == ASSUME LineageInv, NEW h \in Handlers, WithdrawBatch(h) PROVE LineageInv'
<1>1. PICK q \in Requests : q = tx[h]
  BY Known
<1>2. q.pc = "withdraw" /\ Goto(h, "wipe") /\ "wipe" \in Steps
  BY <1>1 DEF WithdrawBatch, At, Steps
<1>3. /\ state' = [p \in Persons |-> IF p \in Imported /\ state[p] = "live" THEN "deleted"
                                     ELSE state[p]]
      /\ UNCHANGED <<father, closure, version, mixed>>
  BY DEF WithdrawBatch, Live
<1>4. PICK r \in Requests : /\ Becomes(h, r) /\ Same(r, q) /\ r.pc = "wipe"
                            /\ r.dels = q.dels /\ r.ins = q.ins
  BY <1>1, <1>2, GotoPuts, Known
<1>5. /\ OnCourse(state, q) /\ MindsSelves(state, q)
      /\ ~mixed => Sees(state, father, closure, q) /\ Good(state, father, closure)
  BY <1>1, Known
<1>6. q.op = "rollback"
  BY <1>2, <1>5 DEF OnCourse, Requests, Ops
<1>7. /\ tx' \in [Handlers -> Requests] /\ tx'[h] = r
      /\ \A g \in Handlers : g # h => tx'[g] = tx[g]
  BY <1>4, Put DEF LineageInv, LineageTypeOK
<1>8. state \in [Persons -> States] /\ state' \in [Persons -> States]
  BY <1>3 DEF LineageInv, LineageTypeOK, States
<1>9. Ages(state, state') /\ \A p \in Persons : state[p] = "unborn" => state'[p] = "unborn"
  BY <1>3, <1>8 DEF Ages
<1>10. LineageTypeOK'
  BY <1>3, <1>7, <1>8 DEF LineageInv, LineageTypeOK
<1>11. SelvesInv'
  <2>1. \A p \in Persons : SelfRow(p) \in closure' => state'[p] # "unborn"
    BY <1>3, <1>9 DEF LineageInv, SelvesInv, Ages
  <2>2. EveryoneHasASelfRow'
    BY <1>3 DEF LineageInv, SelvesInv, EveryoneHasASelfRow, Live
  <2>3. ASSUME NEW g \in Handlers, g # h PROVE OnCourse(state', tx'[g]) /\ MindsSelves(state', tx'[g])
    <3>1. PICK b \in Requests : b = tx[g] /\ b = tx'[g]
      BY <1>7, <2>3 DEF LineageInv, LineageTypeOK
    <3>2. OnCourse(state, b) /\ MindsSelves(state, b)
      BY <3>1 DEF LineageInv, SelvesInv
    <3>3. b.op = "create" => state'[b.id] = "unborn"
      BY <1>9, <3>2 DEF OnCourse
    <3>4. Same(b, b)
      BY DEF Same
    <3>5. QED
      BY <1>8, <1>9, <3>1, <3>2, <3>3, <3>4, OthersHold
  <2>4. OnCourse(state', r) /\ MindsSelves(state', r)
    <3>1. r.op = "rollback" /\ r.id = None /\ r.ins = {} /\ r.dels = {}
      BY <1>2, <1>4, <1>5, <1>6 DEF OnCourse, MindsSelves, Same
    <3>2. QED
      BY <1>4, <3>1, NoneIsNoOp DEF OnCourse, MindsSelves, Ops
  <2>5. \A f, g \in Handlers : f # g /\ tx'[f].op = "create" => tx'[g].id # tx'[f].id
    <3>1. r.op = q.op /\ r.id = q.id
      BY <1>4 DEF Same
    <3>2. QED
      BY <1>1, <1>7, <3>1 DEF LineageInv, SelvesInv
  <2>6. QED
    BY <1>7, <2>1, <2>2, <2>3, <2>4, <2>5 DEF SelvesInv
<1>12. ASSUME ~mixed PROVE /\ Good(state', father', closure') /\ Alone'
                           /\ \A g \in Handlers : Sees(state', father', closure', tx'[g])
  <2>1. \A g \in Handlers : g # h => tx[g].pc = "idle"
    BY <1>1, <1>2, <1>6, <1>12 DEF LineageInv, ExactInv, Alone
  <2>2. Alone'
    BY <1>7, <2>1 DEF Alone
  <2>3. Sees(state', father', closure', r)
    BY <1>4, <1>5, <1>6, <1>12 DEF Sees, RollbackSees, Same
  <2>4. ASSUME NEW g \in Handlers, g # h PROVE Sees(state', father', closure', tx'[g])
    <3>1. tx'[g].op = None
      BY <1>7, <2>1, <2>4 DEF LineageInv, SelvesInv, OnCourse
    <3>2. QED
      BY <3>1, NoneIsNoOp DEF Sees, Ops
  <2>5. Good(state', father', closure')
    <3>1. RollbackSees(state, father, closure, q)
      BY <1>5, <1>6, <1>12 DEF Sees
    <3>2. \A p \in Persons \ Imported : state[p] = "live" => father[p] \notin Imported
      BY <1>2, <3>1 DEF RollbackSees
    <3>3. Imported \in SUBSET Persons
      BY ConstantsOK
    <3>4. Good([p \in Persons |-> IF p \in Imported /\ state[p] = "live" THEN "deleted" ELSE state[p]],
               father, closure)
      BY <1>5, <1>12, <3>2, <3>3, WithdrawKeepsGood
    <3>5. QED
      BY <1>3, <3>4
  <2>6. QED
    BY <1>7, <2>2, <2>3, <2>4, <2>5
<1>13. QED
  BY <1>3, <1>10, <1>11, <1>12 DEF LineageInv, ExactInv

\* A statement of a rebuild.
LEMMA RebuildKeeps ==
  ASSUME LineageInv, NEW h \in Handlers, NEW q \in Requests, q = tx[h], q.op = "rollback",
         UNCHANGED <<state, father, closure, version, mixed>>,
         NEW r \in Requests, Becomes(h, r), Same(r, q), q.pc # "idle",
         r.pc \in {"selves", "walk", "commit"},
         \A p \in Persons : SelfRow(p) \in r.ins => state[p] # "unborn",
         \A p \in Persons : SelfRow(p) \in r.dels =>
           state[p] # "unborn" /\ (state[p] = "deleted" \/ r.pc = "selves" \/ SelfRow(p) \in r.ins),
         ~mixed => RollbackSees(state, father, closure, r)
  PROVE  LineageInv'
<1>1. OnCourse(state, q)
  BY Known
<1>2. r.op = "rollback" /\ r.id = None
  BY <1>1 DEF OnCourse, Same
<1>3. OnCourse(state, r)
  BY <1>2, NoneIsNoOp DEF OnCourse, Ops
<1>4. MindsSelves(state, r)
  BY <1>2 DEF MindsSelves
<1>5. ~mixed => Sees(state, father, closure, r)
  BY <1>2 DEF Sees
<1>6. QED
  BY <1>3, <1>4, <1>5, LocalKeeps DEF Same

LEMMA WipeKeeps == ASSUME LineageInv, NEW h \in Handlers, Wipe(h) PROVE LineageInv'
<1>1. PICK q \in Requests : q = tx[h]
  BY Known
<1>2. PICK rows \in SUBSET Row : rows = closure
  BY DEF LineageInv, LineageTypeOK
<1>3. /\ q.pc = "wipe" /\ DeleteRows(h, rows, "selves") /\ "selves" \in Steps
      /\ UNCHANGED <<state, father, closure, version, mixed>>
  BY <1>1, <1>2 DEF Wipe, At, Steps, persons
<1>4. OnCourse(state, q) /\ MindsSelves(state, q) /\ (~mixed => Sees(state, father, closure, q))
  BY <1>1, Known
<1>5. q.op = "rollback" /\ q.ins = {} /\ q.dels = {}
  BY <1>3, <1>4 DEF OnCourse, MindsSelves, Requests, Ops
<1>6. PICK r \in Requests : /\ Becomes(h, r) /\ Same(r, q) /\ r.pc = "selves"
                            /\ r.dels = q.dels \cup (rows \ q.ins) /\ r.ins = q.ins \ rows
  BY <1>1, <1>3, DeletePuts, Known
<1>7. r.dels = closure /\ r.ins = {}
  BY <1>2, <1>5, <1>6
<1>8. ~mixed => RollbackSees(state, father, closure, r)
  BY <1>4, <1>5, <1>6, <1>7 DEF Sees, RollbackSees, Same
<1>9. \A p \in Persons : SelfRow(p) \in r.dels => state[p] # "unborn"
  BY <1>7 DEF LineageInv, SelvesInv
<1>10. QED
  BY <1>1, <1>3, <1>5, <1>6, <1>7, <1>8, <1>9, RebuildKeeps

LEMMA InsertSelvesKeeps == ASSUME LineageInv, NEW h \in Handlers, InsertSelves(h) PROVE LineageInv'
<1>1. PICK q \in Requests : q = tx[h]
  BY Known
<1>2. PICK rows \in SUBSET Row : rows = {SelfRow(p) : p \in {d \in Persons : state[d] = "live"}}
  <2>1. \A p \in Persons : SelfRow(p) \in Row
    BY DEF SelfRow, Row
  <2>2. {SelfRow(p) : p \in {d \in Persons : state[d] = "live"}} \subseteq Row
    BY <2>1
  <2>3. QED
    BY <2>2
<1>3. /\ q.pc = "selves" /\ InsertRows(h, rows, "walk") /\ "walk" \in Steps
      /\ UNCHANGED <<state, father, closure, version, mixed>>
  BY <1>1, <1>2 DEF InsertSelves, At, Steps, persons, Live
<1>4. OnCourse(state, q) /\ MindsSelves(state, q) /\ (~mixed => Sees(state, father, closure, q))
  BY <1>1, Known
<1>5. q.op = "rollback"
  BY <1>3, <1>4 DEF OnCourse, Requests, Ops
<1>6. PICK r \in Requests : /\ Becomes(h, r) /\ Same(r, q) /\ r.pc = "walk"
                            /\ r.dels = q.dels /\ r.ins = q.ins \cup rows
  BY <1>1, <1>3, InsertPuts, Known
<1>7. \A p \in Persons : SelfRow(p) \in rows <=> state[p] = "live"
  BY <1>2, SelvesDiffer
<1>8. ASSUME ~mixed PROVE RollbackSees(state, father, closure, r)
  <2>1. q.dels = closure /\ q.ins = {} /\ q.detached = {}
    BY <1>3, <1>4, <1>5, <1>8 DEF Sees, RollbackSees
  <2>2. QED
    BY <1>2, <1>6, <2>1 DEF RollbackSees, Same
<1>9. \A p \in Persons : SelfRow(p) \in r.ins => state[p] # "unborn"
  BY <1>4, <1>5, <1>6, <1>7 DEF MindsSelves
<1>10. \A p \in Persons : SelfRow(p) \in r.dels =>
         state[p] # "unborn" /\ (state[p] = "deleted" \/ SelfRow(p) \in r.ins)
  <2>1. state \in [Persons -> States]
    BY DEF LineageInv, LineageTypeOK
  <2>2. QED
    BY <1>4, <1>6, <1>7, <2>1 DEF MindsSelves, States
<1>11. QED
  BY <1>1, <1>3, <1>5, <1>6, <1>8, <1>9, <1>10, RebuildKeeps

LEMMA InsertWalkKeeps == ASSUME LineageInv, NEW h \in Handlers, InsertWalk(h) PROVE LineageInv'
<1>1. PICK q \in Requests : q = tx[h]
  BY Known
<1>2. Walk(state, father) \subseteq Row /\ \A p \in Persons : SelfRow(p) \notin Walk(state, father)
  <2>1. Cardinality(Persons) \in Nat
    BY PersonsOK, FS_CardinalityType
  <2>2. \A r \in Walk(state, father) : r \in Persons \X Persons \X (1 .. Cardinality(Persons))
    BY DEF Walk
  <2>3. \A r \in Walk(state, father) : r \in Row /\ r[3] # 0
    BY <2>1, <2>2 DEF Row
  <2>4. \A p \in Persons : SelfRow(p)[3] = 0
    BY DEF SelfRow
  <2>5. QED
    BY <2>3, <2>4
<1>3. PICK rows \in SUBSET Row : rows = Walk(state, father)
  BY <1>2
<1>4. /\ q.pc = "walk" /\ InsertRows(h, rows, "commit") /\ "commit" \in Steps
      /\ UNCHANGED <<state, father, closure, version, mixed>>
  BY <1>1, <1>3 DEF InsertWalk, At, Steps, persons
<1>5. OnCourse(state, q) /\ MindsSelves(state, q) /\ (~mixed => Sees(state, father, closure, q))
  BY <1>1, Known
<1>6. q.op = "rollback"
  BY <1>4, <1>5 DEF OnCourse, Requests, Ops
<1>7. PICK r \in Requests : /\ Becomes(h, r) /\ Same(r, q) /\ r.pc = "commit"
                            /\ r.dels = q.dels /\ r.ins = q.ins \cup rows
  BY <1>1, <1>4, InsertPuts, Known
<1>8. \A p \in Persons : SelfRow(p) \in r.ins <=> SelfRow(p) \in q.ins
  BY <1>2, <1>3, <1>7
<1>9. ASSUME ~mixed PROVE RollbackSees(state, father, closure, r)
  <2>1. /\ q.dels = closure /\ q.detached = {}
        /\ q.ins = {SelfRow(p) : p \in {d \in Persons : state[d] = "live"}}
    BY <1>4, <1>5, <1>6, <1>9 DEF Sees, RollbackSees
  <2>2. r.ins = Rebuilt(state, father)
    BY <1>3, <1>7, <2>1 DEF Rebuilt
  <2>3. QED
    BY <1>7, <2>1, <2>2 DEF RollbackSees, Same
<1>10. \A p \in Persons : SelfRow(p) \in r.ins => state[p] # "unborn"
  BY <1>5, <1>6, <1>8 DEF MindsSelves
<1>11. \A p \in Persons : SelfRow(p) \in r.dels =>
         state[p] # "unborn" /\ (state[p] = "deleted" \/ SelfRow(p) \in r.ins)
  BY <1>4, <1>5, <1>6, <1>7, <1>8 DEF MindsSelves
<1>12. QED
  BY <1>1, <1>4, <1>6, <1>7, <1>9, <1>10, <1>11, RebuildKeeps

LEMMA GiveUpKeeps ==
  ASSUME LineageInv, NEW h \in Handlers, Abort(h) \/ FailOnKey(h) \/ SetRolledBack(h)
  PROVE  LineageInv'
<1>1. End(h, Idle, {})
  BY DEF Abort, FailOnKey, SetRolledBack, Rollback
<1>2. UNCHANGED <<state, father, closure, version, mixed>>
  BY DEF Abort, FailOnKey, SetRolledBack, Rollback, persons
<1>3. QED
  BY <1>1, <1>2, GivenUpKeeps

-----------------------------------------------------------------------------
(* Commits *)

\* What the commit of request q makes of the three variables.
Committed(st, fa, cl, q, su, fb, cm) ==
  /\ q.pc = "commit"
  /\ cm = Seen(cl, q)
  /\ fb = [p \in Persons |-> IF p \in q.detached THEN None
                             ELSE IF p = q.id /\ q.op \in {"create", "refather"} THEN q.to
                             ELSE fa[p]]
  /\ q.op = "create" => su = [st EXCEPT ![q.id] = "live"]
  /\ q.op = "delete" => su = [st EXCEPT ![q.id] = "deleted"]
  /\ q.op \notin {"create", "delete"} => su = st

LEMMA CommitIs ==
  ASSUME LineageInv, NEW h \in Handlers, Commit(h)
  PROVE  \E q, r \in Requests :
           /\ q = tx[h] /\ Committed(state, father, closure, q, state', father', closure')
           /\ r = (IF q.op = "rollback" THEN [Idle EXCEPT !.op = q.op, !.pc = "status"] ELSE Idle)
           /\ End(h, r, q.dels) /\ mixed' = mixed /\ version' \in [Persons -> Nat]
<1>1. PICK q \in Requests : q = tx[h]
  BY Known
<1>2. PICK r : r = IF q.op = "rollback" THEN [Idle EXCEPT !.op = q.op, !.pc = "status"] ELSE Idle
  OBVIOUS
<1>3. [Idle EXCEPT !.op = "rollback", !.pc = "status"] \in Requests
  BY DEF Idle, Requests, Ops, Steps, Maybe
<1>4. r \in Requests
  BY <1>2, <1>3, IdleIs
<1>5. End(h, r, q.dels) /\ mixed' = mixed
  BY <1>1, <1>2 DEF Commit
<1>6. version' \in [Persons -> Nat]
  <2>1. version \in [Persons -> Nat]
    BY DEF LineageInv, LineageTypeOK
  <2>2. version' = IF q.op \in {"refather", "gender"} THEN [version EXCEPT ![q.id] = @ + 1] ELSE version
    BY <1>1 DEF Commit
  <2>3. PICK p : p = q.id
    OBVIOUS
  <2>4. q.op \notin {"refather", "gender"} => version' = version
    BY <2>2
  <2>5. q.op \in {"refather", "gender"} => p \in Persons
    BY <1>1, <2>3, Known DEF OnCourse
  <2>6. p \in Persons => [version EXCEPT ![p] = @ + 1] \in [Persons -> Nat]
    BY <2>1
  <2>7. QED
    BY <2>1, <2>2, <2>3, <2>4, <2>5, <2>6
<1>7. Committed(state, father, closure, q, state', father', closure')
  <2>1. q.pc = "commit"
    BY <1>1 DEF Commit, At
  <2>2. closure' = Seen(closure, q)
    BY <1>1 DEF Commit, View, Seen
  <2>3. father' = [p \in Persons |-> IF p \in q.detached THEN None
                                     ELSE IF p = q.id /\ q.op \in {"create", "refather"} THEN q.to
                                     ELSE father[p]]
    BY <1>1 DEF Commit, NewFather
  <2>4. state' = CASE q.op = "create" -> [state EXCEPT ![q.id] = "live"]
                   [] q.op = "delete" -> [state EXCEPT ![q.id] = "deleted"]
                   [] OTHER -> state
    BY <1>1 DEF Commit, NewState
  <2>5. QED
    BY <2>1, <2>2, <2>3, <2>4 DEF Committed
<1>8. QED
  BY <1>1, <1>2, <1>4, <1>5, <1>6, <1>7

\* The states and the depth 0 rows after a commit.
LEMMA CommitAges ==
  ASSUME NEW st \in [Persons -> States], NEW fa, NEW cl \in SUBSET Row, NEW q \in Requests,
         NEW su, NEW fb, NEW cm, Committed(st, fa, cl, q, su, fb, cm),
         OnCourse(st, q), MindsSelves(st, q),
         \A p \in Persons : SelfRow(p) \in cl => st[p] # "unborn",
         \A p \in Persons : st[p] = "live" => SelfRow(p) \in cl
  PROVE  /\ su \in [Persons -> States] /\ Ages(st, su)
         /\ \A p \in Persons : p # q.id => su[p] = st[p]
         /\ \A p \in Persons : SelfRow(p) \in cm => su[p] # "unborn"
         /\ \A p \in Persons : su[p] = "live" => SelfRow(p) \in cm
<1>1. cm = (cl \ q.dels) \cup q.ins
  BY DEF Committed, Seen
<1>2. CASE q.op = "create"
  <2>1. su = [st EXCEPT ![q.id] = "live"] /\ q.id \in Persons /\ st[q.id] = "unborn" /\ q.pc = "commit"
    BY <1>2 DEF Committed, OnCourse
  <2>2. SelfRow(q.id) \in q.ins /\ \A p \in Persons : SelfRow(p) \in q.ins => q.id = p
    BY <1>2, <2>1 DEF MindsSelves
  <2>3. \A p \in Persons : SelfRow(p) \in q.dels => st[p] = "deleted"
    BY <1>2 DEF MindsSelves
  <2>4. su \in [Persons -> States] /\ Ages(st, su) /\ \A p \in Persons : p # q.id => su[p] = st[p]
    BY <2>1 DEF Ages, States
  <2>5. QED
    BY <1>1, <2>1, <2>2, <2>3, <2>4
<1>3. CASE q.op = "delete"
  <2>1. su = [st EXCEPT ![q.id] = "deleted"] /\ q.id \in Persons /\ st[q.id] # "unborn"
    BY <1>3 DEF Committed, OnCourse
  <2>2. \A p \in Persons : SelfRow(p) \notin q.ins
    BY <1>3 DEF MindsSelves
  <2>3. \A p \in Persons : SelfRow(p) \in q.dels => st[p] = "deleted" \/ p = q.id
    BY <1>3 DEF MindsSelves
  <2>4. su \in [Persons -> States] /\ Ages(st, su) /\ \A p \in Persons : p # q.id => su[p] = st[p]
    BY <2>1 DEF Ages, States
  <2>5. QED
    BY <1>1, <2>1, <2>2, <2>3, <2>4
<1>4. CASE q.op \notin {"create", "delete"}
  <2>1. su = st /\ q.pc = "commit"
    BY <1>4 DEF Committed
  <2>2. \A p \in Persons : SelfRow(p) \in q.ins => st[p] # "unborn"
    BY <1>4 DEF MindsSelves
  <2>3. \A p \in Persons : SelfRow(p) \in q.dels => st[p] = "deleted" \/ SelfRow(p) \in q.ins
    BY <1>4, <2>1 DEF MindsSelves
  <2>4. QED
    BY <1>1, <2>1, <2>2, <2>3 DEF Ages
<1>5. QED
  BY <1>2, <1>3, <1>4

\* An exact table stays exact.
LEMMA CommitKeepsGood ==
  ASSUME NEW st, NEW fa, NEW cl, NEW q \in Requests,
         NEW su, NEW fb, NEW cm, Committed(st, fa, cl, q, su, fb, cm),
         OnCourse(st, q), q.op # None, Good(st, fa, cl), Sees(st, fa, cl, q)
  PROVE  Good(su, fb, cm)
<1>1. fa \in [Persons -> Maybe] /\ q.to \in Maybe /\ q.pc = "commit" /\ cm = Seen(cl, q)
  BY DEF Good, Typed, Maybe, Requests, Committed
<1>2. CASE q.op = "create"
  <2>1. CreateSees(st, cl, q)
    BY <1>2 DEF Sees
  <2>2. /\ q.id \in Persons /\ st[q.id] = "unborn" /\ (q.to # None => st[q.to] = "live")
        /\ q.dels = {} /\ q.detached = {}
        /\ q.ins = {SelfRow(q.id)} \cup
                     (IF q.to = None THEN {} ELSE Graft(cl \cup {SelfRow(q.id)}, q.id, q.to))
    BY <1>1, <1>2, <2>1 DEF OnCourse, CreateSees
  <2>3. PICK p \in Persons, f \in Persons \cup {None} : p = q.id /\ f = q.to
    BY <1>1, <2>2 DEF Maybe
  <2>4. Good([st EXCEPT ![p] = "live"], [fa EXCEPT ![p] = f], Under(cl \cup {SelfRow(p)}, p, f))
    BY <2>2, <2>3, CreateKeepsGood
  <2>5. su = [st EXCEPT ![p] = "live"]
    BY <1>2, <2>3 DEF Committed
  <2>6. fb = [fa EXCEPT ![p] = f]
    BY <1>1, <1>2, <2>2, <2>3 DEF Committed
  <2>7. cm = Under(cl \cup {SelfRow(p)}, p, f)
    BY <1>1, <2>2, <2>3 DEF Seen, Under
  <2>8. QED
    BY <2>4, <2>5, <2>6, <2>7
<1>3. CASE q.op = "refather"
  <2>1. RefatherSees(st, fa, cl, q)
    BY <1>3 DEF Sees
  <2>2. q.detached = {} /\ st[q.id] = "live" /\ q.id \in Persons
    BY <1>3, <2>1 DEF RefatherSees, OnCourse
  <2>3. PICK p \in Persons, f \in Persons \cup {None} : p = q.id /\ f = q.to
    BY <1>1, <2>2 DEF Maybe
  <2>4. su = st /\ fb = [fa EXCEPT ![p] = f]
    BY <1>1, <1>3, <2>2, <2>3 DEF Committed
  <2>5. CASE NothingYet(q) /\ q.to = fa[q.id]
    <3>1. cm = cl /\ fb = fa
      BY <1>1, <2>3, <2>4, <2>5 DEF NothingYet, Seen
    <3>2. QED
      BY <2>4, <3>1
  <2>6. CASE Suits(st, cl, q.id, q.to) /\ Seen(cl, q) = Under(cl \ Strip(cl, q.id), q.id, q.to)
    <3>1. f # None => st[f] = "live" /\ f \notin Below(cl, p)
      BY <2>3, <2>6 DEF Suits
    <3>2. st[p] = "live"
      BY <2>2, <2>3
    <3>3. Good(st, [fa EXCEPT ![p] = f], Under(cl \ Strip(cl, p), p, f))
      BY <3>1, <3>2, MoveKeepsGood
    <3>4. cm = Under(cl \ Strip(cl, p), p, f)
      BY <1>1, <2>3, <2>6
    <3>5. QED
      BY <2>4, <3>3, <3>4
  <2>7. QED
    BY <1>1, <2>1, <2>5, <2>6 DEF RefatherSees
<1>4. CASE q.op = "gender"
  <2>1. NothingYet(q) /\ q.detached = {}
    BY <1>4 DEF Sees
  <2>2. su = st /\ cm = cl
    BY <1>1, <1>4, <2>1 DEF Committed, NothingYet, Seen
  <2>3. fb = fa
    BY <1>1, <1>4, <2>1 DEF Committed
  <2>4. QED
    BY <2>2, <2>3
<1>5. CASE q.op = "delete"
  <2>1. Good([st EXCEPT ![q.id] = "deleted"], Orphaned(fa, q.detached), Seen(cl, q))
    BY <1>1, <1>5 DEF Sees, DeleteSees
  <2>2. su = [st EXCEPT ![q.id] = "deleted"]
    BY <1>5 DEF Committed
  <2>3. fb = Orphaned(fa, q.detached)
    BY <1>5 DEF Committed, Orphaned
  <2>4. QED
    BY <1>1, <2>1, <2>2, <2>3
<1>6. CASE q.op = "rollback"
  <2>1. q.detached = {} /\ q.dels = cl /\ q.ins = Rebuilt(st, fa)
    BY <1>1, <1>6 DEF Sees, RollbackSees
  <2>2. su = st /\ cm = Rebuilt(st, fa)
    BY <1>1, <1>6, <2>1 DEF Committed, Seen
  <2>3. fb = fa
    BY <1>1, <1>6, <2>1 DEF Committed
  <2>4. QED
    BY <2>2, <2>3, GoodIsRooted, RebuiltIsGood
<1>7. QED
  BY <1>2, <1>3, <1>4, <1>5, <1>6 DEF Requests, Ops

\* The row of a new person s and the rows above him lead to him, and none comes from another
\* whose creation is under way.
LEMMA RowsOfTheNew ==
  ASSUME NEW st, NEW cl, cl \subseteq Row, Born(st, cl),
         NEW p \in Persons, st[p] = "unborn", NEW f, f # p,
         NEW s \in Persons, st[s] = "unborn", s # p,
         NEW x, x = SelfRow(s) \/ x \in Graft(cl \cup {SelfRow(s)}, s, f)
  PROVE  x[2] = s /\ x[1] # p
<1>1. /\ \A r \in cl : r[1] # p /\ r[2] # p
      /\ \A r \in cl : r[1] # s /\ r[2] # s
  BY NothingToStrip
<1>2. SelfRow(s)[1] = s /\ SelfRow(s)[2] = s
  BY DEF SelfRow
<1>3. CASE x \in Graft(cl \cup {SelfRow(s)}, s, f)
  <2>1. PICK a \in cl \cup {SelfRow(s)}, u \in cl \cup {SelfRow(s)} :
          a[2] = f /\ u[1] = s /\ x = <<a[1], u[2], a[3] + u[3] + 1>>
    BY <1>3 DEF Graft
  <2>2. u[2] = s
    BY <1>1, <1>2, <2>1
  <2>3. a[1] # p
    BY <1>1, <1>2, <2>1
  <2>4. QED
    BY <2>1, <2>2, <2>3
<1>4. QED
  BY <1>2, <1>3

\* What is grafted reads the rows above g and below p.
LEMMA GraftStable ==
  ASSUME NEW one, NEW two, NEW p, NEW g, two \subseteq one,
         \A x \in one \ two : x[2] # g /\ x[1] # p
  PROVE  Graft(one, p, g) = Graft(two, p, g)
<1>1. {a \in one : a[2] = g} = {a \in two : a[2] = g} /\ {a \in one : a[1] = p} = {a \in two : a[1] = p}
  OBVIOUS
<1>2. QED
  BY <1>1 DEF Graft

\* A creation goes on as before beside one that commits.
LEMMA CommitSparesCreations ==
  ASSUME NEW st, NEW fa, NEW cl, NEW q \in Requests, NEW b, NEW d \in Requests,
         NEW su, NEW fb, NEW cm, Committed(st, fa, cl, q, su, fb, cm), Good(st, fa, cl),
         OnCourse(st, q), OnCourse(st, b), Sees(st, fa, cl, q), Sees(st, fa, cl, b),
         q.op \in {"create", "gender"}, b.op \in {"create", "gender"},
         b.op = "create" => q.id # b.id,
         Same(d, b), d.pc = b.pc, d.ins = b.ins, d.dels = b.dels \ q.dels
  PROVE  Sees(su, fb, cm, d)
<1>1. q.dels = {}
  BY DEF Sees, CreateSees, NothingYet
<1>2. d.dels = b.dels
  BY <1>1
<1>3. CASE b.op = "gender"
  BY <1>2, <1>3 DEF Sees, NothingYet, Same
<1>4. CASE b.op = "create" /\ q.op = "gender"
  <2>1. su = st /\ cm = cl
    BY <1>4 DEF Committed, Sees, NothingYet, Seen
  <2>2. CreateSees(st, cl, b)
    BY <1>4 DEF Sees
  <2>3. CreateSees(su, cm, d)
    BY <1>2, <2>1, <2>2 DEF CreateSees, Same
  <2>4. QED
    BY <1>4, <2>3 DEF Sees, Same
<1>5. CASE b.op = "create" /\ q.op = "create"
  <2>1. CreateSees(st, cl, b) /\ CreateSees(st, cl, q)
    BY <1>5 DEF Sees
  <2>2. /\ b.id \in Persons /\ st[b.id] = "unborn" /\ q.id \in Persons /\ st[q.id] = "unborn"
        /\ q.id # b.id /\ q.pc = "commit"
    BY <1>5 DEF OnCourse, Committed
  <2>3. su = [st EXCEPT ![q.id] = "live"] /\ st \in [Persons -> States]
    BY <1>5 DEF Committed, Good, Typed
  <2>4. d.pc # "parents" /\ d.to # None => su[d.to] = "live"
    <3>1. ASSUME d.pc # "parents", d.to # None PROVE su[d.to] = "live"
      <4>1. d.to \in Persons /\ st[d.to] = "live"
        BY <2>1, <3>1 DEF CreateSees, Same, Requests, Maybe
      <4>2. QED
        BY <2>3, <4>1
    <3>2. QED
      BY <3>1
  <2>5. ASSUME d.pc = "commit", d.to # None
        PROVE  Graft(cm \cup {SelfRow(d.id)}, d.id, d.to) = Graft(cl \cup {SelfRow(d.id)}, d.id, d.to)
    <3>1. d.to \in Persons /\ st[d.to] = "live" /\ d.id = b.id
      BY <2>1, <2>5 DEF CreateSees, Same, Requests, Maybe
    <3>2. q.to # None => st[q.to] = "live"
      BY <2>1, <2>2 DEF CreateSees
    <3>3. cm = cl \cup {SelfRow(q.id)} \cup
               (IF q.to = None THEN {} ELSE Graft(cl \cup {SelfRow(q.id)}, q.id, q.to))
      BY <1>1, <2>1, <2>2 DEF Committed, Seen, CreateSees
    <3>4. cl \subseteq Row /\ Born(st, cl)
      BY DEF Good, Typed
    <3>5. PICK p \in Persons, s \in Persons, f \in Maybe, g \in Persons :
            p = d.id /\ s = q.id /\ f = q.to /\ g = d.to
      BY <2>2, <3>1 DEF Requests
    <3>6. /\ st[p] = "unborn" /\ st[s] = "unborn" /\ s # p /\ st[g] = "live"
          /\ f # p /\ f # s
      BY <2>2, <3>1, <3>2, <3>5, NoneIsNoOp
    <3>7. \A x \in cm \ cl : x = SelfRow(s) \/ x \in Graft(cl \cup {SelfRow(s)}, s, f)
      BY <3>3, <3>5
    <3>8. \A x \in cm \ cl : x[2] = s /\ x[1] # p
      BY <3>4, <3>6, <3>7, RowsOfTheNew
    <3>9. cl \subseteq cm /\ g # s
      BY <3>3, <3>6
    <3>10. PICK one, two : one = cm \cup {SelfRow(p)} /\ two = cl \cup {SelfRow(p)}
      OBVIOUS
    <3>11. two \subseteq one /\ \A x \in one \ two : x[2] # g /\ x[1] # p
      BY <3>8, <3>9, <3>10
    <3>12. Graft(one, p, g) = Graft(two, p, g)
      BY <3>11, GraftStable
    <3>13. QED
      BY <3>5, <3>10, <3>12
  <2>6. d.pc = "commit" =>
          d.ins = {SelfRow(d.id)} \cup
                  (IF d.to = None THEN {} ELSE Graft(cm \cup {SelfRow(d.id)}, d.id, d.to))
    BY <2>1, <2>5 DEF CreateSees, Same
  <2>7. CreateSees(su, cm, d)
    BY <1>2, <2>1, <2>4, <2>6 DEF CreateSees, Same
  <2>8. QED
    BY <1>5, <2>7 DEF Sees, Same
<1>6. QED
  BY <1>3, <1>4, <1>5

LEMMA CommitKeeps == ASSUME LineageInv, NEW h \in Handlers, Commit(h) PROVE LineageInv'
<1>1. PICK q \in Requests, r \in Requests :
        /\ q = tx[h] /\ Committed(state, father, closure, q, state', father', closure')
        /\ r = (IF q.op = "rollback" THEN [Idle EXCEPT !.op = q.op, !.pc = "status"] ELSE Idle)
        /\ End(h, r, q.dels) /\ mixed' = mixed /\ version' \in [Persons -> Nat]
  BY CommitIs
<1>2. /\ tx \in [Handlers -> Requests] /\ OnCourse(state, q) /\ MindsSelves(state, q)
      /\ ~mixed => Sees(state, father, closure, q) /\ Good(state, father, closure)
      /\ Seen(closure, q) \subseteq Row
  BY <1>1, Known
<1>3. /\ tx' \in [Handlers -> Requests] /\ tx'[h] = r
      /\ \A g \in Handlers : g # h =>
           /\ Same(tx'[g], tx[g]) /\ tx'[g].pc = tx[g].pc /\ tx'[g].ins = tx[g].ins
           /\ tx'[g].dels = tx[g].dels \ q.dels
  <2>1. PICK gone : gone = q.dels
    OBVIOUS
  <2>2. End(h, r, gone)
    BY <1>1, <2>1
  <2>3. /\ tx' \in [Handlers -> Requests] /\ tx'[h] = r
        /\ \A g \in Handlers : g # h =>
             /\ Same(tx'[g], tx[g]) /\ tx'[g].pc = tx[g].pc /\ tx'[g].ins = tx[g].ins
             /\ tx'[g].dels = tx[g].dels \ gone
    BY <1>2, <2>2, EndPuts
  <2>4. QED
    BY <2>1, <2>3
<1>4. q.pc = "commit" /\ q.op # None
  BY <1>1, <1>2 DEF Committed, OnCourse
<1>5. /\ state' \in [Persons -> States] /\ Ages(state, state')
      /\ \A p \in Persons : p # q.id => state'[p] = state[p]
      /\ \A p \in Persons : SelfRow(p) \in closure' => state'[p] # "unborn"
      /\ \A p \in Persons : state'[p] = "live" => SelfRow(p) \in closure'
  <2>1. state \in [Persons -> States] /\ closure \in SUBSET Row
    BY DEF LineageInv, LineageTypeOK
  <2>2. /\ \A p \in Persons : SelfRow(p) \in closure => state[p] # "unborn"
        /\ \A p \in Persons : state[p] = "live" => SelfRow(p) \in closure
    BY DEF LineageInv, SelvesInv, EveryoneHasASelfRow, Live
  <2>3. Committed(state, father, closure, q, state', father', closure')
    BY <1>1
  <2>4. OnCourse(state, q) /\ MindsSelves(state, q)
    BY <1>2
  <2>5. QED
    BY <2>1, <2>2, <2>3, <2>4, CommitAges
<1>6. LineageTypeOK'
  <2>1. father' \in [Persons -> Maybe]
    <3>1. father \in [Persons -> Maybe] /\ q.to \in Maybe
      BY DEF LineageInv, LineageTypeOK, Requests
    <3>2. QED
      BY <1>1, <3>1 DEF Committed, Maybe
  <2>2. closure' \subseteq Row
    BY <1>1, <1>2 DEF Committed
  <2>3. QED
    BY <1>1, <1>3, <1>5, <2>1, <2>2 DEF LineageInv, LineageTypeOK
<1>7. /\ r.id = None /\ r.op \in {None, "rollback"}
      /\ \A st, fa, cl : OnCourse(st, r) /\ MindsSelves(st, r) /\ Sees(st, fa, cl, r)
      /\ q.op # "rollback" => r.pc = "idle"
  <2>1. CASE q.op = "rollback"
    <3>1. r = [Idle EXCEPT !.op = "rollback", !.pc = "status"]
      BY <1>1, <2>1
    <3>2. /\ r.id = None /\ r.op = "rollback" /\ r.pc = "status"
          /\ r.ins = {} /\ r.dels = {} /\ r.detached = {}
      BY <3>1 DEF Idle
    <3>3. QED
      BY <2>1, <3>2, NoneIsNoOp DEF OnCourse, MindsSelves, Sees, RollbackSees, Ops
  <2>2. CASE q.op # "rollback"
    BY <1>1, <2>2, IdleIs, IdleHolds
  <2>3. QED
    BY <2>1, <2>2
<1>8. SelvesInv'
  <2>1. EveryoneHasASelfRow'
    BY <1>5 DEF EveryoneHasASelfRow, Live
  <2>2. ASSUME NEW g \in Handlers, g # h PROVE OnCourse(state', tx'[g]) /\ MindsSelves(state', tx'[g])
    <3>1. PICK b \in Requests, d \in Requests : b = tx[g] /\ d = tx'[g]
      BY <1>2, <1>3
    <3>2. OnCourse(state, b) /\ MindsSelves(state, b)
      BY <3>1 DEF LineageInv, SelvesInv
    <3>3. b.op = "create" => state'[b.id] = "unborn"
      BY <1>1, <1>5, <2>2, <3>1, <3>2 DEF LineageInv, SelvesInv, OnCourse
    <3>4. Same(d, b) /\ d.pc = b.pc /\ d.ins = b.ins /\ d.dels \subseteq b.dels
      BY <1>3, <2>2, <3>1
    <3>5. state \in [Persons -> States]
      BY DEF LineageInv, LineageTypeOK
    <3>6. QED
      BY <1>5, <3>1, <3>2, <3>3, <3>4, <3>5, OthersHold
  <2>3. \A g \in Handlers : OnCourse(state', tx'[g]) /\ MindsSelves(state', tx'[g])
    BY <1>3, <1>7, <2>2
  <2>4. \A f, g \in Handlers : f # g /\ tx[f].op = "create" => tx[g].id # tx[f].id /\ tx[f].id \in Persons
    BY DEF LineageInv, SelvesInv, OnCourse
  <2>5. \A f, g \in Handlers : f # g /\ tx'[f].op = "create" => tx'[g].id # tx'[f].id
    BY <1>3, <1>7, <2>4, NoneIsNoOp DEF Same, Ops
  <2>6. QED
    BY <1>5, <2>1, <2>3, <2>5 DEF SelvesInv
<1>9. ASSUME ~mixed PROVE /\ Good(state', father', closure') /\ Alone'
                          /\ \A g \in Handlers : Sees(state', father', closure', tx'[g])
  <2>1. \A g \in Handlers : g # h /\ tx[g].pc # "idle" => {q.op, tx[g].op} \subseteq {"create", "gender"}
    BY <1>1, <1>4, <1>9 DEF LineageInv, ExactInv, Alone
  <2>2. Good(state', father', closure')
    BY <1>1, <1>2, <1>4, <1>9, CommitKeepsGood
  <2>3. Alone'
    <3>1. \A f, g \in Handlers : f # g /\ tx[f].pc # "idle" /\ tx[g].pc # "idle" =>
            {tx[f].op, tx[g].op} \subseteq {"create", "gender"}
      BY <1>9 DEF LineageInv, ExactInv, Alone
    <3>2. q.op = "rollback" => \A g \in Handlers : g # h => tx'[g].pc = "idle"
      BY <1>3, <2>1
    <3>3. QED
      BY <1>3, <1>7, <3>1, <3>2 DEF Alone, Same
  <2>4. ASSUME NEW g \in Handlers, g # h PROVE Sees(state', father', closure', tx'[g])
    <3>1. PICK b \in Requests, d \in Requests : b = tx[g] /\ d = tx'[g]
      BY <1>2, <1>3
    <3>2. OnCourse(state, b) /\ Sees(state, father, closure, b)
      BY <1>9, <3>1 DEF LineageInv, SelvesInv, ExactInv
    <3>3. Same(d, b) /\ d.pc = b.pc /\ d.ins = b.ins /\ d.dels = b.dels \ q.dels
      BY <1>3, <2>4, <3>1
    <3>4. CASE b.pc = "idle"
      <4>1. d.op = None
        BY <3>2, <3>3, <3>4 DEF OnCourse, Same
      <4>2. QED
        BY <3>1, <4>1, NoneIsNoOp DEF Sees, Ops
    <3>5. CASE b.pc # "idle"
      <4>1. q.op \in {"create", "gender"} /\ b.op \in {"create", "gender"}
        BY <2>1, <2>4, <3>1, <3>5
      <4>2. b.op = "create" => q.id # b.id
        BY <1>1, <2>4, <3>1 DEF LineageInv, SelvesInv
      <4>3. QED
        BY <1>1, <1>2, <1>9, <3>1, <3>2, <3>3, <4>1, <4>2, CommitSparesCreations
    <3>6. QED
      BY <3>4, <3>5
  <2>5. QED
    BY <1>3, <1>7, <2>2, <2>3, <2>4
<1>10. QED
  BY <1>1, <1>6, <1>8, <1>9 DEF LineageInv, ExactInv

-----------------------------------------------------------------------------
(* The specification *)

LEMMA InitHolds == Init => LineageInv
<1> SUFFICES ASSUME Init PROVE LineageInv
  OBVIOUS
<1>1. /\ state \in [Persons -> {"unborn", "live"}] /\ father \in InitialFathers
      /\ \A p \in Persons : father[p] # None => state[p] = "live" /\ state[father[p]] = "live"
      /\ closure = Rebuilt(state, father)
      /\ tx = [h \in Handlers |-> Idle] /\ version = [p \in Persons |-> 1] /\ mixed = FALSE
  BY DEF Init, Live, Rebuilt
<1>2. father \in [Persons -> Maybe] /\ Rooted([p \in Persons |-> "live"], father)
  BY <1>1, ConstantsOK DEF Maybe
<1>3. Linked(state, father)
  BY <1>1, <1>2 DEF Linked, Fathers, States, Maybe
<1>4. Good(state, father, closure)
  BY <1>1, <1>2, <1>3, RootedAmongAll, RebuiltIsGood
<1>5. Typed(state, father, closure)
  BY <1>4 DEF Good
<1>6. LineageTypeOK
  <2>1. tx \in [Handlers -> Requests]
    BY <1>1, IdleIs
  <2>2. QED
    BY <1>1, <1>2, <1>5, <2>1 DEF LineageTypeOK, Typed
<1>7. \A h \in Handlers : tx[h] = Idle
  BY <1>1
<1>8. SelvesInv
  <2>1. \A p \in Persons : SelfRow(p) \in closure => state[p] # "unborn"
    BY <1>4 DEF Good, Born, SelfRow
  <2>2. EveryoneHasASelfRow
    BY <1>4 DEF Good, Lines, Zero, Line, EveryoneHasASelfRow, Live, SelfRow
  <2>3. \A h \in Handlers : OnCourse(state, tx[h]) /\ MindsSelves(state, tx[h])
    BY <1>7, IdleHolds
  <2>4. \A h \in Handlers : tx[h].op # "create"
    BY <1>7, IdleIs, NoneIsNoOp DEF Ops
  <2>5. QED
    BY <2>1, <2>2, <2>3, <2>4 DEF SelvesInv
<1>9. ExactInv
  <2>1. Alone
    BY <1>7, IdleIs DEF Alone
  <2>2. \A h \in Handlers : Sees(state, father, closure, tx[h])
    BY <1>7, IdleHolds
  <2>3. QED
    BY <1>4, <2>1, <2>2 DEF ExactInv
<1>10. QED
  BY <1>6, <1>8, <1>9 DEF LineageInv

LEMMA ContinueKeeps == ASSUME LineageInv, NEW h \in Handlers, Continue(h) PROVE LineageInv'
<1>1. CASE Parents(h) \/ Cycle(h) \/ InsertSelf(h) \/ StripRows(h) \/ GraftRows(h) \/ WriteRow(h)
  BY <1>1, ParentsKeep, CycleKeeps, InsertSelfKeeps, StripKeeps, GraftKeeps, WriteRowKeeps
<1>2. CASE Children(h) \/ Unlink(h) \/ DropRows(h) \/ \E c \in Persons : Detach(h, c)
  BY <1>2, ChildrenKeep, UnlinkKeeps, DropRowsKeeps, DetachKeeps
<1>3. CASE Blockers(h) \/ WithdrawBatch(h) \/ Wipe(h) \/ InsertSelves(h) \/ InsertWalk(h)
  BY <1>3, BlockersKeep, WithdrawBatchKeeps, WipeKeeps, InsertSelvesKeeps, InsertWalkKeeps
<1>4. CASE SetRolledBack(h) \/ Commit(h) \/ FailOnKey(h)
  BY <1>4, GiveUpKeeps, CommitKeeps
<1>5. QED
  BY <1>1, <1>2, <1>3, <1>4, Zenon DEF Continue

LEMMA StutterKeeps == ASSUME LineageInv, UNCHANGED vars PROVE LineageInv'
<1>1. /\ state' = state /\ father' = father /\ closure' = closure /\ version' = version
      /\ tx' = tx /\ mixed' = mixed
  BY DEF vars, persons
<1>2. LineageTypeOK'
  BY <1>1 DEF LineageInv, LineageTypeOK
<1>3. SelvesInv'
  BY <1>1 DEF LineageInv, SelvesInv, EveryoneHasASelfRow, Live
<1>4. ExactInv'
  BY <1>1 DEF LineageInv, ExactInv, Alone
<1>5. QED
  BY <1>2, <1>3, <1>4 DEF LineageInv

LEMMA NextKeeps == LineageInv /\ [Next]_vars => LineageInv'
<1> SUFFICES ASSUME LineageInv, [Next]_vars PROVE LineageInv'
  OBVIOUS
<1>1. CASE \E h \in Handlers : Start(h) \/ Continue(h) \/ Abort(h)
  BY <1>1, StartKeeps, ContinueKeeps, GiveUpKeeps
<1>2. CASE UNCHANGED vars
  BY <1>2, StutterKeeps
<1>3. QED
  BY <1>1, <1>2, Zenon DEF Next

LEMMA SpecLineageInv == Spec => []LineageInv
BY InitHolds, NextKeeps, PTL DEF Spec

\* However the statements of creations, moves, changes of gender, deletions and rebuilds
\* interleave, and wherever they break off, nobody alive loses his depth 0 row: insertSelfRow runs
\* in the transaction that inserts the person, moveSubtree never takes such a row, and a rebuild
\* puts back every one it wipes.
THEOREM NobodyLosesHisSelfRow == Spec => []EveryoneHasASelfRow
<1>1. LineageInv => EveryoneHasASelfRow
  BY DEF LineageInv, SelvesInv
<1>2. QED
  BY <1>1, SpecLineageInv, PTL

LEMMA ExactIsConsistent == LineageInv => CreatesNeedNoLock
<1> SUFFICES ASSUME LineageInv, ~mixed PROVE Consistent
  BY DEF CreatesNeedNoLock
<1>1. Good(state, father, closure)
  BY DEF LineageInv, ExactInv
<1>2. QED
  BY <1>1, ConsistentIsGood DEF Good

\* createInTx and a change of gender take no lock and need none: while only they overlap, the
\* table records the fathers exactly after every commit.
THEOREM CreationsNeedNoLock == Spec => []CreatesNeedNoLock
BY ExactIsConsistent, SpecLineageInv, PTL

\* One request at a time: nothing ever overlaps.
LEMMA AloneNeverMixes ==
  (\E h : Handlers = {h}) => (~mixed /\ [Next]_vars => ~mixed')
<1> SUFFICES ASSUME NEW h, Handlers = {h}, ~mixed, [Next]_vars PROVE ~mixed'
  OBVIOUS
<1>1. CASE UNCHANGED vars
  BY <1>1 DEF vars
<1>2. ASSUME NEW op, NEW r, Begin(h, op, r) PROVE ~mixed'
  <2>1. tx[h].pc = "idle" /\ mixed' = (mixed \/ \E g \in Handlers : /\ tx[g].pc # "idle"
                                        /\ ~{op, tx[g].op} \subseteq {"create", "gender"})
    BY <1>2, Zenon DEF Begin
  <2>2. ~\E g \in Handlers : tx[g].pc # "idle"
    BY <2>1
  <2>3. QED
    BY <2>1, <2>2
<1>3. CASE Start(h)
  BY <1>2, <1>3 DEF Start, StartCreate, StartRefather, StartGender, StartDelete, StartRollback
<1>4. CASE Abort(h)
  BY <1>4 DEF Abort, Rollback
<1>5. CASE Continue(h)
  <2>1. CASE Parents(h) \/ Cycle(h) \/ InsertSelf(h) \/ StripRows(h) \/ GraftRows(h)
    BY <2>1 DEF Parents, Cycle, Require, InsertSelf, StripRows, GraftRows
  <2>2. CASE WriteRow(h) \/ Blockers(h)
    BY <2>2 DEF WriteRow, Blockers, Require
  <2>3. CASE Children(h) \/ Unlink(h) \/ DropRows(h) \/ \E c \in Persons : Detach(h, c)
    BY <2>3 DEF Children, Unlink, DropRows, Detach
  <2>4. CASE WithdrawBatch(h) \/ Wipe(h) \/ InsertSelves(h) \/ InsertWalk(h) \/ SetRolledBack(h)
    BY <2>4 DEF WithdrawBatch, Wipe, InsertSelves, InsertWalk, SetRolledBack
  <2>5. CASE Commit(h) \/ FailOnKey(h)
    BY <2>5 DEF Commit, FailOnKey, Rollback
  <2>6. QED
    BY <1>5, <2>1, <2>2, <2>3, <2>4, <2>5, Zenon DEF Continue
<1>6. QED
  BY <1>1, <1>3, <1>4, <1>5 DEF Next

LEMMA SpecNeverMixes == (\E h : Handlers = {h}) => (Spec => []~mixed)
<1> SUFFICES ASSUME \E h : Handlers = {h} PROVE Spec => []~mixed
  OBVIOUS
<1>1. Init => ~mixed
  BY DEF Init
<1>2. ~mixed /\ [Next]_vars => ~mixed'
  BY AloneNeverMixes
<1>3. QED
  BY <1>1, <1>2, PTL DEF Spec

\* With requests one at a time, the statements of every operation of the lineage, broken off
\* wherever they may be, leave a table that records the fathers exactly.
THEOREM SerialTableIsExact == (\E h : Handlers = {h}) => (Spec => []Consistent)
<1>1. CreatesNeedNoLock /\ ~mixed => Consistent
  BY DEF CreatesNeedNoLock
<1>2. QED
  BY <1>1, CreationsNeedNoLock, SpecNeverMixes, PTL

\* One request at a time also keeps everybody from becoming an ancestor of his own: it is only
\* beside another move that the check of wouldCreateCycle can be overtaken.
THEOREM SerialForestHasNoCycle == (\E h : Handlers = {h}) => (Spec => []NobodyIsHisOwnAncestor)
<1>1. LineageInv /\ ~mixed => NobodyIsHisOwnAncestor
  BY GoodIsRooted DEF LineageInv, ExactInv, NobodyIsHisOwnAncestor
<1>2. QED
  BY <1>1, SpecLineageInv, SpecNeverMixes, PTL

-----------------------------------------------------------------------------
(* One request at a time implements the abstract table: its commit, or the    *)
(* withdrawal of a batch, is one of the table's operations, and every other   *)
(* statement of it changes nothing there.  For a deletion that takes more     *)
(* than an exact table to end with: the rows it has deleted one child after   *)
(* the other are those the operation deletes at once.                         *)

Cuts(st, fa, cl, r) ==
  r.op = "delete" =>
    /\ r.pc \in {"detach", "unlink", "drop"} => Seen(cl, r) = Unlinked(cl, Cut(r))
    /\ r.pc \in {"row", "commit"} =>
         /\ r.detached = {c \in Persons : st[c] = "live" /\ fa[c] = r.id}
         /\ Seen(cl, r) = Unlinked(cl, r.detached) \ RowsOf(cl, r.id)

CutsInv == Ordered(state, closure) /\ \A h \in Handlers : Cuts(state, father, closure, tx[h])

LEMMA NothingUnlinked == ASSUME NEW cl PROVE Unlinked(cl, {}) = cl
BY DEF Unlinked

LEMMA GoodHasSelves ==
  ASSUME NEW st, NEW fa, NEW cl, Good(st, fa, cl), NEW p \in Persons, st[p] = "live"
  PROVE  p \in Below(cl, p)
<1>1. Line(st, cl, p, p, 0)
  BY DEF Good, Lines, Zero
<1>2. QED
  BY <1>1 DEF Line, Below

\* A step that changes no person and no row.
LEMMA Stays ==
  ASSUME CutsInv, NEW h, Handlers = {h}, UNCHANGED <<state, father, closure>>,
         Cuts(state, father, closure, tx'[h])
  PROVE  CutsInv' /\ [Table!Next]_(Table!vars)
<1>1. CutsInv'
  BY DEF CutsInv
<1>2. UNCHANGED Table!vars
  BY DEF Table!vars
<1>3. QED
  BY <1>1, <1>2

\* A request that is over, or that deletes nobody.
LEMMA OthersStay ==
  ASSUME CutsInv, NEW h, Handlers = {h}, UNCHANGED <<state, father, closure>>,
         tx'[h].op # "delete" \/ tx'[h].pc = "children"
  PROVE  CutsInv' /\ [Table!Next]_(Table!vars)
<1>1. Cuts(state, father, closure, tx'[h])
  BY DEF Cuts
<1>2. QED
  BY <1>1, Stays

LEMMA StartStays ==
  ASSUME LineageInv, CutsInv, NEW h, Handlers = {h}, Start(h)
  PROVE  CutsInv' /\ [Table!Next]_(Table!vars)
<1>1. ASSUME NEW op, NEW q, Begin(h, op, q), op # "delete" \/ q.pc = "children", q.pc \in Steps,
             [q EXCEPT !.op = op].op = op, [q EXCEPT !.op = op].pc = q.pc
      PROVE  CutsInv' /\ [Table!Next]_(Table!vars)
  <2>1. UNCHANGED <<state, father, closure>> /\ tx' = [tx EXCEPT ![h] = [q EXCEPT !.op = op]]
    BY <1>1 DEF Begin, persons
  <2>2. h \in Handlers /\ tx \in [Handlers -> Requests]
    BY DEF LineageInv, LineageTypeOK
  <2>3. tx'[h] = [q EXCEPT !.op = op]
    BY <2>1, <2>2
  <2>4. tx'[h].op # "delete" \/ tx'[h].pc = "children"
    BY <1>1, <2>3
  <2>5. QED
    BY <2>1, <2>4, OthersStay
<1>2. ASSUME NEW p \in Persons, NEW f \in Maybe, StartCreate(h, p, f)
      PROVE  CutsInv' /\ [Table!Next]_(Table!vars)
  <2>1. PICK q : q = [Idle EXCEPT !.pc = IF f = None THEN "self" ELSE "parents", !.id = p, !.to = f]
    OBVIOUS
  <2>2. /\ q.pc \in Steps
        /\ [q EXCEPT !.op = "create"].op = "create" /\ [q EXCEPT !.op = "create"].pc = q.pc
    BY <2>1 DEF Idle, Steps
  <2>3. QED
    BY <1>1, <1>2, <2>1, <2>2 DEF StartCreate
<1>3. ASSUME NEW p \in Persons, NEW f \in Maybe, StartRefather(h, p, f)
      PROVE  CutsInv' /\ [Table!Next]_(Table!vars)
  <2>1. PICK q : q = [Idle EXCEPT !.pc = IF f # None THEN "parents"
                                         ELSE IF father[p] = None THEN "row" ELSE "strip",
                                  !.id = p, !.to = f, !.base = version[p], !.seen = father[p]]
    OBVIOUS
  <2>2. /\ q.pc \in Steps
        /\ [q EXCEPT !.op = "refather"].op = "refather" /\ [q EXCEPT !.op = "refather"].pc = q.pc
    BY <2>1 DEF Idle, Steps
  <2>3. QED
    BY <1>1, <1>3, <2>1, <2>2 DEF StartRefather
<1>4. ASSUME NEW p \in Persons, StartGender(h, p) PROVE CutsInv' /\ [Table!Next]_(Table!vars)
  <2>1. PICK q : q = [Idle EXCEPT !.pc = "row", !.id = p, !.base = version[p]]
    OBVIOUS
  <2>2. /\ q.pc \in Steps
        /\ [q EXCEPT !.op = "gender"].op = "gender" /\ [q EXCEPT !.op = "gender"].pc = q.pc
    BY <2>1 DEF Idle, Steps
  <2>3. QED
    BY <1>1, <1>4, <2>1, <2>2 DEF StartGender
<1>5. ASSUME NEW p \in Persons, StartDelete(h, p) PROVE CutsInv' /\ [Table!Next]_(Table!vars)
  <2>1. PICK q : q = [Idle EXCEPT !.pc = "children", !.id = p]
    OBVIOUS
  <2>2. /\ q.pc \in Steps /\ q.pc = "children"
        /\ [q EXCEPT !.op = "delete"].op = "delete" /\ [q EXCEPT !.op = "delete"].pc = q.pc
    BY <2>1 DEF Idle, Steps
  <2>3. QED
    BY <1>1, <1>5, <2>1, <2>2 DEF StartDelete
<1>6. ASSUME StartRollback(h) PROVE CutsInv' /\ [Table!Next]_(Table!vars)
  <2>1. PICK q : q = [Idle EXCEPT !.pc = "blockers"]
    OBVIOUS
  <2>2. /\ q.pc \in Steps
        /\ [q EXCEPT !.op = "rollback"].op = "rollback" /\ [q EXCEPT !.op = "rollback"].pc = q.pc
    BY <2>1 DEF Idle, Steps
  <2>3. QED
    BY <1>1, <1>6, <2>1, <2>2 DEF StartRollback
<1>7. QED
  BY <1>2, <1>3, <1>4, <1>5, <1>6, Zenon DEF Start

\* A statement, or the end of the transaction, on the way of another operation.
LEMMA OtherStatements ==
  ASSUME LineageInv, CutsInv, NEW h, Handlers = {h},
         \/ Parents(h) \/ Cycle(h) \/ InsertSelf(h) \/ StripRows(h) \/ GraftRows(h)
         \/ Blockers(h) \/ Wipe(h) \/ InsertSelves(h) \/ InsertWalk(h)
         \/ Abort(h) \/ FailOnKey(h) \/ SetRolledBack(h)
  PROVE  CutsInv' /\ [Table!Next]_(Table!vars)
<1>1. PICK q \in Requests : q = tx[h]
  BY Known
<1>2. OnCourse(state, q) /\ tx \in [Handlers -> Requests]
  BY <1>1, Known
<1>3. ASSUME End(h, Idle, {}) PROVE tx'[h].op # "delete"
  <2>1. tx'[h] = Idle
    BY <1>2, <1>3, EndPuts, IdleIs
  <2>2. QED
    BY <2>1, IdleIs, NoneIsNoOp DEF Ops
<1>4. UNCHANGED <<state, father, closure>>
  <2>1. CASE Parents(h) \/ Cycle(h) \/ Blockers(h)
    BY <2>1 DEF Parents, Cycle, Blockers, Require, persons
  <2>2. CASE InsertSelf(h) \/ StripRows(h) \/ GraftRows(h) \/ Wipe(h) \/ InsertSelves(h) \/ InsertWalk(h)
    BY <2>2 DEF InsertSelf, StripRows, GraftRows, Wipe, InsertSelves, InsertWalk, persons
  <2>3. CASE Abort(h) \/ FailOnKey(h) \/ SetRolledBack(h)
    BY <2>3 DEF Abort, FailOnKey, SetRolledBack, Rollback, persons
  <2>4. QED
    BY <2>1, <2>2, <2>3
<1>5. CASE Abort(h) \/ FailOnKey(h) \/ SetRolledBack(h)
  <2>1. End(h, Idle, {})
    BY <1>5 DEF Abort, FailOnKey, SetRolledBack, Rollback
  <2>2. QED
    BY <1>3, <1>4, <2>1, OthersStay
<1>6. ASSUME NEW pc, \/ Goto(h, pc)
                     \/ \E rows : DeleteRows(h, rows, pc)
                     \/ \E rows : InsertRows(h, rows, pc),
             q.op # "delete"
      PROVE  tx'[h].op # "delete"
  <2>1. tx'[h].op = tx[h].op
    <3>1. PICK f : f = tx[h]
      OBVIOUS
    <3>2. f \in Requests
      BY <1>1, <3>1
    <3>3. CASE Goto(h, pc)
      BY <1>2, <3>1, <3>2, <3>3 DEF Goto, Requests
    <3>4. CASE \E rows : DeleteRows(h, rows, pc)
      BY <1>2, <3>1, <3>2, <3>4 DEF DeleteRows, Requests
    <3>5. CASE \E rows : InsertRows(h, rows, pc)
      BY <1>2, <3>1, <3>2, <3>5 DEF InsertRows, Requests
    <3>6. QED
      BY <1>6, <3>3, <3>4, <3>5
  <2>2. QED
    BY <1>1, <1>6, <2>1
<1>7. CASE Parents(h) \/ Cycle(h) \/ Blockers(h)
  <2>1. q.pc \in {"parents", "cycle", "blockers"}
    BY <1>1, <1>7 DEF Parents, Cycle, Blockers, At
  <2>2. q.op # "delete"
    BY <1>2, <2>1 DEF OnCourse
  <2>3. (\E pc : Goto(h, pc)) \/ End(h, Idle, {})
    BY <1>7, Zenon DEF Parents, Cycle, Blockers, Require
  <2>4. QED
    BY <1>3, <1>4, <1>6, <2>2, <2>3, OthersStay
<1>8. CASE InsertSelf(h) \/ StripRows(h) \/ GraftRows(h) \/ Wipe(h) \/ InsertSelves(h) \/ InsertWalk(h)
  <2>1. q.pc \in {"self", "strip", "graft", "wipe", "selves", "walk"}
    BY <1>1, <1>8 DEF InsertSelf, StripRows, GraftRows, Wipe, InsertSelves, InsertWalk, At
  <2>2. q.op # "delete"
    BY <1>2, <2>1 DEF OnCourse
  <2>3. \E pc, rows : DeleteRows(h, rows, pc) \/ InsertRows(h, rows, pc)
    BY <1>8, Zenon DEF InsertSelf, StripRows, GraftRows, Wipe, InsertSelves, InsertWalk
  <2>4. QED
    BY <1>4, <1>6, <2>2, <2>3, OthersStay
<1>9. QED
  BY <1>5, <1>7, <1>8

LEMMA WriteRowStays ==
  ASSUME LineageInv, CutsInv, NEW h, Handlers = {h}, WriteRow(h)
  PROVE  CutsInv' /\ [Table!Next]_(Table!vars)
<1>1. PICK q \in Requests : q = tx[h]
  BY Known
<1>2. tx \in [Handlers -> Requests] /\ q.pc = "row" /\ UNCHANGED <<state, father, closure>>
  BY <1>1, Known DEF WriteRow, At, Require, persons
<1>3. Goto(h, "commit") \/ End(h, Idle, {})
  BY Zenon DEF WriteRow, Require
<1>4. CASE End(h, Idle, {})
  <2>1. tx'[h] = Idle
    BY <1>2, <1>4, EndPuts, IdleIs
  <2>2. tx'[h].op # "delete"
    BY <2>1, IdleIs, NoneIsNoOp DEF Ops
  <2>3. QED
    BY <1>2, <2>2, OthersStay
<1>5. CASE Goto(h, "commit")
  <2>1. PICK r \in Requests : /\ Becomes(h, r) /\ Same(r, q) /\ r.pc = "commit"
                              /\ r.dels = q.dels /\ r.ins = q.ins
    BY <1>1, <1>2, <1>5, GotoPuts DEF Steps
  <2>2. tx'[h] = r
    BY <1>2, <2>1 DEF Becomes
  <2>3. Cuts(state, father, closure, q)
    BY <1>1 DEF CutsInv
  <2>4. Cuts(state, father, closure, r)
    BY <1>2, <2>1, <2>3 DEF Cuts, Same, Seen
  <2>5. QED
    BY <1>2, <2>2, <2>4, Stays
<1>6. QED
  BY <1>3, <1>4, <1>5

LEMMA ChildrenStay ==
  ASSUME LineageInv, ~mixed, CutsInv, NEW h, Handlers = {h}, Children(h)
  PROVE  CutsInv' /\ [Table!Next]_(Table!vars)
<1>1. PICK q \in Requests : q = tx[h]
  BY Known
<1>2. PICK found \in SUBSET Persons : found = {c \in Live : father[c] = q.id}
  BY DEF Live
<1>3. PICK r : r = [q EXCEPT !.todo = found, !.pc = IF found = {} THEN "drop" ELSE "detach"]
  OBVIOUS
<1>4. /\ r.pc \in {"drop", "detach"} /\ r.op = q.op
      /\ r.detached = q.detached /\ r.dels = q.dels /\ r.ins = q.ins
  BY <1>3 DEF Requests
<1>5. /\ q.pc = "children" /\ UNCHANGED <<state, father, closure>>
      /\ tx \in [Handlers -> Requests] /\ OnCourse(state, q) /\ Sees(state, father, closure, q)
  BY <1>1, Known DEF Children, At, persons
<1>6. tx'[h] = r
  BY <1>1, <1>2, <1>3, <1>5 DEF Children
<1>7. q.op = "delete"
  BY <1>5 DEF OnCourse, Requests, Ops
<1>8. q.detached = {} /\ NothingYet(q)
  BY <1>5, <1>7 DEF Sees, DeleteSees
<1>9. Cut(r) = {} /\ Seen(closure, r) = closure
  BY <1>4, <1>8 DEF Cut, Seen, NothingYet
<1>10. Cuts(state, father, closure, r)
  BY <1>4, <1>9, NothingUnlinked DEF Cuts
<1>11. QED
  BY <1>5, <1>6, <1>10, Stays

LEMMA DetachStays ==
  ASSUME LineageInv, ~mixed, CutsInv, NEW h, Handlers = {h}, NEW c \in Persons, Detach(h, c)
  PROVE  CutsInv' /\ [Table!Next]_(Table!vars)
<1>1. PICK q \in Requests : q = tx[h]
  BY Known
<1>2. PICK r : r = [q EXCEPT !.detached = q.detached \cup {c}, !.child = c,
                             !.todo = q.todo \ {c}, !.pc = "unlink"]
  OBVIOUS
<1>3. /\ r.pc = "unlink" /\ r.child = c /\ r.detached = q.detached \cup {c}
      /\ r.op = q.op /\ r.dels = q.dels /\ r.ins = q.ins
  BY <1>2 DEF Requests
<1>4. /\ q.pc = "detach" /\ c \in q.todo /\ UNCHANGED <<state, father, closure>>
      /\ tx \in [Handlers -> Requests] /\ OnCourse(state, q) /\ Sees(state, father, closure, q)
  BY <1>1, Known DEF Detach, At, persons
<1>5. tx'[h] = r
  BY <1>1, <1>2, <1>4 DEF Detach
<1>6. q.op = "delete"
  BY <1>4 DEF OnCourse, Requests, Ops
<1>7. c \notin q.detached
  BY <1>4, <1>6 DEF Sees, DeleteSees
<1>8. Cut(r) = Cut(q) /\ Seen(closure, r) = Seen(closure, q)
  BY <1>3, <1>4, <1>7 DEF Cut, Seen
<1>9. Cuts(state, father, closure, q)
  BY <1>1 DEF CutsInv
<1>10. Cuts(state, father, closure, r)
  BY <1>3, <1>4, <1>8, <1>9 DEF Cuts
<1>11. QED
  BY <1>4, <1>5, <1>10, Stays

LEMMA UnlinkStays ==
  ASSUME LineageInv, ~mixed, CutsInv, NEW h, Handlers = {h}, Unlink(h)
  PROVE  CutsInv' /\ [Table!Next]_(Table!vars)
<1>1. PICK q \in Requests : q = tx[h]
  BY Known
<1>2. PICK pc : pc = IF q.todo = {} THEN "drop" ELSE "detach"
  OBVIOUS
<1>3. PICK v \in SUBSET Row : v = View(h)
  BY Known
<1>4. PICK rows \in SUBSET Row : rows = Strip(v, q.child)
  BY NoSelfRows
<1>5. /\ q.pc = "unlink" /\ DeleteRows(h, rows, pc) /\ pc \in Steps /\ pc \in {"drop", "detach"}
      /\ UNCHANGED <<state, father, closure>>
  BY <1>1, <1>2, <1>3, <1>4 DEF Unlink, At, Steps, persons
<1>6. /\ tx \in [Handlers -> Requests] /\ OnCourse(state, q) /\ v = Seen(closure, q)
      /\ Sees(state, father, closure, q) /\ Good(state, father, closure)
  BY <1>1, <1>3, Known
<1>7. q.op = "delete" /\ q.id \in Persons
  BY <1>5, <1>6 DEF OnCourse, Requests, Ops
<1>8. PICK r \in Requests : /\ Becomes(h, r) /\ Same(r, q) /\ r.pc = pc
                            /\ r.dels = q.dels \cup (rows \ q.ins) /\ r.ins = q.ins \ rows
  BY <1>1, <1>5, <1>6, DeletePuts
<1>9. tx'[h] = r
  BY <1>6, <1>8 DEF Becomes
<1>10. /\ state[q.id] = "live" /\ q.ins = {} /\ q.child \in q.detached
       /\ \A c \in q.detached : c \in Persons /\ state[c] = "live" /\ father[c] = q.id
  BY <1>5, <1>6, <1>7 DEF Sees, DeleteSees
<1>11. PICK S, c, p : S = Cut(q) /\ c = q.child /\ p = q.id /\ p \in Persons
  BY <1>7
<1>12. S = q.detached \ {c} /\ v = Unlinked(closure, S)
  BY <1>1, <1>5, <1>6, <1>7, <1>11 DEF CutsInv, Cuts, Cut
<1>13. PICK st, fa, cl : st = state /\ fa = father /\ cl = closure
  OBVIOUS
<1>14. ASSUME NEW e \in S PROVE Below(cl, c) \cap Below(cl, e) = {}
  <2>1. /\ c \in Persons /\ st[c] = "live" /\ fa[c] = p /\ st[p] = "live" /\ p \in Persons
        /\ e \in Persons /\ st[e] = "live" /\ fa[e] = p /\ c # e
    BY <1>10, <1>11, <1>12, <1>13, <1>14
  <2>2. Ordered(st, cl) /\ Good(st, fa, cl)
    BY <1>6, <1>13 DEF CutsInv
  <2>3. QED
    BY <2>1, <2>2, SiblingsApart
<1>15. v \ Strip(v, c) = Unlinked(closure, S \cup {c})
  <2>1. \A e \in S, d \in Persons : ~(d \in Below(cl, c) /\ d \in Below(cl, e))
    BY <1>14
  <2>2. Unlinked(cl, S) \ Strip(Unlinked(cl, S), c) = Unlinked(cl, S \cup {c})
    BY <2>1, UnlinkOneMore
  <2>3. QED
    BY <1>12, <1>13, <2>2
<1>16. Seen(closure, r) = v \ Strip(v, c)
  BY <1>4, <1>6, <1>8, <1>10, <1>11 DEF Seen
<1>17. Cut(r) = S \cup {c}
  BY <1>5, <1>8, <1>10, <1>11, <1>12 DEF Cut, Same
<1>18. Cuts(state, father, closure, r)
  BY <1>5, <1>8, <1>15, <1>16, <1>17 DEF Cuts
<1>19. QED
  BY <1>5, <1>9, <1>18, Stays

LEMMA DropRowsStays ==
  ASSUME LineageInv, ~mixed, CutsInv, NEW h, Handlers = {h}, DropRows(h)
  PROVE  CutsInv' /\ [Table!Next]_(Table!vars)
<1>1. PICK q \in Requests : q = tx[h]
  BY Known
<1>2. PICK v \in SUBSET Row : v = View(h)
  BY Known
<1>3. PICK rows \in SUBSET Row : rows = RowsOf(v, q.id)
  BY NoSelfRows
<1>4. /\ q.pc = "drop" /\ DeleteRows(h, rows, "row") /\ "row" \in Steps
      /\ UNCHANGED <<state, father, closure>>
  BY <1>1, <1>2, <1>3 DEF DropRows, At, Steps, persons
<1>5. /\ tx \in [Handlers -> Requests] /\ OnCourse(state, q) /\ v = Seen(closure, q)
      /\ Sees(state, father, closure, q)
  BY <1>1, <1>2, Known
<1>6. q.op = "delete" /\ q.id \in Persons
  BY <1>4, <1>5 DEF OnCourse, Requests, Ops
<1>7. PICK r \in Requests : /\ Becomes(h, r) /\ Same(r, q) /\ r.pc = "row"
                            /\ r.dels = q.dels \cup (rows \ q.ins) /\ r.ins = q.ins \ rows
  BY <1>1, <1>4, <1>5, DeletePuts
<1>8. tx'[h] = r
  BY <1>5, <1>7 DEF Becomes
<1>9. /\ q.ins = {}
      /\ q.detached = {c \in Persons : state[c] = "live" /\ father[c] = q.id}
  BY <1>4, <1>5, <1>6 DEF Sees, DeleteSees
<1>10. v = Unlinked(closure, q.detached)
  BY <1>1, <1>4, <1>5, <1>6 DEF CutsInv, Cuts, Cut
<1>11. v \ RowsOf(v, q.id) = Unlinked(closure, q.detached) \ RowsOf(closure, q.id)
  BY <1>10 DEF RowsOf, Unlinked
<1>12. Seen(closure, r) = v \ RowsOf(v, q.id)
  BY <1>3, <1>5, <1>7, <1>9 DEF Seen
<1>13. Cuts(state, father, closure, r)
  BY <1>7, <1>9, <1>11, <1>12 DEF Cuts, Same
<1>14. QED
  BY <1>4, <1>8, <1>13, Stays

\* The first transaction of a rollback is the withdrawal of the batch.
LEMMA WithdrawBatchMaps ==
  ASSUME LineageInv, ~mixed, CutsInv, NEW h, Handlers = {h}, WithdrawBatch(h)
  PROVE  CutsInv' /\ [Table!Next]_(Table!vars)
<1>1. PICK q \in Requests : q = tx[h]
  BY Known
<1>2. /\ q.pc = "withdraw" /\ Goto(h, "wipe") /\ UNCHANGED <<father, closure>>
      /\ state' = [p \in Persons |-> IF p \in Imported /\ p \in Live THEN "deleted" ELSE state[p]]
  BY <1>1 DEF WithdrawBatch, At
<1>3. /\ tx \in [Handlers -> Requests] /\ OnCourse(state, q)
      /\ Sees(state, father, closure, q) /\ state \in [Persons -> States]
  BY <1>1, Known DEF LineageInv, LineageTypeOK
<1>4. q.op = "rollback"
  BY <1>2, <1>3 DEF OnCourse, Requests, Ops
<1>5. PICK r \in Requests : Becomes(h, r) /\ Same(r, q)
  BY <1>1, <1>2, <1>3, GotoPuts DEF Steps
<1>6. tx'[h] = r /\ r.op = "rollback"
  BY <1>3, <1>4, <1>5 DEF Becomes, Same
<1>7. Cuts(state', father', closure', tx'[h])
  BY <1>6 DEF Cuts
<1>8. Ordered(state', closure')
  BY <1>2 DEF CutsInv, Ordered
<1>9. \A c \in Persons \ Imported : state[c] = "live" => father[c] \notin Imported
  BY <1>2, <1>3, <1>4 DEF Sees, RollbackSees
<1>10. Table!Withdraw(Imported)
  BY <1>2, <1>9 DEF Table!Withdraw, Table!Live, Live
<1>11. Imported \in SUBSET Persons
  BY ConstantsOK
<1>12. Table!Next
  BY <1>10, <1>11 DEF Table!Next
<1>13. QED
  BY <1>7, <1>8, <1>12 DEF CutsInv

\* A commit leaves the request over, or a rollback before its last transaction.
LEMMA CommitEnds ==
  ASSUME LineageInv, NEW h, Handlers = {h}, Commit(h), NEW q \in Requests, q = tx[h]
  PROVE  /\ Committed(state, father, closure, q, state', father', closure') /\ tx'[h].op # "delete"
         /\ q.op # None
<1>1. PICK b, r \in Requests :
        /\ b = tx[h] /\ Committed(state, father, closure, b, state', father', closure')
        /\ r = (IF b.op = "rollback" THEN [Idle EXCEPT !.op = b.op, !.pc = "status"] ELSE Idle)
        /\ End(h, r, b.dels)
  BY CommitIs
<1>2. tx'[h] = r
  BY <1>1, EndPuts, Known
<1>3. [Idle EXCEPT !.op = "rollback", !.pc = "status"].op = "rollback"
  BY DEF Idle
<1>4. r.op # "delete"
  BY <1>1, <1>3, IdleIs, NoneIsNoOp DEF Ops
<1>5. q.op # None
  BY <1>1, Known DEF OnCourse, Committed
<1>6. QED
  BY <1>1, <1>2, <1>4, <1>5

\* The commit of an operation is that operation of the table.
LEMMA CreateCommits ==
  ASSUME NEW st, NEW fa, NEW cl, NEW q \in Requests, NEW su, NEW fb, NEW cm,
         Committed(st, fa, cl, q, su, fb, cm), OnCourse(st, q), Good(st, fa, cl),
         CreateSees(st, cl, q), q.op = "create", Ordered(st, cl)
  PROVE  /\ Ordered(su, cm)
         /\ \E p \in Persons, f \in Persons \cup {None} :
              /\ st[p] = "unborn" /\ (f # None => st[f] = "live")
              /\ su = [st EXCEPT ![p] = "live"] /\ fb = [fa EXCEPT ![p] = f]
              /\ cm = Under(cl \cup {SelfRow(p)}, p, f)
<1>1. /\ st \in [Persons -> States] /\ fa \in [Persons -> Maybe] /\ cl \in SUBSET Row /\ Born(st, cl)
      /\ q.to \in Maybe /\ q.pc = "commit" /\ cm = Seen(cl, q)
  BY DEF Good, Typed, Maybe, Requests, Committed
<1>2. /\ q.id \in Persons /\ st[q.id] = "unborn" /\ (q.to # None => st[q.to] = "live")
      /\ q.dels = {} /\ q.detached = {}
      /\ q.ins = {SelfRow(q.id)} \cup
                   (IF q.to = None THEN {} ELSE Graft(cl \cup {SelfRow(q.id)}, q.id, q.to))
  BY <1>1 DEF OnCourse, CreateSees
<1>3. PICK p \in Persons, f \in Persons \cup {None} : p = q.id /\ f = q.to
  BY <1>1, <1>2 DEF Maybe
<1>4. su = [st EXCEPT ![p] = "live"]
  BY <1>3 DEF Committed
<1>5. fb = [fa EXCEPT ![p] = f]
  BY <1>1, <1>2, <1>3 DEF Committed
<1>6. cm = Under(cl \cup {SelfRow(p)}, p, f)
  BY <1>1, <1>2, <1>3 DEF Seen, Under
<1>7. st[p] = "unborn" /\ (f # None => st[f] = "live")
  BY <1>2, <1>3
<1>8. Ordered([st EXCEPT ![p] = "live"], Under(cl \cup {SelfRow(p)}, p, f))
  BY <1>1, <1>7, CreateKeepsOrdered
<1>9. QED
  BY <1>4, <1>5, <1>6, <1>7, <1>8

LEMMA RefatherCommits ==
  ASSUME NEW st, NEW fa, NEW cl, NEW q \in Requests, NEW su, NEW fb, NEW cm,
         Committed(st, fa, cl, q, su, fb, cm), OnCourse(st, q), Good(st, fa, cl),
         RefatherSees(st, fa, cl, q), q.op = "refather", Ordered(st, cl)
  PROVE  /\ Ordered(su, cm)
         /\ \/ su = st /\ fb = fa /\ cm = cl
            \/ \E p \in Persons, f \in Persons \cup {None} :
                 /\ st[p] = "live" /\ (f # None => st[f] = "live" /\ ~WouldCreateCycle(cl, p, f))
                 /\ su = st /\ fb = [fa EXCEPT ![p] = f] /\ cm = Under(cl \ Strip(cl, p), p, f)
<1>1. /\ fa \in [Persons -> Maybe] /\ cl \in SUBSET Row
      /\ q.to \in Maybe /\ q.pc = "commit" /\ cm = Seen(cl, q)
  BY DEF Good, Typed, Maybe, Requests, Committed
<1>2. q.detached = {} /\ st[q.id] = "live" /\ q.id \in Persons
  BY DEF RefatherSees, OnCourse
<1>3. PICK p \in Persons, f \in Persons \cup {None} : p = q.id /\ f = q.to
  BY <1>1, <1>2 DEF Maybe
<1>4. su = st /\ fb = [fa EXCEPT ![p] = f]
  BY <1>1, <1>2, <1>3 DEF Committed
<1>5. CASE NothingYet(q) /\ q.to = fa[q.id]
  <2>1. cm = cl /\ fb = fa
    BY <1>1, <1>3, <1>4, <1>5 DEF NothingYet, Seen
  <2>2. QED
    BY <1>4, <2>1
<1>6. CASE Suits(st, cl, q.id, q.to) /\ Seen(cl, q) = Under(cl \ Strip(cl, q.id), q.id, q.to)
  <2>1. st[p] = "live" /\ p \in Below(cl, p)
    BY <1>2, <1>3, GoodHasSelves
  <2>2. f # None => st[f] = "live" /\ f \notin Below(cl, p)
    BY <1>3, <1>6 DEF Suits
  <2>3. f # None => ~WouldCreateCycle(cl, p, f)
    BY <2>1, <2>2 DEF WouldCreateCycle
  <2>4. Ordered(st, Under(cl \ Strip(cl, p), p, f))
    BY <1>1, <2>1, <2>2, MoveKeepsOrdered
  <2>5. cm = Under(cl \ Strip(cl, p), p, f)
    BY <1>1, <1>3, <1>6
  <2>6. QED
    BY <1>4, <2>1, <2>2, <2>3, <2>4, <2>5
<1>7. QED
  BY <1>1, <1>5, <1>6 DEF RefatherSees

LEMMA DeleteCommits ==
  ASSUME NEW st, NEW fa, NEW cl, NEW q \in Requests, NEW su, NEW fb, NEW cm,
         Committed(st, fa, cl, q, su, fb, cm), OnCourse(st, q), Good(st, fa, cl),
         DeleteSees(st, fa, cl, q), Cuts(st, fa, cl, q), q.op = "delete", Ordered(st, cl)
  PROVE  /\ Ordered(su, cm)
         /\ \E p \in Persons : \E children :
              /\ children = {c \in Persons : st[c] = "live" /\ fa[c] = p}
              /\ st[p] = "live" /\ su = [st EXCEPT ![p] = "deleted"]
              /\ fb = [c \in Persons |-> IF c \in children THEN None ELSE fa[c]]
              /\ cm = Unlinked(cl, children) \ RowsOf(cl, p)
<1>1. /\ st \in [Persons -> States] /\ q.pc = "commit" /\ cm = Seen(cl, q)
  BY DEF Good, Typed, Committed
<1>2. PICK p \in Persons : p = q.id /\ st[p] = "live"
  BY DEF OnCourse, DeleteSees
<1>3. PICK children \in SUBSET Persons : children = q.detached
  BY DEF Requests
<1>4. /\ children = {c \in Persons : st[c] = "live" /\ fa[c] = p}
      /\ cm = Unlinked(cl, children) \ RowsOf(cl, p)
  BY <1>1, <1>2, <1>3 DEF Cuts
<1>5. su = [st EXCEPT ![p] = "deleted"]
  BY <1>2 DEF Committed
<1>6. fb = [c \in Persons |-> IF c \in children THEN None ELSE fa[c]]
  BY <1>3 DEF Committed
<1>7. PICK v : v = Unlinked(cl, children)
  OBVIOUS
<1>8. Ordered(st, v)
  <2>1. \A c \in children : st[c] = "live"
    BY <1>4
  <2>2. QED
    BY <1>7, <2>1, UnlinkedKeepsOrdered
<1>9. Ordered([st EXCEPT ![p] = "deleted"], v \ RowsOf(v, p))
  BY <1>1, <1>8, DropKeepsOrdered
<1>10. v \ RowsOf(v, p) = cm
  BY <1>4, <1>7 DEF RowsOf, Unlinked
<1>11. QED
  BY <1>2, <1>4, <1>5, <1>6, <1>9, <1>10

LEMMA RollbackCommits ==
  ASSUME NEW st, NEW fa, NEW cl, NEW q \in Requests, NEW su, NEW fb, NEW cm,
         Committed(st, fa, cl, q, su, fb, cm), Good(st, fa, cl),
         RollbackSees(st, fa, cl, q), q.op = "rollback"
  PROVE  /\ su = st /\ fb = fa /\ Good(st, fa, cm) /\ Ordered(st, cm)
         /\ \A a, d \in Persons : \A n \in Nat : <<a, d, n>> \in cm => st[a] = "live" /\ st[d] = "live"
<1>1. q.pc = "commit" /\ cm = Seen(cl, q) /\ fa \in [Persons -> Maybe]
  BY DEF Committed, Good, Typed, Maybe
<1>2. q.detached = {} /\ q.dels = cl /\ q.ins = Rebuilt(st, fa)
  BY <1>1 DEF RollbackSees
<1>3. su = st /\ cm = Rebuilt(st, fa)
  BY <1>1, <1>2 DEF Committed, Seen
<1>4. fb = fa
  BY <1>1, <1>2 DEF Committed
<1>5. Linked(st, fa) /\ Rooted(st, fa)
  BY GoodIsRooted
<1>6. Good(st, fa, cm)
  BY <1>3, <1>5, RebuiltIsGood
<1>7. /\ cm \subseteq Row
      /\ \A a, d \in Persons : \A n \in Nat : <<a, d, n>> \in cm => st[a] = "live" /\ st[d] = "live"
  BY <1>3, <1>5, RebuiltLines
<1>8. \A r \in cm : st[r[1]] = "live" /\ st[r[2]] = "live"
  BY <1>7 DEF Row
<1>9. Ordered(st, cm)
  BY <1>6, <1>8, GoodIsOrdered
<1>10. QED
  BY <1>3, <1>4, <1>6, <1>7, <1>9

\* The table is made of the same operators.
LEMMA TableIsMadeOf ==
  /\ Table!Live = Live
  /\ \A t, p : /\ Table!Below(t, p) = Below(t, p) /\ Table!Strip(t, p) = Strip(t, p)
               /\ Table!RowsOf(t, p) = RowsOf(t, p)
  /\ \A p : Table!SelfRow(p) = SelfRow(p)
  /\ \A t, p, f : /\ Table!Graft(t, p, f) = Graft(t, p, f) /\ Table!Under(t, p, f) = Under(t, p, f)
                  /\ Table!WouldCreateCycle(t, p, f) = WouldCreateCycle(t, p, f)
<1>1. Table!Live = Live
  BY DEF Table!Live, Live
<1>2. \A t, p : Table!Below(t, p) = Below(t, p)
  BY DEF Table!Below, Below
<1>3. \A t, p : Table!Strip(t, p) = Strip(t, p)
  BY <1>2 DEF Table!Strip, Strip
<1>4. \A t, p : Table!RowsOf(t, p) = RowsOf(t, p)
  BY DEF Table!RowsOf, RowsOf
<1>5. \A p : Table!SelfRow(p) = SelfRow(p)
  BY DEF Table!SelfRow, SelfRow
<1>6. \A t, p, f : Table!Graft(t, p, f) = Graft(t, p, f)
  BY DEF Table!Graft, Graft
<1>7. \A t, p, f : Table!Under(t, p, f) = Under(t, p, f)
  BY <1>6, Zenon DEF Table!Under, Under
<1>8. \A t, p, f : Table!WouldCreateCycle(t, p, f) = WouldCreateCycle(t, p, f)
  BY <1>2, Zenon DEF Table!WouldCreateCycle, WouldCreateCycle
<1>9. QED
  BY <1>1, <1>2, <1>3, <1>4, <1>5, <1>6, <1>7, <1>8

LEMMA CommitMaps ==
  ASSUME LineageInv, LineageInv', ~mixed, mixed' = mixed, CutsInv, NEW h, Handlers = {h}, Commit(h)
  PROVE  CutsInv' /\ [Table!Next]_(Table!vars)
<1>1. PICK q \in Requests : q = tx[h]
  BY Known
<1>2. Committed(state, father, closure, q, state', father', closure') /\ tx'[h].op # "delete" /\ q.op # None
  BY <1>1, CommitEnds
<1>3. /\ OnCourse(state, q) /\ Sees(state, father, closure, q) /\ Good(state, father, closure)
      /\ Ordered(state, closure) /\ Cuts(state, father, closure, q)
  BY <1>1, Known DEF CutsInv
<1>4. PICK st, fa, cl, su, fb, cm : /\ st = state /\ fa = father /\ cl = closure
                                    /\ su = state' /\ fb = father' /\ cm = closure'
  OBVIOUS
<1>5. /\ Committed(st, fa, cl, q, su, fb, cm) /\ OnCourse(st, q) /\ Sees(st, fa, cl, q)
      /\ Good(st, fa, cl) /\ Ordered(st, cl) /\ Cuts(st, fa, cl, q)
  BY <1>2, <1>3, <1>4
<1>6. \A g \in Handlers : Cuts(state', father', closure', tx'[g])
  BY <1>2 DEF Cuts
<1>7. CASE q.op = "create"
  <2>1. PICK p \in Persons, f \in Persons \cup {None} :
          /\ Ordered(su, cm) /\ st[p] = "unborn" /\ (f # None => st[f] = "live")
          /\ su = [st EXCEPT ![p] = "live"] /\ fb = [fa EXCEPT ![p] = f]
          /\ cm = Under(cl \cup {SelfRow(p)}, p, f)
    BY <1>5, <1>7, CreateCommits DEF Sees
  <2>2. Table!CanBeFather(f)
    BY <1>4, <2>1 DEF Table!CanBeFather, Table!Live
  <2>3. Table!Create(p, f)
    BY <1>4, <2>1, <2>2, TableIsMadeOf DEF Table!Create
  <2>4. QED
    BY <1>4, <1>6, <2>1, <2>3 DEF Table!Next, CutsInv
<1>8. CASE q.op = "refather"
  <2>1. Ordered(su, cm)
    BY <1>5, <1>8, RefatherCommits DEF Sees
  <2>2. CASE su = st /\ fb = fa /\ cm = cl
    BY <1>4, <1>6, <2>1, <2>2 DEF CutsInv, Table!vars
  <2>3. ASSUME NEW p \in Persons, NEW f \in Persons \cup {None},
               st[p] = "live", f # None => st[f] = "live" /\ ~WouldCreateCycle(cl, p, f),
               su = st, fb = [fa EXCEPT ![p] = f], cm = Under(cl \ Strip(cl, p), p, f)
        PROVE  Table!Next
    <3>1. Table!CanBeFather(f) /\ p \in Table!Live
      BY <1>4, <2>3 DEF Table!CanBeFather, Table!Live
    <3>2. f # None => ~Table!WouldCreateCycle(closure, p, f)
      BY <1>4, <2>3, TableIsMadeOf
    <3>3. Table!Refather(p, f)
      BY <1>4, <2>3, <3>1, <3>2, TableIsMadeOf DEF Table!Refather
    <3>4. QED
      BY <3>3 DEF Table!Next
  <2>4. \/ su = st /\ fb = fa /\ cm = cl
        \/ \E p \in Persons, f \in Persons \cup {None} :
             /\ st[p] = "live" /\ (f # None => st[f] = "live" /\ ~WouldCreateCycle(cl, p, f))
             /\ su = st /\ fb = [fa EXCEPT ![p] = f] /\ cm = Under(cl \ Strip(cl, p), p, f)
    BY <1>5, <1>8, RefatherCommits DEF Sees
  <2>5. QED
    BY <1>4, <1>6, <2>1, <2>2, <2>3, <2>4 DEF CutsInv
<1>9. CASE q.op = "gender"
  <2>1. q.detached = {} /\ NothingYet(q) /\ fa \in [Persons -> Maybe]
    BY <1>5, <1>9 DEF Sees, Good, Typed, Maybe
  <2>2. su = st /\ cm = cl
    BY <1>5, <1>9, <2>1 DEF Committed, NothingYet, Seen
  <2>3. fb = fa
    BY <1>5, <1>9, <2>1 DEF Committed
  <2>4. QED
    BY <1>4, <1>5, <1>6, <2>2, <2>3 DEF CutsInv, Table!vars
<1>10. CASE q.op = "delete"
  <2>1. PICK p, children :
          /\ p \in Persons /\ Ordered(su, cm) /\ children = {c \in Persons : st[c] = "live" /\ fa[c] = p}
          /\ st[p] = "live" /\ su = [st EXCEPT ![p] = "deleted"]
          /\ fb = [c \in Persons |-> IF c \in children THEN None ELSE fa[c]]
          /\ cm = Unlinked(cl, children) \ RowsOf(cl, p)
    BY <1>5, <1>10, DeleteCommits DEF Sees
  <2>2. children = {c \in Table!Live : father[c] = p} /\ p \in Table!Live
    BY <1>4, <2>1 DEF Table!Live
  <2>3. UNION {Table!Strip(closure, c) : c \in children} = UNION {Strip(closure, c) : c \in children}
    BY TableIsMadeOf
  <2>4. closure' = (closure \ UNION {Table!Strip(closure, c) : c \in children}) \ Table!RowsOf(closure, p)
    BY <1>4, <2>1, <2>3, TableIsMadeOf DEF Unlinked
  <2>5. /\ state' = [state EXCEPT ![p] = "deleted"]
        /\ father' = [c \in Persons |-> IF c \in children THEN None ELSE father[c]]
    BY <1>4, <2>1
  <2>6. Table!Delete(p)
    BY <2>2, <2>4, <2>5, Zenon DEF Table!Delete
  <2>7. QED
    BY <1>4, <1>6, <2>1, <2>6 DEF Table!Next, CutsInv
<1>11. CASE q.op = "rollback"
  <2>1. /\ su = st /\ fb = fa /\ Good(st, fa, cm) /\ Ordered(st, cm)
        /\ \A a, d \in Persons : \A n \in Nat : <<a, d, n>> \in cm => st[a] = "live" /\ st[d] = "live"
    BY <1>5, <1>11, RollbackCommits DEF Sees
  <2>2. closure' \subseteq Row
    BY <1>4, <2>1 DEF Good, Typed
  <2>3. closure' \subseteq Table!Live \X Table!Live \X Nat
    BY <1>4, <2>1, <2>2 DEF Table!Live, Row
  <2>4. Tracks'
    <3>1. Good(state', father', closure')
      BY <1>4, <2>1
    <3>2. Consistent'
      BY <3>1, GoodByRows DEF Good, Consistent, FathersLive, NoUnborn, Tracks, Records, Acyclic,
                              Transitive, Above, LiveRows, Live
    <3>3. QED
      BY <3>2 DEF Consistent
  <2>5. Table!Tracks' = Tracks'
    BY DEF Table!Tracks, Tracks, Table!Records, Records, Table!Acyclic, Acyclic, Table!Transitive,
           Transitive, Table!Above, Above, Table!LiveRows, LiveRows, Table!Live, Live
  <2>6. Table!Rebuild
    BY <1>4, <2>1, <2>3, <2>4, <2>5 DEF Table!Rebuild, Table!Live
  <2>7. QED
    BY <1>4, <1>6, <2>1, <2>6 DEF Table!Next, CutsInv
<1>12. QED
  BY <1>2, <1>7, <1>8, <1>9, <1>10, <1>11 DEF Requests, Ops

LEMMA StepsMap ==
  ASSUME NEW h, Handlers = {h}
  PROVE  LineageInv /\ LineageInv' /\ ~mixed /\ ~mixed' /\ CutsInv /\ [Next]_vars
           => CutsInv' /\ [Table!Next]_(Table!vars)
<1> SUFFICES ASSUME LineageInv, LineageInv', ~mixed, ~mixed', CutsInv, [Next]_vars
             PROVE  CutsInv' /\ [Table!Next]_(Table!vars)
  OBVIOUS
<1>1. CASE UNCHANGED vars
  <2>1. UNCHANGED <<state, father, closure, tx>>
    BY <1>1 DEF vars, persons
  <2>2. Cuts(state, father, closure, tx'[h])
    BY <2>1 DEF CutsInv
  <2>3. QED
    BY <2>1, <2>2, Stays
<1>2. CASE Start(h)
  BY <1>2, StartStays
<1>3. CASE Parents(h) \/ Cycle(h) \/ InsertSelf(h) \/ StripRows(h) \/ GraftRows(h)
           \/ Blockers(h) \/ Wipe(h) \/ InsertSelves(h) \/ InsertWalk(h)
           \/ Abort(h) \/ FailOnKey(h) \/ SetRolledBack(h)
  BY <1>3, OtherStatements
<1>4. CASE WriteRow(h) \/ Children(h) \/ Unlink(h) \/ DropRows(h) \/ \E c \in Persons : Detach(h, c)
  BY <1>4, WriteRowStays, ChildrenStay, UnlinkStays, DropRowsStays, DetachStays
<1>5. CASE WithdrawBatch(h)
  BY <1>5, WithdrawBatchMaps
<1>6. CASE Commit(h)
  <2>1. mixed' = mixed
    BY <1>6 DEF Commit
  <2>2. QED
    BY <1>6, <2>1, CommitMaps
<1>7. Start(h) \/ Continue(h) \/ Abort(h) \/ UNCHANGED vars
  BY DEF Next
<1>8. QED
  BY <1>1, <1>2, <1>3, <1>4, <1>5, <1>6, <1>7, Zenon DEF Continue

LEMMA InitMaps ==
  InitialFathers \subseteq {[p \in Persons |-> None]} => (Init => Table!Init /\ CutsInv)
<1> SUFFICES ASSUME InitialFathers \subseteq {[p \in Persons |-> None]}, Init PROVE Table!Init /\ CutsInv
  OBVIOUS
<1>1. /\ state \in [Persons -> {"unborn", "live"}] /\ father = [p \in Persons |-> None]
      /\ closure = {SelfRow(p) : p \in Live} \cup Walk(state, father)
      /\ \A h \in Handlers : tx[h] = Idle
  BY DEF Init
<1>2. LineageInv
  BY InitHolds
<1>3. Good(state, father, closure) /\ ~mixed
  BY <1>2 DEF Init, LineageInv, ExactInv
<1>4. Cardinality(Persons) \in Nat
  BY PersonsOK, FS_CardinalityType
<1>5. Walk(state, father) = {}
  <2> SUFFICES ASSUME NEW r \in Walk(state, father) PROVE FALSE
    OBVIOUS
  <2>1. PICK a \in Persons, d \in Persons, n \in Nat :
          n # 0 /\ Up(state, father)[n][d] = a /\ state[a] = "live"
    BY <1>4 DEF Walk
  <2>2. PICK m \in Nat : n = m + 1
    BY <2>1
  <2>3. Up(state, father)[n][d] = None
    <3>1. Linked(state, father)
      BY <1>3, GoodIsRooted
    <3>2. ASSUME state[d] # "live" PROVE FALSE
      <4>1. \A k \in Nat : k # 0 => Up(state, father)[k][d] = None
        BY <3>2, UpOfTheDead
      <4>2. QED
        BY <2>1, <4>1, PersonsOK
    <3>3. Up(state, father)[m][d] \in Persons \cup {None}
      BY <3>1, <3>2, UpLives
    <3>4. Up(state, father)[m + 1][d] = OneUp(state, father, Up(state, father)[m][d])
      BY UpNext
    <3>5. QED
      BY <1>1, <2>2, <3>3, <3>4 DEF OneUp
  <2>4. QED
    BY <2>1, <2>3, PersonsOK
<1>6. closure = {SelfRow(p) : p \in Live}
  BY <1>1, <1>5
<1>7. Table!Init
  BY <1>1, <1>6, TableIsMadeOf DEF Table!Init
<1>8. Ordered(state, closure)
  <2>1. \A r \in closure : state[r[1]] = "live" /\ state[r[2]] = "live"
    BY <1>6 DEF SelfRow, Live
  <2>2. QED
    BY <1>3, <2>1, GoodIsOrdered
<1>9. \A h \in Handlers : Cuts(state, father, closure, tx[h])
  BY <1>1, IdleIs, NoneIsNoOp DEF Cuts, Ops
<1>10. QED
  BY <1>7, <1>8, <1>9 DEF CutsInv

\* createInTx, updateInTx, softDeleteInTx and the two transactions of rollback(), one at a time
\* and broken off anywhere, change persons and closure as one operation of the table each: above
\* all, the deletion that cuts the children off one after the other takes the rows it is meant to.
THEOREM SerialImplementsTable ==
  (\E h : Handlers = {h}) /\ InitialFathers \subseteq {[p \in Persons |-> None]}
    => (Spec => ImplementsTable)
<1> SUFFICES ASSUME \E h : Handlers = {h}, InitialFathers \subseteq {[p \in Persons |-> None]}
             PROVE  Spec => ImplementsTable
  OBVIOUS
<1>1. PICK h : Handlers = {h}
  OBVIOUS
<1>2. Init => Table!Init /\ CutsInv
  BY InitMaps
<1>3. LineageInv /\ LineageInv' /\ ~mixed /\ ~mixed' /\ CutsInv /\ [Next]_vars
        => CutsInv' /\ [Table!Next]_(Table!vars)
  BY <1>1, StepsMap
<1>4. Spec => []LineageInv
  BY SpecLineageInv
<1>5. Spec => []~mixed
  BY SpecNeverMixes
<1>6. Spec => Table!Spec
  BY <1>2, <1>3, <1>4, <1>5, PTL DEF Spec, Table!Spec
<1>7. QED
  BY <1>6 DEF ImplementsTable
==============================================================================
