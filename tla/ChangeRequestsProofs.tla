------------------------ MODULE ChangeRequestsProofs ------------------------
(***************************************************************************)
(* Theorems about ChangeRequests, for every number of requests, members,   *)
(* slots, versions and failures.                                           *)
(***************************************************************************)
EXTENDS ChangeRequests, FiniteSetTheorems, TLAPS

-----------------------------------------------------------------------------
(* The type invariant is not inductive alone: a write needs to know that its *)
(* local variables hold a request, a member, a patch.                        *)

\* The part of TypeOK that is neither a row of cr nor a slot.
RestOK ==
  /\ review \in [CRs -> [Users -> Decisions \cup {None}]]
  /\ settings \in [approvalsRequired: Nat, reviewerCanEdit: BOOLEAN]
  /\ person \in [Persons -> PersonRow]
  /\ closure \in [Persons -> Patches \cup {None}]
  /\ unit \in [Units -> UnitRow]
  /\ due \subseteq CRs
  /\ sent \in [CRs -> SUBSET Notices]
  /\ decided \in [CRs -> [accepted: Nat, rejected: Nat]]
  /\ started \in Nat /\ failures \in Nat
  /\ approvedBy \in [CRs -> SUBSET Users]
  /\ leastQuorum \in Nat
  /\ applied \in [CRs -> Nat] /\ attempts \in [CRs -> Nat]

Exists(c) == c \in CRs /\ cr[c].status # "none"

\* What the rows of existing requests look like.
RowsOK ==
  /\ cr \in [CRs -> Row]
  /\ \A c \in CRs :
       Exists(c) => /\ cr[c].patch \in Patches /\ cr[c].author \in Users
                    /\ (cr[c].op = "create") <=> (cr[c].target = None)

\* Rows are never removed, and four of their columns never change.
Kept(c) == /\ Exists(c)'
           /\ cr'[c].op = cr[c].op /\ cr'[c].target = cr[c].target
           /\ cr'[c].base = cr[c].base /\ cr'[c].author = cr[c].author
RowsKept == \A c \in CRs : Exists(c) => Kept(c)

Reviewing == {"upsert", "finalize", "count", "decide", "wait", "publish",
              "before", "apply", "conflict"}

\* A review in flight remembers the columns that do not change.
SnapOK(r) ==
  LET row == cr[r.id]
  IN /\ r.user \in Users /\ r.user # row.author
     /\ r.decision \in Decisions
     /\ r.snap.op = row.op /\ r.snap.target = row.target
     /\ r.snap.base = row.base /\ r.snap.author = row.author
     /\ r.snap.patch \in Patches

\* What a function in flight has in its local variables at each await.
LocalOK(r) ==
  /\ r.pc \notin {"idle", "sweep"} => Exists(r.id)
  /\ r.pc = "patch" => r.patch \in Patches
  /\ r.pc \in Reviewing => SnapOK(r)
  /\ r.pc = "before" => r.snap.op # "create" /\ r.snap.target \in Persons
  /\ r.pc = "after" => r.after # <<>>
  /\ \A c \in r.todo : Exists(c)

SlotsOK ==
  /\ req \in [Handlers -> Request]
  /\ \A h \in Handlers : LocalOK(req[h])

TypeInv == RestOK /\ RowsOK /\ SlotsOK

LEMMA TypeInvTypeOK == TypeInv => TypeOK
  BY DEF TypeInv, RestOK, RowsOK, SlotsOK, TypeOK

LEMMA IdleOK == Idle \in Request /\ LocalOK(Idle)
  BY DEF Idle, Request, NoRow, Row, PCs, LocalOK, Reviewing

LEMMA InitTypeInv == Init => TypeInv
<1> SUFFICES ASSUME Init PROVE TypeInv
  OBVIOUS
<1>1. RestOK
  BY ConstantsOK DEF Init, RestOK, PersonRow, UnitRow
<1>2. RowsOK
  BY DEF Init, RowsOK, Exists, Row, NoRow
<1>3. SlotsOK
  BY IdleOK DEF Init, SlotsOK
<1>4. QED
  BY <1>1, <1>2, <1>3 DEF TypeInv

-----------------------------------------------------------------------------
(* How the building blocks of the actions change rows and slots.             *)

\* Slot h goes on with locals r, which are as they should be afterwards.
Moves(h, r) == req' = [req EXCEPT ![h] = r]

LEMMA SlotMoves ==
  ASSUME SlotsOK, RowsKept, NEW h \in Handlers, NEW r \in Request,
         Moves(h, r), LocalOK(r)'
  PROVE  SlotsOK'
<1>1. req' \in [Handlers -> Request]
  BY DEF SlotsOK, Moves
<1>2. ASSUME NEW g \in Handlers PROVE LocalOK(req[g])'
  <2>1. CASE g = h
    BY <2>1 DEF Moves, SlotsOK
  <2>2. CASE g # h
    <3>1. req'[g] = req[g] /\ LocalOK(req[g])
      BY <2>2 DEF Moves, SlotsOK
    <3> DEFINE x == req[g]
    <3>2. x.pc \notin {"idle", "sweep"} => Exists(x.id) /\ Kept(x.id)
      BY <3>1 DEF LocalOK, RowsKept, Exists, Kept
    <3>3. x.pc \in Reviewing => SnapOK(x)'
      BY <3>1, <3>2 DEF LocalOK, SnapOK, Reviewing, Kept
    <3>4. \A c \in x.todo : Exists(c)'
      BY <3>1 DEF LocalOK, RowsKept, Exists, Kept
    <3>5. QED
      BY <3>1, <3>2, <3>3, <3>4 DEF LocalOK, Kept
  <2>3. QED
    BY <2>1, <2>2
<1>3. QED
  BY <1>1, <1>2 DEF SlotsOK

LEMMA RowsSame == ASSUME RowsOK, UNCHANGED cr PROVE RowsOK' /\ RowsKept
  BY DEF RowsOK, RowsKept, Kept, Exists

LEMMA StatusRows ==
  ASSUME RowsOK, NEW c \in CRs, Exists(c), NEW s \in NonTerminal \cup Terminal,
         SetStatus(c, s)
  PROVE  RowsOK' /\ RowsKept
<1>1. s \in {"none"} \cup NonTerminal \cup Terminal /\ s # "none"
  BY DEF NonTerminal, Terminal, Editable, Active
<1>2. cr' \in [CRs -> Row]
  BY <1>1 DEF RowsOK, SetStatus, Row
<1>3. \A d \in CRs :
        /\ cr'[d].status = IF d = c THEN s ELSE cr[d].status
        /\ cr'[d].op = cr[d].op /\ cr'[d].target = cr[d].target
        /\ cr'[d].base = cr[d].base /\ cr'[d].patch = cr[d].patch
        /\ cr'[d].author = cr[d].author
  BY DEF RowsOK, SetStatus, Row
<1>4. QED
  BY <1>1, <1>2, <1>3 DEF RowsOK, RowsKept, Kept, Exists

LEMMA ReturnMoves ==
  ASSUME SlotsOK, RowsKept, NEW h \in Handlers, Return(h) PROVE SlotsOK'
<1>1. LocalOK(Idle)'
  BY DEF Idle, NoRow, LocalOK, Reviewing
<1>2. QED
  BY <1>1, IdleOK, SlotMoves DEF Return, Moves

\* What stays true of a function's locals while the rows are kept.
LEMMA LocalsStay ==
  ASSUME RowsKept, NEW x \in Request, LocalOK(x)
  PROVE  /\ x.pc \notin {"idle", "sweep"} => Exists(x.id)' /\ x.id \in CRs
         /\ x.pc \in Reviewing => SnapOK(x) /\ SnapOK(x)'
         /\ \A c \in x.todo : Exists(c)'
<1>1. x.pc \notin {"idle", "sweep"} => Exists(x.id) /\ Kept(x.id)
  BY DEF LocalOK, RowsKept, Exists
<1>2. x.pc \in Reviewing => SnapOK(x) /\ SnapOK(x)'
  BY <1>1 DEF LocalOK, SnapOK, Reviewing, Kept
<1>3. \A c \in x.todo : Exists(c)'
  BY DEF LocalOK, RowsKept, Exists, Kept
<1>4. QED
  BY <1>1, <1>2, <1>3 DEF Kept, Exists

LEMMA ThenMoves ==
  ASSUME SlotsOK, RowsKept, NEW h \in Handlers,
         req[h].pc \notin {"idle", "sweep"},
         NEW calls \in Seq(Calls), Then(h, calls)
  PROVE  SlotsOK'
<1>1. PICK x \in Request : x = req[h] /\ LocalOK(x)
  BY DEF SlotsOK
<1> DEFINE r == [Idle EXCEPT !.pc = "after", !.id = x.id, !.after = calls]
<1>2. Exists(x.id)' /\ x.id \in CRs
  BY <1>1, LocalsStay
<1>3. CASE calls = <<>>
  BY <1>3, ReturnMoves DEF Then, Return
<1>4. CASE calls # <<>>
  <2>1. Moves(h, r)
    BY <1>1, <1>4 DEF Then, Moves
  <2>2. r \in Request
    BY <1>2 DEF Idle, Request, NoRow, Row, PCs
  <2>3. LocalOK(r)'
    BY <1>2, <1>4 DEF Idle, LocalOK, Reviewing
  <2>4. QED
    BY <2>1, <2>2, <2>3, SlotMoves
<1>5. QED
  BY <1>3, <1>4

\* A review goes on to the next await with the same row and vote.
LEMMA GotoMoves ==
  ASSUME SlotsOK, RowsKept, NEW h \in Handlers, req[h].pc \in Reviewing,
         NEW n \in Nat, NEW f \in Patches \cup {None}, NEW pc \in Reviewing,
         pc = "before" => /\ req[h].snap.op # "create"
                          /\ req[h].snap.target \in Persons,
         Moves(h, [req[h] EXCEPT !.pc = pc, !.count = n, !.father = f])
  PROVE  SlotsOK'
<1>1. PICK x \in Request : x = req[h] /\ LocalOK(x)
  BY DEF SlotsOK
<1> DEFINE r == [x EXCEPT !.pc = pc, !.count = n, !.father = f]
<1>2. /\ r \in Request
      /\ r.pc = pc /\ r.id = x.id /\ r.user = x.user
      /\ r.decision = x.decision /\ r.snap = x.snap /\ r.todo = x.todo
  BY <1>1 DEF Request, PCs, Reviewing
<1>3. Moves(h, r)
  BY <1>1
<1> HIDE DEF r
<1>4. Exists(x.id)' /\ SnapOK(x)' /\ \A c \in x.todo : Exists(c)'
  BY <1>1, LocalsStay DEF Reviewing
<1>5. SnapOK(r)'
  BY <1>2, <1>4 DEF SnapOK
<1>6. LocalOK(r)'
  BY <1>1, <1>2, <1>4, <1>5 DEF LocalOK, Reviewing
<1>7. QED
  BY <1>2, <1>3, <1>6, SlotMoves

LEMMA BeginMoves ==
  ASSUME RowsOK, SlotsOK, NEW h \in Handlers, NEW r \in Request, LocalOK(r),
         Begin(h, r), UNCHANGED cr
  PROVE  SlotsOK' /\ RowsOK'
<1>1. RowsOK' /\ RowsKept
  BY RowsSame
<1>2. LocalOK(r)'
  BY DEF LocalOK, SnapOK, Exists
<1>3. QED
  BY <1>1, <1>2, SlotMoves DEF Begin, Moves

\* The request a running function works on, and what a review knows of it.
LEMMA Running ==
  ASSUME SlotsOK, NEW h \in Handlers
  PROVE  /\ req[h] \in Request /\ LocalOK(req[h])
         /\ req[h].pc \notin {"idle", "sweep"}
              => req[h].id \in CRs /\ Exists(req[h].id)
         /\ req[h].pc \in Reviewing => SnapOK(req[h])
  BY DEF SlotsOK, LocalOK, Exists

-----------------------------------------------------------------------------
(* Each action keeps the type invariant.                                     *)

\* The rows the writes produce.
LEMMA PersonRowOK ==
  ASSUME NEW x \in PersonRow
  PROVE  /\ [x EXCEPT !.live = FALSE] \in PersonRow
         /\ \A p \in Patches, f \in Patches \cup {None} :
              [x EXCEPT !.version = x.version + 1, !.data = p, !.father = f]
                \in PersonRow
         /\ x.father \in Patches \cup {None}
<1>1. /\ x.version \in Nat \ {0} /\ x.live \in BOOLEAN
      /\ x.data \in Patches \cup {None} /\ x.father \in Patches \cup {None}
  BY DEF PersonRow
<1>2. x.version + 1 \in Nat \ {0}
  BY <1>1
<1>3. [x EXCEPT !.live = FALSE] \in PersonRow
  BY DEF PersonRow
<1>4. ASSUME NEW p \in Patches, NEW f \in Patches \cup {None}
      PROVE  [x EXCEPT !.version = x.version + 1, !.data = p, !.father = f]
                \in PersonRow
  <2> DEFINE n == x.version + 1
  <2> HIDE DEF n
  <2>1. n \in Nat \ {0}
    BY <1>2 DEF n
  <2>2. [x EXCEPT !.version = n, !.data = p, !.father = f] \in PersonRow
    BY <2>1 DEF PersonRow
  <2>3. QED
    BY <2>2 DEF n
<1>5. QED
  BY <1>1, <1>3, <1>4

LEMMA UnitRowOK ==
  ASSUME NEW x \in UnitRow
  PROVE  /\ [x EXCEPT !.live = FALSE] \in UnitRow
         /\ \A p \in Patches : [x EXCEPT !.data = p] \in UnitRow
  BY DEF UnitRow

LEMMA StartsTypeInv ==
  ASSUME TypeInv, NEW h \in Handlers, Start(h) PROVE TypeInv'
<1> USE DEF TypeInv
<1>1. ASSUME NEW c \in CRs, NEW u \in Users, NEW p \in Patches,
             StartUpdate(h, c, u, p)
      PROVE  TypeInv'
  <2> DEFINE r == [Idle EXCEPT !.pc = "patch", !.id = c, !.patch = p]
  <2>1. r \in Request /\ LocalOK(r)
    <3>1. r \in Request /\ r.pc = "patch" /\ r.id = c /\ r.patch = p /\ r.todo = {}
      BY IdleOK DEF Idle, Request, PCs
    <3> HIDE DEF r
    <3>2. QED
      BY <1>1, <3>1 DEF StartUpdate, LocalOK, Exists, Reviewing
  <2>2. SlotsOK' /\ RowsOK'
    BY <1>1, <2>1, BeginMoves DEF StartUpdate, store
  <2>3. RestOK'
    BY <1>1 DEF StartUpdate, Begin, CanStart, RestOK, store, history
  <2>4. QED
    BY <2>2, <2>3
<1>2. ASSUME NEW c \in CRs, StartSubmit(h, c) PROVE TypeInv'
  <2> DEFINE r == [Idle EXCEPT !.pc = "submit", !.id = c]
  <2>1. r \in Request /\ LocalOK(r)
    <3>1. r \in Request /\ r.pc = "submit" /\ r.id = c /\ r.todo = {}
      BY IdleOK DEF Idle, Request, PCs
    <3> HIDE DEF r
    <3>2. QED
      BY <1>2, <3>1 DEF StartSubmit, LocalOK, Exists, Reviewing, Editable
  <2>2. SlotsOK' /\ RowsOK'
    BY <1>2, <2>1, BeginMoves DEF StartSubmit, store
  <2>3. RestOK'
    BY <1>2 DEF StartSubmit, Begin, CanStart, RestOK, store, history
  <2>4. QED
    BY <2>2, <2>3
<1>3. ASSUME NEW c \in CRs, NEW u \in Users, NEW d \in Decisions,
             StartReview(h, c, u, d)
      PROVE  TypeInv'
  <2>1. PICK row \in Row : row = cr[c]
    BY DEF RowsOK
  <2> DEFINE r == [Idle EXCEPT !.pc = "upsert", !.id = c, !.user = u,
                               !.decision = d, !.snap = row]
  <2>2. Exists(c) /\ row.patch \in Patches /\ u # row.author
    BY <1>3, <2>1 DEF StartReview, RowsOK, Exists, Active
  <2>3. r \in Request
    BY IdleOK DEF Idle, Request, PCs
  <2>4. /\ r.pc = "upsert" /\ r.id = c /\ r.user = u /\ r.decision = d
        /\ r.snap = row /\ r.todo = {}
    BY DEF Idle
  <2>5. LocalOK(r)
    <3> HIDE DEF r
    <3> QED BY <2>1, <2>2, <2>4 DEF LocalOK, SnapOK
  <2>6. SlotsOK' /\ RowsOK'
    BY <1>3, <2>1, <2>3, <2>5, BeginMoves DEF StartReview, store
  <2>7. RestOK'
    BY <1>3 DEF StartReview, Begin, CanStart, RestOK, store, history
  <2>8. QED
    BY <2>6, <2>7
<1>4. ASSUME StartSweep(h) PROVE TypeInv'
  <2>1. PICK found \in SUBSET CRs :
          found = {c \in due : cr[c].status \in NonTerminal}
    BY DEF RestOK
  <2> DEFINE r == [Idle EXCEPT !.pc = "sweep", !.todo = found]
  <2>2. \A c \in found : Exists(c)
    BY <2>1 DEF Exists, NonTerminal, Editable, Active
  <2>3. r \in Request /\ LocalOK(r)
    <3>1. r \in Request /\ r.pc = "sweep" /\ r.todo = found
      BY IdleOK DEF Idle, Request, PCs
    <3> HIDE DEF r
    <3>2. QED
      BY <2>2, <3>1 DEF LocalOK, Reviewing
  <2>4. SlotsOK' /\ RowsOK'
    BY <1>4, <2>1, <2>3, BeginMoves DEF StartSweep, store
  <2>5. RestOK'
    BY <1>4 DEF StartSweep, Begin, CanStart, RestOK, store, history
  <2>6. QED
    BY <2>4, <2>5
<1>5. ASSUME NEW n \in Quorums, NEW e \in BOOLEAN, UpdateSettings(h, n, e)
      PROVE  TypeInv'
  <2>1. RestOK'
    BY <1>5, ConstantsOK DEF UpdateSettings, CanStart, RestOK
  <2>2. RowsOK' /\ SlotsOK'
    BY <1>5, RowsSame
       DEF UpdateSettings, RowsOK, SlotsOK, LocalOK, SnapOK, Exists
  <2>3. QED
    BY <2>1, <2>2
<1>6. ASSUME NEW t \in Persons, NEW p \in Patches, DirectUpdate(h, t, p)
      PROVE  TypeInv'
  <2>1. RestOK'
    <3>1. person' \in [Persons -> PersonRow]
      BY <1>6, PersonRowOK DEF DirectUpdate, RestOK
    <3>2. closure' \in [Persons -> Patches \cup {None}]
      BY <1>6 DEF DirectUpdate, RestOK
    <3>3. QED
      BY <1>6, <3>1, <3>2 DEF DirectUpdate, CanStart, RestOK, history
  <2>2. RowsOK' /\ SlotsOK'
    BY <1>6 DEF DirectUpdate, RowsOK, SlotsOK, LocalOK, SnapOK, Exists
  <2>3. QED
    BY <2>1, <2>2
<1>7. ASSUME NEW t \in Persons, DirectDelete(h, t) PROVE TypeInv'
  <2>1. RestOK'
    <3>2. person' \in [Persons -> PersonRow]
      BY <1>7, PersonRowOK DEF DirectDelete, RestOK
    <3>3. closure' \in [Persons -> Patches \cup {None}]
      BY <1>7 DEF DirectDelete, RestOK
    <3>4. QED
      BY <1>7, <3>2, <3>3 DEF DirectDelete, CanStart, RestOK, history
  <2>2. RowsOK' /\ SlotsOK'
    BY <1>7 DEF DirectDelete, RowsOK, SlotsOK, LocalOK, SnapOK, Exists
  <2>3. QED
    BY <2>1, <2>2
<1>8. ASSUME NEW t \in Units, DirectDeleteUnit(h, t) PROVE TypeInv'
  <2>1. RestOK'
    <3>2. unit' \in [Units -> UnitRow]
      BY <1>8, UnitRowOK DEF DirectDeleteUnit, RestOK
    <3>3. QED
      BY <1>8, <3>2 DEF DirectDeleteUnit, CanStart, RestOK, history
  <2>2. RowsOK' /\ SlotsOK'
    BY <1>8 DEF DirectDeleteUnit, RowsOK, SlotsOK, LocalOK, SnapOK, Exists
  <2>3. QED
    BY <2>1, <2>2
<1>9. QED
  BY <1>1, <1>2, <1>3, <1>4, <1>5, <1>6, <1>7, <1>8 DEF Start

\* A write of the status with the rest of the tables as they are.
LEMMA StatusThen ==
  ASSUME RowsOK, SlotsOK, NEW h \in Handlers,
         req[h].pc \notin {"idle", "sweep"},
         NEW s \in NonTerminal \cup Terminal, SetStatus(req[h].id, s),
         NEW calls \in Seq(Calls), Then(h, calls)
  PROVE  RowsOK' /\ SlotsOK'
<1>1. RowsOK' /\ RowsKept
  BY Running, StatusRows
<1>2. QED
  BY <1>1, ThenMoves

LEMMA CallsOK ==
  /\ <<"submitted">> \in Seq(Calls) /\ <<"conflict">> \in Seq(Calls)
  /\ <<"rejected">> \in Seq(Calls) /\ <<"changes_requested">> \in Seq(Calls)
  /\ <<"refuse", "rejected">> \in Seq(Calls)
  /\ <<"approved", "published">> \in Seq(Calls)
  /\ <<"approved", "published", "accept">> \in Seq(Calls)
<1>1. /\ "accept" \in Calls /\ "refuse" \in Calls /\ "submitted" \in Calls
      /\ "approved" \in Calls /\ "published" \in Calls /\ "conflict" \in Calls
      /\ "rejected" \in Calls /\ "changes_requested" \in Calls
  BY DEF Calls, Notices
<1>2. QED
  BY <1>1

LEMMA CountUp ==
  ASSUME NEW f \in [CRs -> Nat], NEW c \in CRs
  PROVE  [f EXCEPT ![c] = f[c] + 1] \in [CRs -> Nat]
  OBVIOUS

\* Publish and Conflict: the two ways a transaction commits.
LEMMA PublishMoves ==
  ASSUME TypeInv, NEW h \in Handlers, req[h].pc \in Reviewing, Publish(h)
  PROVE  RowsOK' /\ SlotsOK' /\ applied' \in [CRs -> Nat]
         /\ attempts' \in [CRs -> Nat]
<1> USE DEF TypeInv
<1>1. applied' \in [CRs -> Nat] /\ attempts' \in [CRs -> Nat]
  BY Running, CountUp DEF Publish, RestOK, Reviewing
<1> DEFINE calls == IF req[h].id \in Contributions
                      THEN <<"approved", "published", "accept">>
                      ELSE <<"approved", "published">>
<1>2. calls \in Seq(Calls) /\ Then(h, calls)
  BY CallsOK DEF Publish
<1> HIDE DEF calls
<1>3. QED
  BY <1>1, <1>2, StatusThen DEF Publish, Reviewing, Terminal

LEMMA ConflictMoves ==
  ASSUME TypeInv, NEW h \in Handlers, req[h].pc \in Reviewing, Conflict(h)
  PROVE  RowsOK' /\ SlotsOK' /\ applied' \in [CRs -> Nat]
         /\ attempts' \in [CRs -> Nat]
<1> USE DEF TypeInv
<1>1. applied' \in [CRs -> Nat] /\ attempts' \in [CRs -> Nat]
  BY Running, CountUp DEF Conflict, RestOK, Reviewing
<1>2. <<"conflict">> \in Seq(Calls) /\ Then(h, <<"conflict">>)
  BY CallsOK DEF Conflict
<1>3. QED
  BY <1>1, <1>2, StatusThen DEF Conflict, Reviewing, Terminal

LEMMA ReviewTypeInv ==
  ASSUME TypeInv, NEW h \in Handlers,
         \/ WritePatch(h) \/ WriteSubmit(h) \/ UpsertReview(h) \/ Finalize(h)
         \/ CountApprovals(h) \/ Decide(h) \/ MarkUnderReview(h)
  PROVE  TypeInv'
<1> USE DEF TypeInv
<1> DEFINE x == req[h]
<1>0. x \in Request /\ LocalOK(x)
  BY Running
<1>1. CASE WritePatch(h)
  <2>1. x.id \in CRs /\ Exists(x.id) /\ x.patch \in Patches
    BY <1>0, <1>1, Running DEF WritePatch, At, LocalOK
  <2>2. RowsOK' /\ RowsKept
    <3>1. cr' \in [CRs -> Row]
      BY <1>1, <2>1 DEF WritePatch, RowsOK, Row
    <3>2. \A d \in CRs :
            /\ cr'[d].patch = IF d = x.id THEN x.patch ELSE cr[d].patch
            /\ cr'[d].op = cr[d].op /\ cr'[d].target = cr[d].target
            /\ cr'[d].base = cr[d].base /\ cr'[d].status = cr[d].status
            /\ cr'[d].author = cr[d].author
      BY <1>1, <2>1 DEF WritePatch, RowsOK, Row
    <3>3. QED
      BY <2>1, <3>1, <3>2 DEF RowsOK, RowsKept, Kept, Exists
  <2>3. SlotsOK'
    BY <1>1, <2>2, ReturnMoves DEF WritePatch
  <2>4. RestOK'
    BY <1>1 DEF WritePatch, RestOK, history
  <2>5. QED
    BY <2>2, <2>3, <2>4
<1>2. CASE WriteSubmit(h)
  <2>1. <<"submitted">> \in Seq(Calls)
    BY DEF Calls, Notices
  <2>2. RowsOK' /\ SlotsOK'
    BY <1>2, <2>1, StatusThen DEF WriteSubmit, At, NonTerminal, Active
  <2>3. RestOK'
    BY <1>2 DEF WriteSubmit, RestOK, history
  <2>4. QED
    BY <2>2, <2>3
<1>3. CASE UpsertReview(h)
  <2>1. x.id \in CRs /\ x.user \in Users /\ x.decision \in Decisions
    BY <1>0, <1>3, Running DEF UpsertReview, At, Reviewing, SnapOK
  <2>2. review' \in [CRs -> [Users -> Decisions \cup {None}]]
    BY <1>3, <2>1 DEF UpsertReview, RestOK
  <2>3. approvedBy' \in [CRs -> SUBSET Users]
    BY <1>3, <2>1 DEF UpsertReview, RestOK
  <2>4. RestOK'
    BY <1>3, <2>2, <2>3 DEF UpsertReview, RestOK
  <2>5. RowsOK' /\ RowsKept
    BY <1>3, RowsSame DEF UpsertReview
  <2>6. Moves(h, [x EXCEPT !.pc = IF x.decision = "approve" THEN "count"
                                    ELSE "finalize",
                           !.count = x.count, !.father = x.father])
    BY <1>0, <1>3 DEF UpsertReview, Goto, Moves, Request
  <2>7. SlotsOK'
    BY <1>0, <1>3, <2>5, <2>6, GotoMoves
       DEF UpsertReview, At, Reviewing, Request
  <2>8. QED
    BY <2>4, <2>5, <2>7
<1>4. CASE Finalize(h)
  <2> DEFINE s == IF x.decision = "reject" THEN "rejected"
                  ELSE "changes_requested"
             calls == IF s = "rejected" /\ x.id \in Contributions
                        THEN <<"refuse", s>> ELSE <<s>>
  <2>1. calls \in Seq(Calls) /\ Then(h, calls)
    BY <1>4, CallsOK DEF Finalize
  <2> HIDE DEF calls
  <2>2. RowsOK' /\ SlotsOK'
    BY <1>4, <2>1, StatusThen
       DEF Finalize, At, NonTerminal, Editable, Terminal
  <2>3. RestOK'
    BY <1>4 DEF Finalize, RestOK, history
  <2>4. QED
    BY <2>2, <2>3
<1>5. CASE CountApprovals(h)
  <2>1. Cardinality(Approvals(x.id)) \in Nat
    BY ConstantsOK, FS_Subset, FS_CardinalityType DEF Approvals
  <2>2. Moves(h, [x EXCEPT !.pc = "decide",
                           !.count = Cardinality(Approvals(x.id)),
                           !.father = x.father])
    BY <1>0, <1>5 DEF CountApprovals, Moves, Request
  <2>3. RowsOK' /\ RowsKept
    BY <1>5, RowsSame DEF CountApprovals, store
  <2>4. SlotsOK'
    BY <1>0, <1>5, <2>1, <2>2, <2>3, GotoMoves
       DEF CountApprovals, At, Reviewing, Request
  <2>5. RestOK'
    BY <1>5 DEF CountApprovals, RestOK, store, history
  <2>6. QED
    BY <2>3, <2>4, <2>5
<1>6. CASE Decide(h)
  <2>1. PICK pc \in {"publish", "wait"} : Goto(h, pc)
    BY <1>6 DEF Decide
  <2>2. Moves(h, [x EXCEPT !.pc = pc, !.count = x.count, !.father = x.father])
    BY <1>0, <2>1 DEF Goto, Moves, Request
  <2>3. RowsOK' /\ RowsKept
    BY <1>6, RowsSame DEF Decide, store
  <2>4. SlotsOK'
    BY <1>0, <1>6, <2>1, <2>2, <2>3, GotoMoves
       DEF Decide, At, Reviewing, Request
  <2>5. RestOK'
    BY <1>6 DEF Decide, RestOK, store, history
  <2>6. QED
    BY <2>3, <2>4, <2>5
<1>7. CASE MarkUnderReview(h)
  <2>1. RowsOK' /\ RowsKept
    BY <1>7, Running, StatusRows
       DEF MarkUnderReview, At, NonTerminal, Active
  <2>2. SlotsOK'
    BY <1>7, <2>1, ReturnMoves DEF MarkUnderReview
  <2>3. RestOK'
    BY <1>7 DEF MarkUnderReview, RestOK, history
  <2>4. QED
    BY <2>1, <2>2, <2>3
<1>8. QED
  BY <1>1, <1>2, <1>3, <1>4, <1>5, <1>6, <1>7

\* The target of a review that is past its first check.
LEMMA ReviewTarget ==
  ASSUME TypeInv, NEW h \in Handlers, req[h].pc \in Reviewing
  PROVE  /\ req[h].snap \in Row /\ req[h].id \in CRs
         /\ (req[h].snap.op = "create") <=> (req[h].snap.target = None)
         /\ req[h].snap.patch \in Patches
<1>1. /\ req[h].id \in CRs /\ Exists(req[h].id) /\ SnapOK(req[h])
      /\ req[h] \in Request
  BY Running DEF TypeInv, Reviewing
<1>2. QED
  BY <1>1 DEF TypeInv, RowsOK, SnapOK, Request

LEMMA PublishTypeInv ==
  ASSUME TypeInv, NEW h \in Handlers,
         \/ CheckTarget(h) \/ ReadBefore(h) \/ CommitConflict(h)
         \/ ApplyCreate(h) \/ ApplyPersonUpdate(h) \/ LosePersonUpdate(h)
         \/ ApplyPersonDelete(h) \/ ApplyUnit(h) \/ LoseUnit(h)
  PROVE  TypeInv'
<1> USE DEF TypeInv
<1> DEFINE x == req[h]
           row == x.snap
<1>0. x \in Request /\ LocalOK(x) /\ x.pc \in Reviewing
  BY Running DEF CheckTarget, ReadBefore, CommitConflict, ApplyCreate,
     ApplyPersonUpdate, UpdatesPerson, LosePersonUpdate, ApplyPersonDelete,
     ApplyUnit, LoseUnit, At, Reviewing
<1>r. /\ row \in Row /\ x.id \in CRs /\ row.patch \in Patches
      /\ (row.op = "create") <=> (row.target = None)
  BY <1>0, ReviewTarget
<1>p. /\ Publish(h) => /\ RowsOK' /\ SlotsOK' /\ applied' \in [CRs -> Nat]
                       /\ attempts' \in [CRs -> Nat]
      /\ Conflict(h) => /\ RowsOK' /\ SlotsOK' /\ applied' \in [CRs -> Nat]
                        /\ attempts' \in [CRs -> Nat]
  BY <1>0, PublishMoves, ConflictMoves
<1>m. ASSUME MoveClosure(h) PROVE closure' \in [Persons -> Patches \cup {None}]
  BY <1>m, <1>r DEF MoveClosure, RestOK
<1>1. CASE CheckTarget(h)
  <2>1. PICK pc \in {"apply", "conflict", "before"} :
          /\ Goto(h, pc)
          /\ pc = "before" => row.op # "create" /\ row.target \in Persons
    BY <1>1 DEF CheckTarget
  <2>2. Moves(h, [x EXCEPT !.pc = pc, !.count = x.count, !.father = x.father])
    BY <1>0, <2>1 DEF Goto, Moves, Request
  <2>3. RowsOK' /\ RowsKept
    BY <1>1, RowsSame DEF CheckTarget, store
  <2>4. SlotsOK'
    BY <1>0, <2>1, <2>2, <2>3, GotoMoves DEF Reviewing, Request
  <2>5. RestOK'
    BY <1>1 DEF CheckTarget, RestOK, store, history
  <2>6. QED
    BY <2>3, <2>4, <2>5
<1>2. CASE ReadBefore(h)
  <2>1. row.target \in Persons
    BY <1>0, <1>2 DEF ReadBefore, At, LocalOK
  <2>2. person[row.target].father \in Patches \cup {None}
    BY <2>1, PersonRowOK DEF RestOK
  <2>3. PICK pc \in {"apply", "conflict"} :
          Moves(h, [x EXCEPT !.pc = pc, !.count = x.count,
                             !.father = person[row.target].father])
    BY <1>0, <1>2 DEF ReadBefore, Moves, Request
  <2>4. RowsOK' /\ RowsKept
    BY <1>2, RowsSame DEF ReadBefore, store
  <2>5. SlotsOK'
    BY <1>0, <2>2, <2>3, <2>4, GotoMoves DEF Reviewing, Request
  <2>6. RestOK'
    BY <1>2 DEF ReadBefore, RestOK, store, history
  <2>7. QED
    BY <2>4, <2>5, <2>6
<1>3. CASE CommitConflict(h)
  BY <1>3, <1>p DEF CommitConflict, RestOK
<1>4. CASE ApplyCreate(h)
  BY <1>4, <1>p DEF ApplyCreate, RestOK
<1>5. CASE ApplyPersonUpdate(h)
  <2>1. row.target \in Persons /\ person[row.target].version = row.base
    BY <1>5 DEF ApplyPersonUpdate, UpdatesPerson, VersionMatches
  <2>2. /\ person[row.target].father \in Patches \cup {None}
        /\ row.base + 1 \in Nat \ {0}
    <3>1. person[row.target] \in PersonRow
      BY <2>1 DEF RestOK
    <3>2. person[row.target].version \in Nat
      BY <3>1 DEF PersonRow
    <3>3. row.base + 1 \in Nat \ {0}
      BY <2>1, <3>2
    <3>4. QED
      BY <3>1, <3>3, PersonRowOK
  <2>3. [version |-> row.base + 1, live |-> TRUE, data |-> row.patch,
         father |-> IF row.patch \in FatherPatches THEN row.patch
                    ELSE person[row.target].father] \in PersonRow
    BY <1>r, <2>2 DEF PersonRow
  <2>4. person' \in [Persons -> PersonRow]
    BY <1>5, <2>1, <2>3 DEF ApplyPersonUpdate, RestOK
  <2>5. QED
    BY <1>5, <1>p, <1>m, <2>4 DEF ApplyPersonUpdate, RestOK
<1>6. CASE LosePersonUpdate(h)
  BY <1>6, <1>p, <1>m DEF LosePersonUpdate, RestOK
<1>7. CASE ApplyPersonDelete(h)
  <2>1. person' \in [Persons -> PersonRow]
    BY <1>7, PersonRowOK DEF ApplyPersonDelete, RestOK
  <2>2. closure' \in [Persons -> Patches \cup {None}]
    BY <1>7 DEF ApplyPersonDelete, RestOK
  <2>3. QED
    BY <1>7, <1>p, <2>1, <2>2 DEF ApplyPersonDelete, RestOK
<1>8. CASE ApplyUnit(h)
  <2>1. unit' \in [Units -> UnitRow]
    BY <1>8, <1>r, UnitRowOK DEF ApplyUnit, RestOK
  <2>2. QED
    BY <1>8, <1>p, <2>1 DEF ApplyUnit, RestOK
<1>9. CASE LoseUnit(h)
  <2>1. RowsOK' /\ RowsKept
    BY <1>9, RowsSame DEF LoseUnit, store
  <2>2. SlotsOK'
    BY <1>9, <2>1, ReturnMoves DEF LoseUnit
  <2>3. RestOK'
    BY <1>9 DEF LoseUnit, RestOK, store, history
  <2>4. QED
    BY <2>1, <2>2, <2>3
<1>10. QED
  BY <1>1, <1>2, <1>3, <1>4, <1>5, <1>6, <1>7, <1>8, <1>9

LEMMA AfterTypeInv ==
  ASSUME TypeInv, NEW h \in Handlers,
         \/ CallNext(h) \/ NotifyExpired(h) \/ Fail(h)
         \/ \E c \in CRs : Expire(h, c)
  PROVE  TypeInv'
<1> USE DEF TypeInv
<1>1. CASE CallNext(h)
  <2>1. PICK x \in Request : x = req[h] /\ LocalOK(x)
    BY Running
  <2>2. /\ x.pc = "after" /\ x.id \in CRs /\ x.after \in Seq(Calls)
        /\ x.after # <<>>
    BY <1>1, <2>1, Running DEF CallNext, At, LocalOK, Request
  <2>3. Tail(x.after) \in Seq(Calls)
    BY <2>2
  <2>4. RowsOK' /\ RowsKept
    BY <1>1, RowsSame DEF CallNext
  <2>5. SlotsOK'
    BY <1>1, <2>1, <2>2, <2>3, <2>4, ThenMoves DEF CallNext
  <2>6. sent' \in [CRs -> SUBSET Notices]
    BY <1>1, <2>1, <2>2 DEF CallNext, RestOK
  <2>7. decided' \in [CRs -> [accepted: Nat, rejected: Nat]]
    <3>1. decided[x.id] \in [accepted: Nat, rejected: Nat]
      BY <2>2 DEF RestOK
    <3>2. /\ [decided[x.id] EXCEPT !.accepted = @ + 1]
               \in [accepted: Nat, rejected: Nat]
          /\ [decided[x.id] EXCEPT !.rejected = @ + 1]
               \in [accepted: Nat, rejected: Nat]
      BY <3>1
    <3>3. QED
      BY <1>1, <2>1, <3>2 DEF CallNext, RestOK
  <2>8. RestOK'
    BY <1>1, <2>6, <2>7 DEF CallNext, RestOK, history
  <2>9. QED
    BY <2>4, <2>5, <2>8
<1>2. CASE NotifyExpired(h)
  <2>1. PICK x \in Request : x = req[h] /\ LocalOK(x) /\ x.pc = "expired"
    BY <1>2, Running DEF NotifyExpired, At
  <2> DEFINE r == IF x.todo = {} THEN Idle ELSE [x EXCEPT !.pc = "sweep"]
  <2>2. RowsOK' /\ RowsKept
    BY <1>2, RowsSame DEF NotifyExpired
  <2>3. Moves(h, r)
    BY <1>2, <2>1 DEF NotifyExpired, Moves
  <2>4. r \in Request
    BY <2>1, IdleOK DEF Request, PCs
  <2>5. LocalOK(r)'
    <3>1. CASE x.todo = {}
      BY <3>1 DEF Idle, NoRow, LocalOK, Reviewing
    <3>2. CASE x.todo # {}
      <4>1. r.pc = "sweep" /\ r.todo = x.todo
        BY <3>2 DEF Request
      <4> HIDE DEF r
      <4>2. \A c \in x.todo : Exists(c)'
        BY <2>1, <2>2, LocalsStay
      <4>3. QED
        BY <4>1, <4>2 DEF LocalOK, Reviewing
    <3>3. QED
      BY <3>1, <3>2
  <2>6. SlotsOK'
    BY <2>2, <2>3, <2>4, <2>5, SlotMoves
  <2>7. sent' \in [CRs -> SUBSET Notices]
    BY <1>2 DEF NotifyExpired, RestOK, Notices
  <2>8. RestOK'
    BY <1>2, <2>7 DEF NotifyExpired, RestOK, history
  <2>9. QED
    BY <2>2, <2>6, <2>8
<1>3. CASE Fail(h)
  <2>1. RowsOK' /\ RowsKept
    BY <1>3, RowsSame DEF Fail, store
  <2>2. SlotsOK'
    BY <1>3, <2>1, ReturnMoves DEF Fail
  <2>3. RestOK'
    BY <1>3 DEF Fail, RestOK, store, history
  <2>4. QED
    BY <2>1, <2>2, <2>3
<1>4. ASSUME NEW c \in CRs, Expire(h, c) PROVE TypeInv'
  <2>1. PICK x \in Request : x = req[h] /\ LocalOK(x) /\ c \in x.todo
    BY <1>4, Running DEF Expire
  <2> DEFINE r == [x EXCEPT !.pc = "expired", !.id = c, !.todo = x.todo \ {c}]
  <2>2. Exists(c)
    BY <2>1 DEF LocalOK
  <2>3. RowsOK' /\ RowsKept
    BY <1>4, <2>2, StatusRows DEF Expire, Terminal
  <2>4. Moves(h, r)
    BY <1>4, <2>1 DEF Expire, Moves
  <2>5. /\ r \in Request /\ r.pc = "expired" /\ r.id = c
        /\ r.todo = x.todo \ {c}
    BY <2>1 DEF Request, PCs
  <2> HIDE DEF r
  <2>6. Exists(c)' /\ \A d \in x.todo : Exists(d)'
    BY <2>1, <2>2, <2>3, LocalsStay DEF RowsKept, Kept
  <2>7. LocalOK(r)'
    BY <2>5, <2>6 DEF LocalOK, Reviewing
  <2>8. SlotsOK'
    BY <2>3, <2>4, <2>5, <2>7, SlotMoves
  <2>9. RestOK'
    BY <1>4 DEF Expire, RestOK, history
  <2>10. QED
    BY <2>3, <2>8, <2>9
<1>5. QED
  BY <1>1, <1>2, <1>3, <1>4

LEMMA CreateTypeInv ==
  ASSUME TypeInv, NEW c \in CRs, NEW u \in Users, NEW op \in Operations,
         NEW t \in Targets \cup {None}, NEW p \in Patches, Create(c, u, op, t, p)
  PROVE  TypeInv'
<1> USE DEF TypeInv
<1> DEFINE row == [status |-> "draft", op |-> op, target |-> t,
                   base |-> IF t \in Persons THEN person[t].version ELSE 0,
                   patch |-> p, author |-> u]
<1>1. row \in Row
  <2>1. t \in Persons => person[t].version \in Nat
    BY DEF RestOK, PersonRow
  <2>2. op \in {"create", "update", "delete"}
    BY ConstantsOK
  <2>3. QED
    BY <2>1, <2>2 DEF Row, NonTerminal, Editable
<1>2. cr' = [cr EXCEPT ![c] = row] /\ cr[c].status = "none"
  BY DEF Create
<1>3. /\ row.status # "none" /\ row.patch \in Patches /\ row.author \in Users
      /\ (row.op = "create") <=> (row.target = None)
  BY DEF Create
<1> HIDE DEF row
<1>4. RowsOK' /\ RowsKept
  BY <1>1, <1>2, <1>3 DEF RowsOK, RowsKept, Kept, Exists
<1>5. SlotsOK'
  <2>1. req' = req
    BY DEF Create
  <2>2. ASSUME NEW h \in Handlers PROVE LocalOK(req[h])'
    <3>1. PICK x \in Request : x = req[h] /\ LocalOK(x)
      BY Running
    <3>2. LocalOK(x)'
      BY <1>4, <3>1, LocalsStay DEF LocalOK
    <3>3. QED
      BY <2>1, <3>1, <3>2
  <2>3. QED
    BY <2>1, <2>2 DEF SlotsOK
<1>6. RestOK'
  BY DEF Create, RestOK, history
<1>7. QED
  BY <1>4, <1>5, <1>6

LEMMA NextTypeInv == ASSUME TypeInv, [Next]_vars PROVE TypeInv'
<1>1. ASSUME NEW c \in CRs, TimePasses(c) PROVE TypeInv'
  <2>1. RestOK'
    BY <1>1 DEF TimePasses, TypeInv, RestOK, history
  <2>2. RowsOK' /\ SlotsOK'
    BY <1>1 DEF TimePasses, TypeInv, RowsOK, SlotsOK, LocalOK, SnapOK, Exists
  <2>3. QED
    BY <2>1, <2>2 DEF TypeInv
<1>2. CASE UNCHANGED vars
  <2>1. RestOK'
    BY <1>2 DEF vars, store, history, TypeInv, RestOK
  <2>2. RowsOK' /\ SlotsOK'
    BY <1>2 DEF vars, store, history, TypeInv, RowsOK, SlotsOK, LocalOK,
                SnapOK, Exists
  <2>3. QED
    BY <2>1, <2>2 DEF TypeInv
<1>3. ASSUME NEW h \in Handlers, Continue(h) PROVE TypeInv'
  BY <1>3, ReviewTypeInv, PublishTypeInv, AfterTypeInv DEF Continue
<1>4. QED
  BY <1>1, <1>2, <1>3, StartsTypeInv, AfterTypeInv, CreateTypeInv DEF Next

LEMMA SpecTypeInv == Spec => []TypeInv
  BY InitTypeInv, NextTypeInv, PTL DEF Spec

\* Every table and every local variable keeps its type, in particular no
\* await resumes with a request or a member it has not read before.
THEOREM TypeCorrect == Spec => []TypeOK
  BY SpecTypeInv, TypeInvTypeOK, PTL

-----------------------------------------------------------------------------
(* The safety invariants that survive every overlap of requests and every    *)
(* failure, for any number of requests in flight.                            *)

-----------------------------------------------------------------------------
(* A patch is written at most once: after the write the version of the       *)
(* person, which only grows, is past the version the request names.          *)

Updates(c) == Exists(c) /\ cr[c].op = "update" /\ cr[c].target \in Persons

\* The version the request names is gone for good.
Outdated(c) ==
  LET p == person[cr[c].target]
  IN ~p.live \/ p.version > cr[c].base

OnceInv ==
  \A c \in CRs :
    /\ applied[c] > 0 => Exists(c)
    /\ Updates(c) => \/ applied[c] = 0
                     \/ applied[c] = 1 /\ Outdated(c)

\* No step takes a person back to an earlier version or to life.
PersonsAge ==
  \A p \in Persons :
    /\ person'[p].live => person[p].live
    /\ person'[p].version >= person[p].version

LEMMA AgeLemma == TypeInv /\ [Next]_vars => PersonsAge
<1> SUFFICES ASSUME TypeInv, [Next]_vars PROVE PersonsAge
  OBVIOUS
<1> USE DEF TypeInv
<1>1. \A p \in Persons : person[p].version \in Nat /\ person[p].live \in BOOLEAN
  BY DEF RestOK, PersonRow
<1>2. ASSUME NEW h \in Handlers, NEW t \in Persons, NEW p \in Patches,
             DirectUpdate(h, t, p)
      PROVE  PersonsAge
  BY <1>1, <1>2 DEF DirectUpdate, PersonsAge, RestOK, PersonRow
<1>3. ASSUME NEW h \in Handlers, NEW t \in Persons, DirectDelete(h, t)
      PROVE  PersonsAge
  BY <1>1, <1>3 DEF DirectDelete, PersonsAge, RestOK, PersonRow
<1>4. ASSUME NEW h \in Handlers, ApplyPersonUpdate(h) PROVE PersonsAge
  BY <1>1, <1>4 DEF ApplyPersonUpdate, UpdatesPerson, VersionMatches,
                    PersonsAge, RestOK
<1>5. ASSUME NEW h \in Handlers, ApplyPersonDelete(h) PROVE PersonsAge
  BY <1>1, <1>5 DEF ApplyPersonDelete, PersonsAge, RestOK, PersonRow
<1>6. CASE UNCHANGED person
  BY <1>1, <1>6 DEF PersonsAge
<1>7. ASSUME NEW h \in Handlers, Start(h) PROVE PersonsAge
  BY <1>2, <1>3, <1>6, <1>7
     DEF Start, StartUpdate, StartSubmit, StartReview, StartSweep,
         UpdateSettings, DirectDeleteUnit, store
<1>8. ASSUME NEW h \in Handlers, Continue(h) PROVE PersonsAge
  BY <1>4, <1>5, <1>6, <1>8
     DEF Continue, WritePatch, WriteSubmit, UpsertReview, Finalize,
         CountApprovals, Decide, MarkUnderReview, CheckTarget, ReadBefore,
         CommitConflict, ApplyCreate, LosePersonUpdate, ApplyUnit, LoseUnit,
         CallNext, Expire, NotifyExpired, store
<1>9. QED
  BY <1>6, <1>7, <1>8 DEF Next, Create, TimePasses, Fail, store, vars

LEMMA RowsKeptLemma == TypeInv /\ [Next]_vars => RowsKept
<1> SUFFICES ASSUME TypeInv, [Next]_vars PROVE RowsKept
  OBVIOUS
<1> USE DEF TypeInv
<1>1. ASSUME UNCHANGED cr PROVE RowsKept
  BY <1>1, RowsSame
<1>2. ASSUME NEW h \in Handlers, req[h].pc \notin {"idle", "sweep"},
             NEW s \in NonTerminal \cup Terminal, SetStatus(req[h].id, s)
      PROVE  RowsKept
  BY <1>2, Running, StatusRows
<1>3. ASSUME NEW h \in Handlers, Continue(h) PROVE RowsKept
  <2>1. CASE WritePatch(h)
    <3>1. req[h].id \in CRs
      BY <2>1, Running DEF WritePatch, At
    <3>2. QED
      BY <2>1, <3>1 DEF WritePatch, RowsKept, Kept, Exists, RowsOK, Row
  <2>2. CASE WriteSubmit(h) \/ Finalize(h) \/ MarkUnderReview(h)
    BY <1>2, <2>2 DEF WriteSubmit, Finalize, MarkUnderReview, At,
       NonTerminal, Active, Editable, Terminal
  <2>3. CASE CommitConflict(h) \/ LosePersonUpdate(h)
    BY <1>2, <2>3
       DEF CommitConflict, LosePersonUpdate, UpdatesPerson, Conflict, At, Terminal
  <2>4. CASE \/ ApplyCreate(h) \/ ApplyPersonUpdate(h) \/ ApplyPersonDelete(h)
             \/ ApplyUnit(h)
    BY <1>2, <2>4 DEF ApplyCreate, ApplyPersonUpdate, UpdatesPerson,
       ApplyPersonDelete, ApplyUnit, Publish, At, Terminal
  <2>5. CASE \E c \in CRs : Expire(h, c)
    <3>1. PICK c \in CRs : Expire(h, c)
      BY <2>5
    <3>2. Exists(c)
      BY <3>1, Running DEF Expire, LocalOK
    <3>3. QED
      BY <3>1, <3>2, StatusRows DEF Expire, Terminal
  <2>6. CASE \/ UpsertReview(h) \/ CountApprovals(h) \/ Decide(h)
             \/ CheckTarget(h) \/ ReadBefore(h) \/ LoseUnit(h) \/ CallNext(h)
             \/ NotifyExpired(h)
    BY <1>1, <2>6 DEF UpsertReview, CountApprovals, Decide, CheckTarget,
       ReadBefore, LoseUnit, CallNext, NotifyExpired, store
  <2>7. QED
    BY <1>3, <2>1, <2>2, <2>3, <2>4, <2>5, <2>6 DEF Continue
<1>4. ASSUME NEW h \in Handlers, Start(h) PROVE RowsKept
  BY <1>1, <1>4 DEF Start, StartUpdate, StartSubmit, StartReview, StartSweep,
     UpdateSettings, DirectUpdate, DirectDelete, DirectDeleteUnit, store
<1>5. ASSUME NEW c \in CRs, NEW u \in Users, NEW op \in Operations,
             NEW t \in Targets \cup {None}, NEW p \in Patches,
             Create(c, u, op, t, p)
      PROVE  RowsKept
  BY <1>5 DEF Create, RowsKept, Kept, Exists, RowsOK
<1>6. QED
  BY <1>1, <1>3, <1>4, <1>5 DEF Next, TimePasses, Fail, store, vars

\* Slot h commits a transaction that writes the patch of c to live data.
Writes(h, c) ==
  /\ req[h].pc = "apply" /\ req[h].id = c /\ Exists(c)
  /\ applied'[c] = applied[c] + 1
  /\ Updates(c) => /\ person[cr[c].target].version = cr[c].base
                   /\ ~Outdated(c) /\ Outdated(c)'

LEMMA Appliers ==
  ASSUME TypeInv, [Next]_vars, NEW c \in CRs
  PROVE  applied'[c] = applied[c] \/ \E h \in Handlers : Writes(h, c)
<1> USE DEF TypeInv
<1>1. ASSUME NEW h \in Handlers, Continue(h)
      PROVE  applied'[c] = applied[c] \/ Writes(h, c)
  <2>1. CASE \/ ApplyCreate(h) \/ ApplyPersonUpdate(h) \/ ApplyPersonDelete(h)
             \/ ApplyUnit(h)
    <3>1. /\ req[h].pc = "apply" /\ req[h].id \in CRs /\ Exists(req[h].id)
          /\ SnapOK(req[h])
      BY <2>1, Running DEF ApplyCreate, ApplyPersonUpdate, UpdatesPerson,
         ApplyPersonDelete, ApplyUnit, At, Reviewing
    <3>2. applied' = [applied EXCEPT ![req[h].id] = @ + 1]
      BY <2>1 DEF ApplyCreate, ApplyPersonUpdate, ApplyPersonDelete, ApplyUnit,
         Publish
    <3>3. CASE req[h].id # c
      BY <3>2, <3>3 DEF RestOK
    <3>4. CASE req[h].id = c
      <4>1. applied'[c] = applied[c] + 1
        BY <3>1, <3>2, <3>4 DEF RestOK
      <4>2. CASE ~Updates(c)
        BY <3>1, <3>4, <4>1, <4>2 DEF Writes
      <4>3. CASE Updates(c)
        <5>1. ApplyPersonUpdate(h)
          BY <2>1, <3>1, <3>4, <4>3, ConstantsOK DEF Updates, ApplyCreate,
             ApplyPersonDelete, ApplyUnit, SnapOK
        <5>2. /\ cr[c].target \in Persons /\ req[h].snap.target = cr[c].target
              /\ req[h].snap.base = cr[c].base
          BY <3>1, <3>4, <4>3 DEF SnapOK, Updates
        <5>3. ~Outdated(c) /\ person[cr[c].target].version = cr[c].base
          <6>1. /\ person[cr[c].target].live
                /\ person[cr[c].target].version = cr[c].base
            BY <5>1, <5>2 DEF ApplyPersonUpdate, VersionMatches
          <6>2. cr[c].base \in Nat
            BY DEF RowsOK, Row
          <6>3. QED
            BY <6>1, <6>2 DEF Outdated
        <5>4. Outdated(c)'
          <6>1. cr'[c].target = cr[c].target /\ cr'[c].base = cr[c].base
            BY <3>1, <3>4, RowsKeptLemma DEF RowsKept, Kept
          <6>2. person'[cr[c].target].version = cr[c].base + 1
            BY <5>1, <5>2 DEF ApplyPersonUpdate, RestOK
          <6>3. cr[c].base \in Nat
            BY DEF RowsOK, Row
          <6>4. QED
            BY <6>1, <6>2, <6>3 DEF Outdated
        <5>5. QED
          BY <3>1, <3>4, <4>1, <5>3, <5>4 DEF Writes
      <4>4. QED
        BY <4>2, <4>3
    <3>5. QED
      BY <3>3, <3>4
  <2>2. CASE UNCHANGED applied
    BY <2>2
  <2>3. QED
    BY <1>1, <2>1, <2>2
       DEF Continue, WritePatch, WriteSubmit, UpsertReview, Finalize,
           CountApprovals, Decide, MarkUnderReview, CheckTarget, ReadBefore,
           CommitConflict, Conflict, LosePersonUpdate, LoseUnit, CallNext,
           Expire, NotifyExpired, history
<1>2. ASSUME NEW h \in Handlers, Start(h) PROVE applied' = applied
  BY <1>2 DEF Start, StartUpdate, StartSubmit, StartReview, StartSweep,
     UpdateSettings, DirectUpdate, DirectDelete, DirectDeleteUnit, history
<1>3. QED
  BY <1>1, <1>2 DEF Next, Create, TimePasses, Fail, history, vars

LEMMA OnceStep == OnceInv /\ TypeInv /\ [Next]_vars => OnceInv'
<1> SUFFICES ASSUME OnceInv, TypeInv, [Next]_vars PROVE OnceInv'
  OBVIOUS
<1> SUFFICES ASSUME NEW c \in CRs
             PROVE  /\ (applied[c] > 0 => Exists(c))'
                    /\ (Updates(c) => \/ applied[c] = 0
                                      \/ applied[c] = 1 /\ Outdated(c))'
  BY DEF OnceInv
<1>1. /\ applied[c] \in Nat
      /\ applied[c] > 0 => Exists(c)
      /\ Updates(c) => \/ applied[c] = 0
                       \/ applied[c] = 1 /\ Outdated(c)
  <2>1. applied[c] \in Nat
    BY DEF TypeInv, RestOK
  <2>2. QED
    BY <2>1 DEF OnceInv
<1>2. Exists(c) => Kept(c)
  BY RowsKeptLemma DEF RowsKept
<1>3. CASE applied'[c] = applied[c]
  <2>1. Exists(c) /\ Updates(c)' => Updates(c)
    BY <1>2 DEF Kept, Updates, Exists
  <2>2. Updates(c) /\ Outdated(c) => Outdated(c)'
    <3>1. ASSUME Updates(c) PROVE Outdated(c) => Outdated(c)'
      <4>1. /\ cr'[c].target = cr[c].target /\ cr'[c].base = cr[c].base
            /\ cr[c].target \in Persons /\ cr[c].base \in Nat
        BY <1>2, <3>1 DEF Updates, Kept, TypeInv, RowsOK, Row
      <4> DEFINE t == cr[c].target
      <4>2. /\ person[t].version \in Nat /\ person'[t].version \in Nat
            /\ person'[t].live => person[t].live
            /\ person'[t].version >= person[t].version
        BY <4>1, AgeLemma, NextTypeInv
           DEF PersonsAge, TypeInv, RestOK, PersonRow
      <4>3. QED
        BY <4>1, <4>2 DEF Outdated
    <3>2. QED
      BY <3>1
  <2>3. CASE Exists(c)
    <3>1. Exists(c)'
      BY <1>2, <2>3 DEF Kept
    <3>2. QED
      BY <1>1, <1>3, <2>1, <2>2, <2>3, <3>1
  <2>4. CASE ~Exists(c)
    <3>1. applied[c] = 0 /\ applied'[c] = 0
      BY <1>1, <1>3, <2>4
    <3>2. QED
      BY <3>1
  <2>5. QED
    BY <2>3, <2>4
<1>4. CASE \E h \in Handlers : Writes(h, c)
  BY <1>1, <1>2, <1>4 DEF Writes, Kept, Updates
<1>5. QED
  BY <1>3, <1>4, Appliers

LEMMA SpecOnce == Spec => []OnceInv
<1>1. Init => OnceInv
  BY DEF Init, OnceInv, Exists, Updates, NoRow
<1>2. QED
  BY <1>1, OnceStep, SpecTypeInv, PTL DEF Spec

\* However many approvals find the quorum reached at the same time, one of
\* them at most writes a person, and the other transactions end in a conflict:
\* the version in the WHERE clause is what makes publish() idempotent.
THEOREM AppliesOnce == Spec => []UpdateAppliedOnce
<1>1. ASSUME OnceInv, TypeInv PROVE UpdateAppliedOnce
  <2>1. \A c \in CRs : applied[c] \in Nat
    BY <1>1 DEF TypeInv, RestOK
  <2>2. ASSUME NEW c \in CRs, cr[c].op = "update", cr[c].target \in Persons
        PROVE  applied[c] <= 1
    <3>1. CASE Exists(c)
      BY <1>1, <2>1, <2>2, <3>1 DEF OnceInv, Updates
    <3>2. CASE ~Exists(c)
      BY <1>1, <2>1, <3>2 DEF OnceInv
    <3>3. QED
      BY <3>1, <3>2
  <2>3. QED
    BY <2>2 DEF UpdateAppliedOnce
<1>2. QED
  BY <1>1, SpecOnce, SpecTypeInv, PTL

\* What an author asks for, a row keeps.
AsAsked == \A c \in CRs : Exists(c) => cr[c].op \in Operations

LEMMA AsAskedStep == AsAsked /\ TypeInv /\ [Next]_vars => AsAsked'
<1> SUFFICES ASSUME AsAsked, TypeInv, [Next]_vars PROVE AsAsked'
  OBVIOUS
<1>1. RowsKept
  BY RowsKeptLemma
<1>2. ASSUME NEW c \in CRs, ~Exists(c), Exists(c)' PROVE cr'[c].op \in Operations
  <2>1. CASE \E d \in CRs, u \in Users, op \in Operations, t \in Targets \cup {None},
               p \in Patches : Create(d, u, op, t, p)
    <3>1. PICK d \in CRs, op \in Operations :
            \E row : cr' = [cr EXCEPT ![d] = row] /\ row.op = op
      <4>1. PICK d \in CRs, u \in Users, op \in Operations, t \in Targets \cup {None},
                 p \in Patches : Create(d, u, op, t, p)
        BY <2>1
      <4>2. PICK b : cr' = [cr EXCEPT ![d] = [status |-> "draft", op |-> op, target |-> t,
                                             base |-> b, patch |-> p, author |-> u]]
        BY <4>1 DEF Create
      <4>3. QED
        BY <4>2
    <3>2. QED
      BY <1>2, <3>1 DEF TypeInv, RowsOK, Exists
  <2>2. CASE \E h \in Handlers : Continue(h)
    <3>1. PICK h \in Handlers : Continue(h)
      BY <2>2
    <3>2. /\ req[h].pc \notin {"idle", "sweep"} => Exists(req[h].id)
          /\ \A d \in req[h].todo : Exists(d)
      BY Running DEF TypeInv, LocalOK
    <3>3. ASSUME NEW d \in CRs, Exists(d), NEW s, SetStatus(d, s) PROVE FALSE
      BY <1>2, <3>3 DEF SetStatus, TypeInv, RowsOK, Row, Exists
    <3>4. UNCHANGED cr => FALSE
      BY <1>2 DEF Exists
    <3>5. CASE WritePatch(h)
      BY <1>2, <3>2, <3>5 DEF WritePatch, At, TypeInv, RowsOK, Row, Exists
    <3>6. CASE \/ WriteSubmit(h) \/ Finalize(h) \/ MarkUnderReview(h) \/ CommitConflict(h)
               \/ ApplyCreate(h) \/ ApplyPersonUpdate(h) \/ LosePersonUpdate(h)
               \/ ApplyPersonDelete(h) \/ ApplyUnit(h)
      <4>1. \E s : SetStatus(req[h].id, s)
        BY <3>6 DEF WriteSubmit, Finalize, MarkUnderReview, CommitConflict, Conflict,
           ApplyCreate, ApplyPersonUpdate, LosePersonUpdate, ApplyPersonDelete, ApplyUnit,
           Publish
      <4>2. Exists(req[h].id)
        BY <3>2, <3>6 DEF WriteSubmit, Finalize, MarkUnderReview, CommitConflict, ApplyCreate,
           ApplyPersonUpdate, LosePersonUpdate, UpdatesPerson, ApplyPersonDelete, ApplyUnit, At
      <4>3. QED
        BY <3>3, <4>1, <4>2 DEF Exists
    <3>7. CASE \E d \in CRs : Expire(h, d)
      BY <3>2, <3>3, <3>7 DEF Expire
    <3>8. CASE \/ UpsertReview(h) \/ CountApprovals(h) \/ Decide(h) \/ CheckTarget(h)
               \/ ReadBefore(h) \/ LoseUnit(h) \/ CallNext(h) \/ NotifyExpired(h)
      BY <3>4, <3>8 DEF UpsertReview, CountApprovals, Decide, CheckTarget, ReadBefore,
         LoseUnit, CallNext, NotifyExpired, store
    <3>9. QED
      BY <3>1, <3>5, <3>6, <3>7, <3>8 DEF Continue
  <2>3. CASE UNCHANGED cr
    BY <1>2, <2>3 DEF Exists
  <2>4. QED
    BY <2>1, <2>2, <2>3 DEF Next, TimePasses, Fail, Start, StartUpdate, StartSubmit,
       StartReview, StartSweep, UpdateSettings, DirectUpdate, DirectDelete, DirectDeleteUnit,
       store, vars
<1>3. QED
  BY <1>1, <1>2 DEF AsAsked, RowsKept, Kept, Exists

LEMMA SpecAsAsked == Spec => []AsAsked
<1>1. Init => AsAsked
  BY DEF Init, AsAsked, Exists, NoRow
<1>2. QED
  BY <1>1, AsAskedStep, SpecTypeInv, PTL DEF Spec

\* Where nobody asks for a deletion, whatever commits between the approval and the write, a
\* person is changed only at the version its author saw: creations have no target, and an
\* update's UPDATE names the version.
THEOREM UpdatesMeetTheirVersion == "delete" \notin Operations => (Spec => AppliedToBaseVersion)
<1> SUFFICES ASSUME "delete" \notin Operations PROVE Spec => AppliedToBaseVersion
  OBVIOUS
<1> DEFINE Met == \A c \in CRs :
                    applied'[c] > applied[c] /\ cr[c].target \in Persons
                    => person[cr[c].target].version = cr[c].base
<1>1. AsAsked /\ TypeInv /\ [Next]_vars => [Met]_vars
  <2> SUFFICES ASSUME AsAsked, TypeInv, [Next]_vars, NEW c \in CRs,
                      applied'[c] > applied[c], cr[c].target \in Persons
               PROVE  person[cr[c].target].version = cr[c].base
    OBVIOUS
  <2>1. applied[c] \in Nat
    BY DEF TypeInv, RestOK
  <2>2. PICK h \in Handlers : Writes(h, c)
    BY <2>1, Appliers
  <2>3. Exists(c) /\ cr[c].op # "create" /\ cr[c].op # "delete"
    BY <2>2, ConstantsOK DEF Writes, AsAsked, TypeInv, RowsOK
  <2>4. Updates(c)
    BY <2>3 DEF Updates, TypeInv, RowsOK, Row
  <2>5. QED
    BY <2>2, <2>4 DEF Writes
<1>2. QED
  BY <1>1, SpecAsAsked, SpecTypeInv, PTL DEF Spec, AppliedToBaseVersion

-----------------------------------------------------------------------------
(* What can happen to a slot in one step, as far as the count of the         *)
(* approvals and the announcements still to be made are concerned.           *)

Announcements == {"approved", "published", "accept"}

\* The function still has to tell somebody of a publication.
Tells(r) ==
  r.pc = "after" /\ \E i \in DOMAIN r.after : r.after[i] \in Announcements

Silent == PCs \ {"decide", "publish", "before", "apply", "after"}

SlotStep(h) ==
  \/ req'[h] = req[h]
  \/ req'[h].pc \in Silent
  \/ CountApprovals(h) \/ Decide(h) \/ CallNext(h)
  \/ /\ req[h].pc \in {"publish", "before"}
     /\ req'[h].pc \in {"before", "apply"} /\ req'[h].id = req[h].id
  \/ req'[h].pc = "after" /\ ~Tells(req'[h])
  \/ Publish(h) /\ req[h].pc = "apply"

LEMMA SlotStepOne ==
  ASSUME SlotsOK, NEW h \in Handlers, NEW r, Moves(h, r)
  PROVE  req'[h] = r /\ \A g \in Handlers \ {h} : req'[g] = req[g]
  BY DEF SlotsOK, Moves

LEMMA QuietThen ==
  ASSUME SlotsOK, NEW h \in Handlers,
         \/ \E s \in Notices \ Announcements :
              Then(h, <<s>>) \/ Then(h, <<"refuse", s>>)
         \/ Return(h)
  PROVE  /\ \A g \in Handlers \ {h} : req'[g] = req[g]
         /\ \/ req'[h].pc \in Silent
            \/ req'[h].pc = "after" /\ ~Tells(req'[h])
<1>1. CASE Return(h)
  <2>1. Idle.pc \in Silent
    BY DEF Idle, Silent, PCs
  <2>2. QED
    BY <1>1, <2>1, SlotStepOne DEF Return, Moves
<1>2. ASSUME NEW s \in Notices \ Announcements,
             NEW calls \in {<<s>>, <<"refuse", s>>}, Then(h, calls)
      PROVE  /\ \A g \in Handlers \ {h} : req'[g] = req[g]
             /\ req'[h].pc = "after" /\ ~Tells(req'[h])
  <2>1. calls # <<>> /\ \A i \in DOMAIN calls : calls[i] \notin Announcements
    BY DEF Announcements
  <2>2. /\ req'[h].pc = "after" /\ req'[h].after = calls
        /\ \A g \in Handlers \ {h} : req'[g] = req[g]
    BY <1>2, <2>1 DEF Then, SlotsOK, Idle
  <2>3. QED
    BY <2>1, <2>2 DEF Tells
<1>3. QED
  BY <1>1, <1>2

LEMMA SlotSteps ==
  ASSUME TypeInv, [Next]_vars, NEW g \in Handlers PROVE SlotStep(g)
<1> USE DEF TypeInv
<1>1. CASE req' = req
  BY <1>1 DEF SlotStep
<1>2. ASSUME NEW h \in Handlers, Start(h) PROVE SlotStep(g)
  <2>0. ASSUME NEW r, r.pc \in Silent, Begin(h, r) PROVE SlotStep(g)
    BY <2>0, SlotStepOne DEF Begin, Moves, SlotStep
  <2>1. ASSUME NEW c \in CRs, NEW u \in Users, NEW p \in Patches,
               StartUpdate(h, c, u, p)
        PROVE  SlotStep(g)
    <3> DEFINE r == [Idle EXCEPT !.pc = "patch", !.id = c, !.patch = p]
    <3>1. r.pc \in Silent
      BY DEF Idle, Silent, PCs
    <3>2. QED
      BY <2>0, <2>1, <3>1 DEF StartUpdate
  <2>2. ASSUME NEW c \in CRs, StartSubmit(h, c) PROVE SlotStep(g)
    <3> DEFINE r == [Idle EXCEPT !.pc = "submit", !.id = c]
    <3>1. r.pc \in Silent
      BY DEF Idle, Silent, PCs
    <3>2. QED
      BY <2>0, <2>2, <3>1 DEF StartSubmit
  <2>3. ASSUME NEW c \in CRs, NEW u \in Users, NEW d \in Decisions,
               StartReview(h, c, u, d)
        PROVE  SlotStep(g)
    <3>1. PICK row : row = cr[c]
      OBVIOUS
    <3> DEFINE r == [Idle EXCEPT !.pc = "upsert", !.id = c, !.user = u,
                                 !.decision = d, !.snap = row]
    <3>2. r.pc \in Silent
      BY DEF Idle, Silent, PCs
    <3>3. QED
      BY <2>0, <2>3, <3>1, <3>2 DEF StartReview
  <2>4. CASE StartSweep(h)
    <3>1. PICK found : found = {c \in due : cr[c].status \in NonTerminal}
      OBVIOUS
    <3> DEFINE r == [Idle EXCEPT !.pc = "sweep", !.todo = found]
    <3>2. r.pc \in Silent
      BY DEF Idle, Silent, PCs
    <3>3. QED
      BY <2>0, <2>4, <3>1, <3>2 DEF StartSweep
  <2>5. QED
    BY <1>1, <1>2, <2>1, <2>2, <2>3, <2>4
       DEF Start, UpdateSettings, DirectUpdate, DirectDelete, DirectDeleteUnit
<1>3. ASSUME NEW h \in Handlers, Continue(h) PROVE SlotStep(g)
  <2>0. ASSUME \/ \E s \in Notices \ Announcements :
                    Then(h, <<s>>) \/ Then(h, <<"refuse", s>>)
               \/ Return(h)
        PROVE  SlotStep(g)
    BY <2>0, QuietThen DEF SlotStep
  <2>1. CASE \/ WritePatch(h) \/ MarkUnderReview(h) \/ LoseUnit(h)
    BY <2>0, <2>1 DEF WritePatch, MarkUnderReview, LoseUnit
  <2>2. CASE \/ WriteSubmit(h) \/ Finalize(h) \/ CommitConflict(h)
             \/ LosePersonUpdate(h)
    BY <2>0, <2>2 DEF WriteSubmit, Finalize, CommitConflict, LosePersonUpdate,
       Conflict, Notices, Announcements
  <2>3. CASE UpsertReview(h)
    BY <2>3 DEF UpsertReview, Goto, SlotStep, SlotsOK, Request, Silent, PCs
  <2>4. CASE CountApprovals(h) \/ Decide(h) \/ CallNext(h)
    <3>1. CASE g = h
      BY <2>4, <3>1 DEF SlotStep
    <3>2. CASE g # h
      BY <2>4, <3>2 DEF CountApprovals, Decide, CallNext, Goto, Then, SlotsOK,
         SlotStep
    <3>3. QED
      BY <3>1, <3>2
  <2>5. CASE CheckTarget(h) \/ ReadBefore(h)
    BY <2>5 DEF CheckTarget, ReadBefore, At, Goto, SlotStep, SlotsOK, Request,
       Silent, PCs
  <2>6. CASE \/ ApplyCreate(h) \/ ApplyPersonUpdate(h) \/ ApplyPersonDelete(h)
             \/ ApplyUnit(h)
    <3>1. Publish(h) /\ req[h].pc = "apply"
      BY <2>6 DEF ApplyCreate, ApplyPersonUpdate, UpdatesPerson,
         ApplyPersonDelete, ApplyUnit, At
    <3>2. CASE g # h
      BY <3>1, <3>2 DEF Publish, Then, SlotsOK, SlotStep
    <3>3. QED
      BY <3>1, <3>2 DEF SlotStep
  <2>7. CASE \E c \in CRs : Expire(h, c)
    BY <2>7 DEF Expire, SlotStep, SlotsOK, Request, Silent, PCs
  <2>8. CASE NotifyExpired(h)
    BY <2>8 DEF NotifyExpired, SlotStep, SlotsOK, Request, Silent, PCs, Idle
  <2>9. QED
    BY <1>3, <2>1, <2>2, <2>3, <2>4, <2>5, <2>6, <2>7, <2>8 DEF Continue
<1>4. ASSUME NEW h \in Handlers, Fail(h) PROVE SlotStep(g)
  BY <1>4, QuietThen DEF Fail, SlotStep
<1>5. QED
  BY <1>1, <1>2, <1>3, <1>4 DEF Next, Create, TimePasses, vars

-----------------------------------------------------------------------------
(* Nothing is applied without a quorum of members other than the author.     *)
(* Votes may be overwritten and the quorum may change while a review waits;  *)
(* approvedBy only grows and leastQuorum only shrinks, so what a review has  *)
(* established about them at one await still holds at the next.              *)

Enough(c) == Cardinality(approvedBy[c]) >= leastQuorum

Counted(r) ==
  /\ r.pc = "decide" => r.count <= Cardinality(approvedBy[r.id])
  /\ r.pc \in {"publish", "before", "apply"} => Enough(r.id)

VotesInv ==
  /\ leastQuorum <= settings.approvalsRequired
  /\ \A c \in CRs :
       /\ Approvals(c) \subseteq approvedBy[c]
       /\ Exists(c) => cr[c].author \notin approvedBy[c]
       /\ ~Exists(c) => approvedBy[c] = {}

QuorumInv ==
  /\ \A c \in CRs : applied[c] > 0 => Enough(c)
  /\ \A h \in Handlers : Counted(req[h])

LEMMA Voters ==
  ASSUME TypeInv, [Next]_vars
  PROVE  UNCHANGED <<review, approvedBy>> \/ \E h \in Handlers : UpsertReview(h)
<1>1. ASSUME NEW h \in Handlers, Start(h) PROVE UNCHANGED <<review, approvedBy>>
  BY <1>1 DEF Start, StartUpdate, StartSubmit, StartReview, StartSweep,
     UpdateSettings, DirectUpdate, DirectDelete, DirectDeleteUnit, store, history
<1>2. ASSUME NEW h \in Handlers, Continue(h), ~UpsertReview(h)
      PROVE  UNCHANGED <<review, approvedBy>>
  BY <1>2 DEF Continue, WritePatch, WriteSubmit, Finalize, CountApprovals,
     Decide, MarkUnderReview, CheckTarget, ReadBefore, CommitConflict,
     ApplyCreate, ApplyPersonUpdate, LosePersonUpdate, ApplyPersonDelete,
     ApplyUnit, LoseUnit, CallNext, Expire, NotifyExpired, store, history
<1>3. QED
  BY <1>1, <1>2 DEF Next, Create, TimePasses, Fail, store, history, vars

LEMMA QuorumChanges ==
  ASSUME TypeInv, [Next]_vars
  PROVE  \/ UNCHANGED <<settings, leastQuorum>>
         \/ \E h \in Handlers, n \in Quorums, e \in BOOLEAN : UpdateSettings(h, n, e)
<1>1. ASSUME NEW h \in Handlers, Start(h)
      PROVE  \/ UNCHANGED <<settings, leastQuorum>>
             \/ \E n \in Quorums, e \in BOOLEAN : UpdateSettings(h, n, e)
  BY <1>1 DEF Start, StartUpdate, StartSubmit, StartReview, StartSweep,
     DirectUpdate, DirectDelete, DirectDeleteUnit, store, history
<1>2. ASSUME NEW h \in Handlers, Continue(h)
      PROVE  UNCHANGED <<settings, leastQuorum>>
  BY <1>2 DEF Continue, WritePatch, WriteSubmit, UpsertReview, Finalize,
     CountApprovals, Decide, MarkUnderReview, CheckTarget, ReadBefore,
     CommitConflict, ApplyCreate, ApplyPersonUpdate, LosePersonUpdate,
     ApplyPersonDelete, ApplyUnit, LoseUnit, CallNext, Expire, NotifyExpired,
     store, history
<1>3. QED
  BY <1>1, <1>2 DEF Next, Create, TimePasses, Fail, store, history, vars

LEMMA VotersFinite ==
  ASSUME NEW c \in CRs
  PROVE  /\ TypeInv => Cardinality(approvedBy[c]) \in Nat
         /\ TypeInv' => Cardinality(approvedBy'[c]) \in Nat
  BY FS_Subset, FS_CardinalityType, ConstantsOK DEF TypeInv, RestOK

\* The two quantities move in one direction.
LEMMA VotesGrow ==
  ASSUME TypeInv, [Next]_vars
  PROVE  /\ leastQuorum' <= leastQuorum
         /\ \A c \in CRs :
              /\ approvedBy[c] \subseteq approvedBy'[c]
              /\ Cardinality(approvedBy[c]) <= Cardinality(approvedBy'[c])
              /\ Enough(c) => Enough(c)'
<1>1. leastQuorum' <= leastQuorum /\ leastQuorum \in Nat /\ leastQuorum' \in Nat
  BY QuorumChanges, NextTypeInv, ConstantsOK
     DEF UpdateSettings, TypeInv, RestOK
<1>2. ASSUME NEW c \in CRs
      PROVE  /\ approvedBy[c] \subseteq approvedBy'[c]
             /\ Cardinality(approvedBy[c]) <= Cardinality(approvedBy'[c])
             /\ Enough(c) => Enough(c)'
  <2>1. approvedBy[c] \subseteq approvedBy'[c]
    <3>1. ASSUME NEW h \in Handlers, UpsertReview(h)
          PROVE  approvedBy[c] \subseteq approvedBy'[c]
      BY <3>1 DEF UpsertReview, TypeInv, RestOK
    <3>2. QED
      BY <3>1, Voters
  <2>2. IsFiniteSet(approvedBy'[c])
    BY NextTypeInv, FS_Subset, ConstantsOK DEF TypeInv, RestOK
  <2>3. /\ Cardinality(approvedBy[c]) <= Cardinality(approvedBy'[c])
        /\ Cardinality(approvedBy[c]) \in Nat
        /\ Cardinality(approvedBy'[c]) \in Nat
    BY <2>1, <2>2, FS_Subset, FS_CardinalityType
  <2>4. QED
    BY <1>1, <2>1, <2>3 DEF Enough
<1>3. QED
  BY <1>1, <1>2

LEMMA VotesStep == VotesInv /\ TypeInv /\ [Next]_vars => VotesInv'
<1> SUFFICES ASSUME VotesInv, TypeInv, [Next]_vars PROVE VotesInv'
  OBVIOUS
<1>1. (leastQuorum <= settings.approvalsRequired)'
  <2>1. CASE UNCHANGED <<settings, leastQuorum>>
    BY <2>1 DEF VotesInv
  <2>2. ASSUME NEW h \in Handlers, NEW n \in Quorums, NEW e \in BOOLEAN,
               UpdateSettings(h, n, e)
        PROVE  leastQuorum' <= settings'.approvalsRequired
    <3>1. /\ n \in Nat /\ leastQuorum \in Nat /\ settings'.approvalsRequired = n
          /\ leastQuorum' = IF n < leastQuorum THEN n ELSE leastQuorum
      BY <2>2, ConstantsOK DEF UpdateSettings, TypeInv, RestOK
    <3>2. QED
      BY <3>1
  <2>3. QED
    BY <2>1, <2>2, QuorumChanges
<1>2. ASSUME NEW c \in CRs
      PROVE  /\ (Approvals(c) \subseteq approvedBy[c])'
             /\ (Exists(c) => cr[c].author \notin approvedBy[c])'
             /\ (~Exists(c) => approvedBy[c] = {})'
  <2>1. Exists(c) => Exists(c)' /\ cr'[c].author = cr[c].author
    BY RowsKeptLemma DEF RowsKept, Kept
  <2>2. CASE UNCHANGED <<review, approvedBy>>
    <3>1. Approvals(c)' = Approvals(c) /\ approvedBy'[c] = approvedBy[c]
      BY <2>2 DEF Approvals
    <3>2. QED
      BY <2>1, <3>1 DEF VotesInv
  <2>3. ASSUME NEW h \in Handlers, UpsertReview(h)
        PROVE  /\ (Approvals(c) \subseteq approvedBy[c])'
               /\ (Exists(c) => cr[c].author \notin approvedBy[c])'
               /\ (~Exists(c) => approvedBy[c] = {})'
    <3> DEFINE x == req[h]
    <3>1. /\ x.id \in CRs /\ Exists(x.id) /\ x.user \in Users
          /\ x.user # cr[x.id].author
      BY <2>3, Running DEF UpsertReview, At, Reviewing, TypeInv, SnapOK
    <3>2. CASE c # x.id
      <4>1. Approvals(c)' = Approvals(c) /\ approvedBy'[c] = approvedBy[c]
        BY <2>3, <3>1, <3>2 DEF UpsertReview, Approvals, TypeInv, RestOK
      <4>2. QED
        BY <2>1, <4>1 DEF VotesInv
    <3>3. CASE c = x.id
      <4>1. Approvals(c)' \subseteq approvedBy'[c]
        BY <2>3, <3>1, <3>3 DEF UpsertReview, Approvals, TypeInv, RestOK,
           VotesInv
      <4>2. approvedBy'[c] \subseteq approvedBy[c] \cup {x.user}
        BY <2>3, <3>1, <3>3 DEF UpsertReview, TypeInv, RestOK
      <4>3. QED
        BY <2>1, <3>1, <3>3, <4>1, <4>2 DEF VotesInv
    <3>4. QED
      BY <3>2, <3>3
  <2>4. QED
    BY <2>2, <2>3, Voters
<1>3. QED
  BY <1>1, <1>2 DEF VotesInv

LEMMA QuorumStep ==
  QuorumInv /\ VotesInv /\ TypeInv /\ [Next]_vars => QuorumInv'
<1> SUFFICES ASSUME QuorumInv, VotesInv, TypeInv, [Next]_vars PROVE QuorumInv'
  OBVIOUS
<1>1. ASSUME NEW c \in CRs, applied'[c] > 0 PROVE Enough(c)'
  <2>1. Enough(c)
    BY <1>1, Appliers DEF Writes, QuorumInv, Counted
  <2>2. QED
    BY <2>1, VotesGrow
<1>2. ASSUME NEW h \in Handlers PROVE Counted(req[h])'
  <2>1. PICK x \in Request : x = req[h] /\ Counted(x)
    BY Running DEF TypeInv, QuorumInv
  <2>2. x.pc \in Reviewing => x.id \in CRs
    BY <2>1, Running DEF TypeInv, Reviewing
  <2>3. CASE req'[h] = req[h]
    <3>1. Counted(x)'
      <4>1. CASE x.pc = "decide"
        <5>1. /\ x.count \in Nat /\ x.id \in CRs
              /\ x.count <= Cardinality(approvedBy[x.id])
          BY <2>1, <2>2, <4>1 DEF Reviewing, Counted, Request
        <5>2. Cardinality(approvedBy[x.id]) <= Cardinality(approvedBy'[x.id])
          BY <5>1, VotesGrow
        <5>3. /\ Cardinality(approvedBy[x.id]) \in Nat
              /\ Cardinality(approvedBy'[x.id]) \in Nat
          BY <5>1, VotersFinite, NextTypeInv
        <5>4. QED
          BY <4>1, <5>1, <5>2, <5>3 DEF Counted
      <4>2. CASE x.pc # "decide"
        BY <2>1, <2>2, <4>2, VotesGrow DEF Counted, Reviewing
      <4>3. QED
        BY <4>1, <4>2
    <3>2. QED
      BY <2>1, <2>3, <3>1
  <2>4. CASE req'[h].pc \in Silent \/ req'[h].pc = "after"
    BY <2>4 DEF Counted, Silent
  <2>5. CASE CountApprovals(h)
    <3>1. /\ req'[h].pc = "decide" /\ req'[h].id = x.id /\ x.id \in CRs
          /\ req'[h].count = Cardinality(Approvals(x.id))
      BY <2>1, <2>2, <2>5
         DEF CountApprovals, At, TypeInv, SlotsOK, Request, Reviewing
    <3>2. Cardinality(Approvals(x.id)) <= Cardinality(approvedBy[x.id])
      BY <3>1, FS_Subset, ConstantsOK DEF VotesInv, TypeInv, RestOK
    <3>3. approvedBy' = approvedBy
      BY <2>5 DEF CountApprovals, history
    <3>4. QED
      BY <3>1, <3>2, <3>3 DEF Counted
  <2>6. CASE Decide(h)
    <3>1. /\ x.pc = "decide" /\ x.id \in CRs /\ req'[h].id = x.id
          /\ \/ req'[h].pc = "wait"
             \/ /\ req'[h].pc = "publish"
                /\ x.count >= settings.approvalsRequired
      BY <2>1, <2>2, <2>6
         DEF Decide, Goto, At, TypeInv, SlotsOK, Request, Reviewing
    <3>2. /\ x.count \in Nat /\ settings.approvalsRequired \in Nat
          /\ Cardinality(approvedBy[x.id]) \in Nat /\ leastQuorum \in Nat
      BY <2>1, <3>1, FS_Subset, FS_CardinalityType, ConstantsOK
         DEF Request, TypeInv, RestOK
    <3>3. req'[h].pc = "publish" => Enough(x.id)
      BY <2>1, <3>1, <3>2 DEF Counted, VotesInv, Enough
    <3>4. Enough(x.id) => Enough(x.id)'
      BY <3>1, VotesGrow
    <3>5. QED
      BY <3>1, <3>3, <3>4 DEF Counted
  <2>7. CASE CallNext(h) \/ Publish(h)
    <3>1. ASSUME NEW calls, Then(h, calls) PROVE req'[h].pc \in {"idle", "after"}
      BY <3>1 DEF Then, Idle, TypeInv, SlotsOK
    <3>2. QED
      BY <2>7, <3>1 DEF CallNext, Publish, Counted
  <2>8. CASE /\ req[h].pc \in {"publish", "before"}
             /\ req'[h].pc \in {"before", "apply"} /\ req'[h].id = req[h].id
    <3>1. x.id \in CRs /\ Enough(x.id)
      BY <2>1, <2>2, <2>8 DEF Counted, Reviewing
    <3>2. Enough(x.id)'
      BY <3>1, VotesGrow
    <3>3. QED
      BY <2>1, <2>8, <3>2 DEF Counted
  <2>9. QED
    BY <2>3, <2>4, <2>5, <2>6, <2>7, <2>8, SlotSteps DEF SlotStep
<1>3. QED
  BY <1>1, <1>2 DEF QuorumInv

LEMMA SpecQuorum == Spec => [](VotesInv /\ QuorumInv)
<1>1. Init => VotesInv /\ QuorumInv
  <2> SUFFICES ASSUME Init PROVE VotesInv /\ QuorumInv
    OBVIOUS
  <2>1. leastQuorum <= settings.approvalsRequired
    BY ConstantsOK DEF Init
  <2>2. \A c \in CRs : Approvals(c) = {}
    BY ConstantsOK DEF Init, Approvals
  <2>3. QED
    BY <2>1, <2>2 DEF Init, VotesInv, QuorumInv, Exists, NoRow, Idle, Counted
<1>2. QED
  BY <1>1, VotesStep, QuorumStep, SpecTypeInv, PTL DEF Spec

\* Live data is only ever changed for a request that as many members, none of
\* them its author, have approved as the tenant's settings once asked for,
\* whatever happens between the vote, the count, the decision and the write.
THEOREM AppliesByQuorum == Spec => []AppliedByQuorum
<1>1. ASSUME VotesInv, QuorumInv, OnceInv, TypeInv PROVE AppliedByQuorum
  BY <1>1 DEF VotesInv, QuorumInv, OnceInv, Enough, AppliedByQuorum
<1>2. QED
  BY <1>1, SpecOnce, SpecQuorum, SpecTypeInv, PTL

-----------------------------------------------------------------------------
(* Publication is announced after the commit that made it true.              *)

ToldInv ==
  /\ PublishedWasApplied
  /\ \A h \in Handlers : Tells(req[h]) => applied[req[h].id] > 0

Claimed(c) ==
  \/ cr[c].status = "published"
  \/ sent[c] \cap {"approved", "published"} # {}
  \/ decided[c].accepted > 0

\* applied never decreases.
LEMMA AppliedGrows ==
  ASSUME TypeInv, [Next]_vars, NEW c \in CRs, applied[c] > 0
  PROVE  applied'[c] > 0
<1>1. applied[c] \in Nat
  BY DEF TypeInv, RestOK
<1>2. applied'[c] = applied[c] \/ applied'[c] = applied[c] + 1
  BY Appliers DEF Writes
<1>3. QED
  BY <1>1, <1>2

\* The call at the head of the queue is an announcement only if Tells.
LEMMA CallTells ==
  ASSUME TypeInv, NEW h \in Handlers, CallNext(h), NEW c \in CRs
  PROVE  /\ Claimed(c)' /\ ~Claimed(c) => c = req[h].id /\ Tells(req[h])
         /\ Tells(req'[h]) => Tells(req[h]) /\ req'[h].id = req[h].id
<1>1. PICK x \in Request : x = req[h]
  BY DEF TypeInv, SlotsOK
<1>2. /\ x.pc = "after" /\ x.after \in Seq(Calls) /\ x.after # <<>>
      /\ x.id \in CRs
  BY <1>1, Running DEF CallNext, At, TypeInv, LocalOK, Request
<1> DEFINE call == Head(x.after)
<1>3. call \in Announcements => Tells(x)
  BY <1>2 DEF Tells
<1>4. Claimed(c)' /\ ~Claimed(c) => c = x.id /\ call \in Announcements
  <2>1. cr' = cr
    BY DEF CallNext
  <2>2. CASE c # x.id
    BY <1>1, <1>2, <2>1, <2>2 DEF CallNext, Claimed, TypeInv, RestOK
  <2>3. CASE c = x.id
    <3>1. call \notin Announcements =>
            /\ sent'[c] \cap {"approved", "published"}
                 = sent[c] \cap {"approved", "published"}
            /\ decided'[c].accepted = decided[c].accepted
      BY <1>1, <1>2, <2>3 DEF CallNext, TypeInv, RestOK, Announcements
    <3>2. QED
      BY <2>1, <2>3, <3>1 DEF Claimed
  <2>4. QED
    BY <2>2, <2>3
<1>5. CASE Tail(x.after) = <<>>
  <2>1. req'[h] = Idle
    BY <1>1, <1>5 DEF CallNext, Then, TypeInv, SlotsOK
  <2>2. ~Tells(req'[h])
    BY <2>1 DEF Tells, Idle
  <2>3. QED
    BY <1>1, <1>3, <1>4, <2>2
<1>6. CASE Tail(x.after) # <<>>
  <2>1. /\ req'[h].pc = "after" /\ req'[h].id = x.id
        /\ req'[h].after = Tail(x.after)
    BY <1>1, <1>6 DEF CallNext, Then, TypeInv, SlotsOK, Idle
  <2>2. ASSUME NEW i \in DOMAIN Tail(x.after), Tail(x.after)[i] \in Announcements
        PROVE  i + 1 \in DOMAIN x.after /\ x.after[i + 1] \in Announcements
    BY <1>2, <2>2
  <2>3. Tells(req'[h]) => Tells(x)
    BY <1>2, <2>1, <2>2 DEF Tells
  <2>4. QED
    BY <1>1, <1>3, <1>4, <2>1, <2>3
<1>7. QED
  BY <1>5, <1>6

\* Who makes a claim about c that was not made before.
LEMMA Claims ==
  ASSUME TypeInv, [Next]_vars, NEW c \in CRs, Claimed(c)', ~Claimed(c)
  PROVE  \/ applied'[c] > 0
         \/ \E h \in Handlers : CallNext(h) /\ c = req[h].id /\ Tells(req[h])
<1> USE DEF TypeInv
<1>0. ASSUME \/ cr'[c].status = cr[c].status
             \/ cr'[c].status # "published",
             UNCHANGED <<sent, decided>>
      PROVE  FALSE
  BY <1>0 DEF Claimed
<1>1. ASSUME NEW s, s # "published", NEW d, SetStatus(d, s),
             UNCHANGED <<sent, decided>>
      PROVE  FALSE
  BY <1>0, <1>1 DEF SetStatus, RowsOK, Row
<1>2. ASSUME NEW h \in Handlers, Continue(h)
      PROVE  \/ applied'[c] > 0
             \/ CallNext(h) /\ c = req[h].id /\ Tells(req[h])
  <2>1. CASE \/ ApplyCreate(h) \/ ApplyPersonUpdate(h) \/ ApplyPersonDelete(h)
             \/ ApplyUnit(h)
    <3>1. /\ SetStatus(req[h].id, "published") /\ UNCHANGED <<sent, decided>>
          /\ applied' = [applied EXCEPT ![req[h].id] = @ + 1]
      BY <2>1 DEF ApplyCreate, ApplyPersonUpdate, ApplyPersonDelete, ApplyUnit,
         Publish
    <3>2. CASE c = req[h].id
      BY <3>1, <3>2 DEF RestOK
    <3>3. CASE c # req[h].id
      BY <1>0, <3>1, <3>3 DEF SetStatus, RowsOK
    <3>4. QED
      BY <3>2, <3>3
  <2>2. CASE CallNext(h)
    BY <2>2, CallTells
  <2>3. CASE NotifyExpired(h)
    BY <2>3 DEF NotifyExpired, Claimed, RestOK
  <2>4. CASE WritePatch(h)
    BY <1>0, <2>4 DEF WritePatch, RowsOK, Row
  <2>5. CASE WriteSubmit(h) \/ Finalize(h) \/ MarkUnderReview(h)
    BY <1>1, <2>5 DEF WriteSubmit, Finalize, MarkUnderReview
  <2>6. CASE CommitConflict(h) \/ LosePersonUpdate(h)
    BY <1>1, <2>6 DEF CommitConflict, LosePersonUpdate, Conflict
  <2>7. CASE \E d \in CRs : Expire(h, d)
    BY <1>1, <2>7 DEF Expire
  <2>8. CASE \/ UpsertReview(h) \/ CountApprovals(h) \/ Decide(h)
             \/ CheckTarget(h) \/ ReadBefore(h) \/ LoseUnit(h)
    BY <1>0, <2>8 DEF UpsertReview, CountApprovals, Decide, CheckTarget,
       ReadBefore, LoseUnit, store
  <2>9. QED
    BY <1>2, <2>1, <2>2, <2>3, <2>4, <2>5, <2>6, <2>7, <2>8 DEF Continue
<1>3. ASSUME NEW h \in Handlers, Start(h) PROVE FALSE
  BY <1>0, <1>3 DEF Start, StartUpdate, StartSubmit, StartReview, StartSweep,
     UpdateSettings, DirectUpdate, DirectDelete, DirectDeleteUnit, store
<1>4. ASSUME NEW d \in CRs, NEW u \in Users, NEW op \in Operations,
             NEW t \in Targets \cup {None}, NEW p \in Patches,
             Create(d, u, op, t, p)
      PROVE  FALSE
  BY <1>0, <1>4 DEF Create, RowsOK
<1>5. QED
  BY <1>0, <1>2, <1>3, <1>4 DEF Next, TimePasses, Fail, store, vars

LEMMA ToldStep == ToldInv /\ TypeInv /\ [Next]_vars => ToldInv'
<1> SUFFICES ASSUME ToldInv, TypeInv, [Next]_vars PROVE ToldInv'
  OBVIOUS
<1>1. ASSUME NEW c \in CRs, Claimed(c)' PROVE applied'[c] > 0
  <2>1. CASE Claimed(c)
    BY <2>1, AppliedGrows DEF ToldInv, PublishedWasApplied, Claimed
  <2>2. CASE ~Claimed(c)
    BY <1>1, <2>2, Claims, AppliedGrows DEF ToldInv
  <2>3. QED
    BY <2>1, <2>2
<1>2. ASSUME NEW h \in Handlers, Tells(req'[h]) PROVE applied'[req'[h].id] > 0
  <2>0. Tells(req[h]) /\ req'[h].id = req[h].id => applied'[req'[h].id] > 0
    <3>1. Tells(req[h]) => req[h].id \in CRs
      BY Running DEF Tells, TypeInv
    <3>2. QED
      BY <3>1, AppliedGrows DEF ToldInv
  <2>1. CASE req'[h] = req[h]
    BY <1>2, <2>0, <2>1
  <2>2. CASE \/ req'[h].pc \in Silent \/ ~Tells(req'[h])
             \/ req'[h].pc \in {"before", "apply"}
    BY <1>2, <2>2 DEF Tells, Silent
  <2>3. CASE CountApprovals(h) \/ Decide(h)
    <3>1. req'[h].pc \in {"decide", "publish", "wait"}
      BY <2>3 DEF CountApprovals, Decide, Goto, TypeInv, SlotsOK, Request
    <3>2. QED
      BY <1>2, <3>1 DEF Tells
  <2>4. CASE CallNext(h)
    <3>1. h \in Handlers /\ req[h].id \in CRs
      BY <2>4, Running DEF CallNext, At, TypeInv
    <3>2. QED
      BY <1>2, <2>0, <2>4, <3>1, CallTells
  <2>5. CASE Publish(h) /\ req[h].pc = "apply"
    <3>1. req[h].id \in CRs /\ applied' = [applied EXCEPT ![req[h].id] = @ + 1]
      BY <2>5, Running DEF Publish, TypeInv
    <3>2. req'[h].id = req[h].id
      <4>1. ASSUME NEW calls, calls # <<>>, Then(h, calls)
            PROVE  req'[h].id = req[h].id
        BY <4>1 DEF Then, Idle, TypeInv, SlotsOK
      <4>2. QED
        BY <2>5, <4>1 DEF Publish
    <3>3. QED
      BY <3>1, <3>2 DEF TypeInv, RestOK
  <2>6. QED
    BY <2>1, <2>2, <2>3, <2>4, <2>5, SlotSteps DEF SlotStep
<1>3. QED
  BY <1>1, <1>2 DEF ToldInv, PublishedWasApplied, Claimed

\* Nobody is told of a publication that did not happen and no contribution is
\* counted as accepted before its patch is live, even if the process dies
\* anywhere in between.
THEOREM PublicationIsReal == Spec => []PublishedWasApplied
<1>1. Init => ToldInv
  BY DEF Init, ToldInv, PublishedWasApplied, NoRow, Idle, Tells
<1>2. ToldInv => PublishedWasApplied
  BY DEF ToldInv
<1>3. QED
  BY <1>1, <1>2, ToldStep, SpecTypeInv, PTL DEF Spec

-----------------------------------------------------------------------------
(* One function at a time: what it has read stays so until its write.  Only  *)
(* authors who insert a request, and the clock, go on beside it.             *)

Settled == {"published", "rejected"}

\* What is left to call after a write; the last four count a contribution.
Counting == {<<"refuse", "rejected">>, <<"approved", "published", "accept">>,
             <<"published", "accept">>, <<"accept">>}
Agendas == Counting \cup
  {<<"submitted">>, <<"conflict">>, <<"rejected">>, <<"changes_requested">>,
   <<"approved", "published">>, <<"published">>}

Uncounted(c) == decided[c].accepted = 0 /\ decided[c].rejected = 0

\* What the function in flight has read is still so.
Undisturbed(r) ==
  /\ r.pc = "submit" => cr[r.id].status \in Editable
  /\ r.pc \in Reviewing => cr[r.id].status \in Active /\ r.snap = cr[r.id]
  /\ r.pc = "decide" => r.count = Cardinality(Approvals(r.id))
  /\ r.pc = "wait" => ~Quorum(r.id)
  /\ r.pc \in {"publish", "before", "apply", "conflict"} => Quorum(r.id)
  /\ r.pc \in {"before", "apply"} /\ r.snap.target \in Persons =>
       person[r.snap.target].live /\ person[r.snap.target].version = r.snap.base
  /\ r.pc = "apply" /\ r.snap.target \in Persons =>
       r.father = person[r.snap.target].father
  /\ \A c \in r.todo : cr[c].status \in NonTerminal
  /\ r.pc = "after" => /\ r.after \in Agendas
                       /\ r.after \in Counting => Uncounted(r.id) /\ cr[r.id].status \in Settled

TallyInv ==
  /\ \A c \in CRs : cr[c].status \notin Settled => Uncounted(c)
  /\ CountedOnce

SerialInv == TallyInv /\ ClosureAgrees /\ \A h \in Handlers : Undisturbed(req[h])

LEMMA OneSlot ==
  ASSUME NEW h, Handlers = {h}, TallyInv', ClosureAgrees', Undisturbed(req[h])'
  PROVE  SerialInv'
BY DEF SerialInv

LEMMA StatusIs ==
  ASSUME RowsOK, NEW c \in CRs, NEW s, SetStatus(c, s)
  PROVE  \A d \in CRs : cr'[d].status = IF d = c THEN s ELSE cr[d].status
BY DEF RowsOK, SetStatus, Row

LEMMA IdleUndisturbed == Undisturbed(Idle)'
BY DEF Undisturbed, Idle, Reviewing

LEMMA TallyKeeps ==
  ASSUME TallyInv, decided' = decided,
         \A c \in CRs : cr[c].status \in Settled => cr'[c].status \in Settled
  PROVE  TallyInv'
BY DEF TallyInv, Uncounted, CountedOnce

LEMMA ThenIs ==
  ASSUME SlotsOK, NEW h \in Handlers, NEW calls, Then(h, calls)
  PROVE  /\ calls = <<>> => req'[h] = Idle
         /\ calls # <<>> => /\ req'[h].pc = "after" /\ req'[h].id = req[h].id
                            /\ req'[h].after = calls /\ req'[h].todo = {}
BY DEF Then, SlotsOK, Idle

\* A status is written and the calls that follow from it remain.
LEMMA SettleKeeps ==
  ASSUME TypeInv, SerialInv, NEW h, Handlers = {h}, req[h].id \in CRs,
         NEW s, SetStatus(req[h].id, s), cr[req[h].id].status \notin Settled,
         NEW calls, Then(h, calls), calls \in Agendas, calls \in Counting => s \in Settled,
         decided' = decided
  PROVE  TallyInv' /\ Undisturbed(req[h])'
<1>1. PICK x : x = req[h].id
  OBVIOUS
<1>2. \A d \in CRs : cr'[d].status = IF d = x THEN s ELSE cr[d].status
  BY <1>1, StatusIs DEF TypeInv
<1>3. TallyInv'
  BY <1>1, <1>2, TallyKeeps DEF SerialInv
<1>4. calls # <<>>
  BY DEF Agendas, Counting
<1>5. /\ req'[h].pc = "after" /\ req'[h].id = x /\ req'[h].after = calls /\ req'[h].todo = {}
  BY <1>1, <1>4, ThenIs DEF TypeInv
<1>6. Uncounted(x)'
  BY <1>1 DEF SerialInv, TallyInv, Uncounted
<1>7. QED
  BY <1>1, <1>2, <1>3, <1>5, <1>6 DEF Undisturbed, Reviewing

\* Active and editable requests are not settled.
LEMMA OpenIsUnsettled == NonTerminal \cap Settled = {} /\ Active \subseteq NonTerminal
BY DEF NonTerminal, Active, Editable, Settled

LEMMA SlotBecomes ==
  ASSUME SlotsOK, NEW h \in Handlers, NEW r, req' = [req EXCEPT ![h] = r]
  PROVE  req'[h] = r
BY DEF SlotsOK

LEMMA StartUndisturbed ==
  ASSUME TypeInv, SerialInv, NEW h, Handlers = {h}, Start(h)
  PROVE  SerialInv'
<1> USE DEF TypeInv
<1>0. ASSUME NEW r \in Request, Begin(h, r), UNCHANGED store, Undisturbed(r) PROVE SerialInv'
  <2>1. UNCHANGED <<cr, review, settings, person, closure, decided>>
    BY <1>0 DEF store
  <2>2. req'[h] = r
    BY <1>0, SlotBecomes DEF Begin
  <2>3. TallyInv' /\ ClosureAgrees'
    BY <2>1, TallyKeeps DEF SerialInv, ClosureAgrees
  <2>4. Undisturbed(req[h])'
    BY <1>0, <2>1, <2>2 DEF Undisturbed, Quorum, Approvals, Uncounted
  <2>5. QED
    BY <2>3, <2>4, OneSlot
<1>1. ASSUME NEW c \in CRs, NEW u \in Users, NEW p \in Patches, StartUpdate(h, c, u, p)
      PROVE  SerialInv'
  <2>1. PICK r : r = [Idle EXCEPT !.pc = "patch", !.id = c, !.patch = p]
    OBVIOUS
  <2>2. r \in Request /\ r.pc = "patch" /\ r.todo = {}
    BY <2>1, IdleOK DEF Idle, Request, PCs
  <2>3. Undisturbed(r)
    BY <2>2 DEF Undisturbed, Reviewing
  <2>4. QED
    BY <1>0, <1>1, <2>1, <2>2, <2>3 DEF StartUpdate
<1>2. ASSUME NEW c \in CRs, StartSubmit(h, c) PROVE SerialInv'
  <2>1. PICK r : r = [Idle EXCEPT !.pc = "submit", !.id = c]
    OBVIOUS
  <2>2. r \in Request /\ r.pc = "submit" /\ r.id = c /\ r.todo = {}
    BY <2>1, IdleOK DEF Idle, Request, PCs
  <2>3. Undisturbed(r)
    BY <1>2, <2>2 DEF StartSubmit, Undisturbed, Reviewing
  <2>4. QED
    BY <1>0, <1>2, <2>1, <2>2, <2>3 DEF StartSubmit
<1>3. ASSUME NEW c \in CRs, NEW u \in Users, NEW d \in Decisions, StartReview(h, c, u, d)
      PROVE  SerialInv'
  <2>1. PICK row \in Row : row = cr[c]
    BY DEF RowsOK
  <2>2. PICK r : r = [Idle EXCEPT !.pc = "upsert", !.id = c, !.user = u, !.decision = d, !.snap = row]
    OBVIOUS
  <2>3. r \in Request /\ r.pc = "upsert" /\ r.id = c /\ r.snap = row /\ r.todo = {}
    BY <2>2, IdleOK DEF Idle, Request, PCs
  <2>4. Undisturbed(r)
    BY <1>3, <2>1, <2>3 DEF StartReview, Undisturbed, Reviewing
  <2>5. QED
    BY <1>0, <1>3, <2>1, <2>2, <2>3, <2>4 DEF StartReview
<1>4. CASE StartSweep(h)
  <2>1. PICK found \in SUBSET CRs : found = {c \in due : cr[c].status \in NonTerminal}
    BY DEF RestOK
  <2>2. PICK r : r = [Idle EXCEPT !.pc = "sweep", !.todo = found]
    OBVIOUS
  <2>3. r \in Request /\ r.pc = "sweep" /\ r.todo = found
    BY <2>2, IdleOK DEF Idle, Request, PCs
  <2>4. Undisturbed(r)
    BY <2>1, <2>3 DEF Undisturbed, Reviewing
  <2>5. QED
    BY <1>0, <1>4, <2>1, <2>2, <2>3, <2>4 DEF StartSweep
<1>5. ASSUME \/ \E n \in Quorums, e \in BOOLEAN : UpdateSettings(h, n, e)
             \/ \E t \in Persons, p \in Patches : DirectUpdate(h, t, p)
             \/ \E t \in Persons : DirectDelete(h, t)
             \/ \E t \in Units : DirectDeleteUnit(h, t)
      PROVE  SerialInv'
  <2>1. req[h].pc = "idle" /\ req' = req /\ cr' = cr /\ decided' = decided
    BY <1>5 DEF UpdateSettings, DirectUpdate, DirectDelete, DirectDeleteUnit, CanStart
  <2>2. TallyInv'
    BY <2>1, TallyKeeps DEF SerialInv
  <2>3. Undisturbed(req[h])'
    BY <2>1 DEF SerialInv, Undisturbed, Reviewing
  <2>4. ClosureAgrees'
    <3>1. CASE \E t \in Persons, p \in Patches : DirectUpdate(h, t, p)
      BY <3>1 DEF DirectUpdate, SerialInv, ClosureAgrees, RestOK, PersonRow
    <3>2. CASE \E t \in Persons : DirectDelete(h, t)
      BY <3>2 DEF DirectDelete, SerialInv, ClosureAgrees, RestOK, PersonRow
    <3>3. CASE UNCHANGED <<person, closure>>
      BY <3>3 DEF SerialInv, ClosureAgrees
    <3>4. QED
      BY <1>5, <3>1, <3>2, <3>3 DEF UpdateSettings, DirectDeleteUnit
  <2>5. QED
    BY <2>2, <2>3, <2>4, OneSlot
<1>6. QED
  BY <1>1, <1>2, <1>3, <1>4, <1>5, Zenon DEF Start

\* A function at an await works on a request; a review on one in review.
LEMMA InFlight ==
  ASSUME TypeInv, SerialInv, NEW h, Handlers = {h}
  PROVE  /\ h \in Handlers /\ req[h] \in Request /\ Undisturbed(req[h])
         /\ req[h].pc \notin {"idle", "sweep"} => req[h].id \in CRs
         /\ req[h].pc \in Reviewing => /\ cr[req[h].id].status \notin Settled
                                       /\ req[h].snap = cr[req[h].id]
BY Running, OpenIsUnsettled DEF TypeInv, SerialInv, Undisturbed

LEMMA PublishKeeps ==
  ASSUME TypeInv, SerialInv, NEW h, Handlers = {h}, req[h].pc \in Reviewing,
         Publish(h), decided' = decided
  PROVE  TallyInv' /\ Undisturbed(req[h])'
<1>1. PICK calls :
        /\ Then(h, calls)
        /\ calls \in {<<"approved", "published", "accept">>, <<"approved", "published">>}
  BY Zenon DEF Publish
<1>2. calls \in Agendas /\ SetStatus(req[h].id, "published")
  BY <1>1 DEF Agendas, Counting, Publish
<1>3. req[h].id \in CRs /\ cr[req[h].id].status \notin Settled
  BY InFlight DEF Reviewing
<1>4. QED
  BY <1>1, <1>2, <1>3, SettleKeeps DEF Settled

LEMMA ConflictKeeps ==
  ASSUME TypeInv, SerialInv, NEW h, Handlers = {h}, req[h].pc \in Reviewing,
         Conflict(h), decided' = decided
  PROVE  TallyInv' /\ Undisturbed(req[h])'
<1>1. /\ SetStatus(req[h].id, "conflict") /\ Then(h, <<"conflict">>)
      /\ <<"conflict">> \in Agendas /\ <<"conflict">> \notin Counting
  BY DEF Conflict, Agendas, Counting
<1>2. req[h].id \in CRs /\ cr[req[h].id].status \notin Settled
  BY InFlight DEF Reviewing
<1>3. QED
  BY <1>1, <1>2, SettleKeeps

LEMMA GotoIs ==
  ASSUME SlotsOK, NEW h \in Handlers, NEW pc, Goto(h, pc)
  PROVE  /\ req'[h].pc = pc /\ req'[h].id = req[h].id /\ req'[h].snap = req[h].snap
         /\ req'[h].count = req[h].count /\ req'[h].father = req[h].father
         /\ req'[h].todo = req[h].todo
BY DEF SlotsOK, Goto, Request

\* The last step of a function, with the tables in order.
LEMMA ReturnKeeps ==
  ASSUME TypeInv, NEW h, Handlers = {h}, Return(h), TallyInv', ClosureAgrees'
  PROVE  SerialInv'
<1>1. req'[h] = Idle
  BY SlotBecomes DEF Return, TypeInv
<1>2. QED
  BY <1>1, IdleUndisturbed, OneSlot

\* Its steps up to the decision: they write no status.
LEMMA ReadsKeep ==
  ASSUME TypeInv, SerialInv, NEW h, Handlers = {h},
         \/ WritePatch(h) \/ UpsertReview(h) \/ CountApprovals(h) \/ Decide(h)
         \/ CheckTarget(h) \/ ReadBefore(h) \/ LoseUnit(h)
  PROVE  SerialInv'
<1>1. PICK x \in Request :
        /\ x = req[h] /\ h \in Handlers /\ Undisturbed(x)
        /\ x.pc \notin {"idle", "sweep"} => x.id \in CRs
  BY InFlight
<1>2. /\ \A c \in CRs : cr'[c].status = cr[c].status
      /\ UNCHANGED <<settings, person, closure, decided>>
  <2>1. CASE WritePatch(h)
    BY <2>1 DEF WritePatch, TypeInv, RowsOK, Row
  <2>2. CASE UNCHANGED <<cr, settings, person, closure, decided>>
    BY <2>2
  <2>3. QED
    BY <2>1, <2>2 DEF UpsertReview, CountApprovals, Decide, CheckTarget, ReadBefore, LoseUnit, store
<1>3. TallyInv' /\ ClosureAgrees'
  BY <1>2, TallyKeeps DEF SerialInv, ClosureAgrees
<1>4. CASE WritePatch(h)
  BY <1>1, <1>3, <1>4, ReturnKeeps DEF WritePatch
<1>5. CASE UpsertReview(h)
  <2>1. PICK pc \in {"count", "finalize"} : Goto(h, pc)
    BY <1>5 DEF UpsertReview
  <2>2. cr' = cr /\ x.pc = "upsert"
    BY <1>1, <1>5 DEF UpsertReview, At
  <2>3. Undisturbed(req[h])'
    BY <1>1, <2>1, <2>2, GotoIs DEF TypeInv, Undisturbed, Reviewing
  <2>4. QED
    BY <1>3, <2>3, OneSlot
<1>6. CASE CountApprovals(h)
  <2>1. PICK n : n = Cardinality(Approvals(x.id))
    OBVIOUS
  <2>2. req' = [req EXCEPT ![h].count = n, ![h].pc = "decide"] /\ x.pc = "count"
    BY <1>1, <1>6, <2>1 DEF CountApprovals, At
  <2>3. /\ req'[h].pc = "decide" /\ req'[h].count = n /\ req'[h].id = x.id
        /\ req'[h].snap = x.snap /\ req'[h].todo = x.todo
    BY <1>1, <2>2 DEF TypeInv, SlotsOK, Request
  <2>4. UNCHANGED <<cr, review>>
    BY <1>6 DEF CountApprovals, store
  <2>5. Undisturbed(req[h])'
    BY <1>1, <2>1, <2>2, <2>3, <2>4 DEF Undisturbed, Reviewing, Approvals
  <2>6. QED
    BY <1>3, <2>5, OneSlot
<1>7. CASE Decide(h)
  <2>1. PICK pc : Goto(h, pc) /\ pc = IF x.count >= settings.approvalsRequired
                                        THEN "publish" ELSE "wait"
    BY <1>1, <1>7 DEF Decide
  <2>2. UNCHANGED <<cr, review, settings>> /\ x.pc = "decide"
    BY <1>1, <1>7 DEF Decide, At, store
  <2>3. pc = IF Quorum(x.id) THEN "publish" ELSE "wait"
    BY <1>1, <2>1, <2>2 DEF Undisturbed, Quorum
  <2>4. Undisturbed(req[h])'
    BY <1>1, <2>1, <2>2, <2>3, GotoIs DEF TypeInv, Undisturbed, Reviewing, Quorum, Approvals
  <2>5. QED
    BY <1>3, <2>4, OneSlot
<1>8. CASE CheckTarget(h)
  <2>1. PICK pc \in {"apply", "conflict", "before"} : Goto(h, pc)
    BY Zenon, <1>8 DEF CheckTarget
  <2>2. UNCHANGED <<cr, review, settings, person>> /\ x.pc = "publish"
    BY <1>1, <1>8 DEF CheckTarget, At, store
  <2>3. /\ pc = "before" => /\ person[x.snap.target].live
                            /\ person[x.snap.target].version = x.snap.base
        /\ pc = "apply" => x.snap.target \notin Persons
    <3>1. PICK row : row = x.snap
      OBVIOUS
    <3>2. row.op = "create" => row.target \notin Persons
      BY <1>1, <2>2, <3>1, InFlight, Running, ConstantsOK DEF TypeInv, RowsOK, Reviewing
    <3>3. /\ pc = "before" => /\ person[row.target].live
                              /\ person[row.target].version = row.base
          /\ pc = "apply" => row.op = "create" \/ row.target \notin Persons
      <4>1. req'[h].pc = pc
        BY <1>1, <2>1, GotoIs DEF TypeInv
      <4>2. PICK stale \in BOOLEAN :
              stale <=> \/ /\ row.target \in Persons
                           /\ \/ row.base = 0
                              \/ ~person[row.target].live
                              \/ person[row.target].version # row.base
                        \/ row.target \in Units /\ ~unit[row.target].live
        OBVIOUS
      <4>3. PICK q : /\ Goto(h, q)
                     /\ q = IF row.op = "create" THEN "apply"
                            ELSE IF stale THEN "conflict"
                            ELSE IF row.target \in Persons THEN "before" ELSE "apply"
        BY Zenon, <1>1, <1>8, <3>1, <4>2 DEF CheckTarget
      <4>4. q = pc
        BY <1>1, <4>1, <4>3, GotoIs DEF TypeInv
      <4>5. QED
        BY <4>2, <4>3, <4>4
    <3>4. QED
      BY <3>1, <3>2, <3>3
  <2>4. Undisturbed(req[h])'
    BY <1>1, <2>1, <2>2, <2>3, GotoIs DEF TypeInv, Undisturbed, Reviewing, Quorum, Approvals
  <2>5. QED
    BY <1>3, <2>4, OneSlot
<1>9. CASE ReadBefore(h)
  <2>1. PICK p, pc, f :
          /\ p = person[x.snap.target] /\ f = p.father
          /\ pc = IF p.live THEN "apply" ELSE "conflict"
          /\ pc \in {"apply", "conflict"}
    OBVIOUS
  <2>2. req' = [req EXCEPT ![h].pc = pc, ![h].father = f] /\ x.pc = "before"
    BY <1>1, <1>9, <2>1 DEF ReadBefore, At
  <2>3. /\ req'[h].pc = pc /\ req'[h].father = f /\ req'[h].id = x.id
        /\ req'[h].snap = x.snap /\ req'[h].todo = x.todo
    BY <1>1, <2>2 DEF TypeInv, SlotsOK, Request
  <2>4. UNCHANGED <<cr, review, settings, person>>
    BY <1>9 DEF ReadBefore, store
  <2>5. PICK y : y = req'[h]
    OBVIOUS
  <2>6. Undisturbed(y)'
    <3>1. /\ Quorum(x.id)' /\ cr'[x.id].status \in Active /\ x.snap = cr'[x.id]
          /\ \A c \in x.todo : cr'[c].status \in NonTerminal
      BY <1>1, <2>2, <2>4 DEF Undisturbed, Reviewing, Quorum, Approvals
    <3>2. x.snap.target \in Persons =>
            /\ person'[x.snap.target].live
            /\ person'[x.snap.target].version = x.snap.base
            /\ f = person'[x.snap.target].father
      BY <1>1, <2>1, <2>2, <2>4 DEF Undisturbed
    <3>3. QED
      BY <2>1, <2>3, <2>5, <3>1, <3>2 DEF Undisturbed, Reviewing
  <2>7. QED
    BY <1>3, <2>5, <2>6, OneSlot
<1>10. CASE LoseUnit(h)
  BY <1>1, <1>3, <1>10, ReturnKeeps DEF LoseUnit
<1>11. QED
  BY <1>4, <1>5, <1>6, <1>7, <1>8, <1>9, <1>10

\* ... the writes of a status and of live data,
LEMMA WritesKeep ==
  ASSUME TypeInv, SerialInv, NEW h, Handlers = {h},
         \/ WriteSubmit(h) \/ Finalize(h) \/ MarkUnderReview(h) \/ CommitConflict(h)
         \/ ApplyCreate(h) \/ ApplyPersonUpdate(h) \/ LosePersonUpdate(h)
         \/ ApplyPersonDelete(h) \/ ApplyUnit(h)
  PROVE  SerialInv'
<1>1. PICK x \in Request :
        /\ x = req[h] /\ h \in Handlers /\ Undisturbed(x)
        /\ x.pc \notin {"idle", "sweep"} => x.id \in CRs
        /\ x.pc \in Reviewing => cr[x.id].status \notin Settled /\ x.snap = cr[x.id]
  BY InFlight
<1>2. decided' = decided
  BY DEF WriteSubmit, Finalize, MarkUnderReview, CommitConflict, ApplyCreate,
         ApplyPersonUpdate, LosePersonUpdate, ApplyPersonDelete, ApplyUnit
<1>3. UNCHANGED <<person, closure>> => ClosureAgrees'
  BY DEF SerialInv, ClosureAgrees
<1>4. CASE WriteSubmit(h)
  <2>1. /\ SetStatus(x.id, "submitted") /\ Then(h, <<"submitted">>) /\ x.pc = "submit"
        /\ UNCHANGED <<person, closure>>
    BY <1>1, <1>4 DEF WriteSubmit, At
  <2>2. /\ <<"submitted">> \in Agendas /\ <<"submitted">> \notin Counting
        /\ x.id \in CRs /\ cr[x.id].status \notin Settled
    BY <1>1, <2>1, OpenIsUnsettled DEF Agendas, Counting, Undisturbed, NonTerminal
  <2>3. QED
    BY <1>1, <1>2, <1>3, <2>1, <2>2, SettleKeeps, OneSlot
<1>5. CASE Finalize(h)
  <2>1. PICK s : s = IF x.decision = "reject" THEN "rejected" ELSE "changes_requested"
    OBVIOUS
  <2>2. PICK calls : calls = IF s = "rejected" /\ x.id \in Contributions
                               THEN <<"refuse", s>> ELSE <<s>>
    OBVIOUS
  <2>3. SetStatus(x.id, s) /\ Then(h, calls) /\ x.pc = "finalize"
    BY Zenon, <1>1, <1>5, <2>1, <2>2 DEF Finalize, At
  <2>4. calls \in Agendas
    BY <2>1, <2>2 DEF Agendas, Counting
  <2>5. calls \in Counting => s \in Settled
    BY <2>1, <2>2 DEF Counting, Settled
  <2>6. x.id \in CRs /\ cr[x.id].status \notin Settled
    BY <1>1, <2>3 DEF Reviewing
  <2>7. TallyInv' /\ Undisturbed(req[h])'
    BY <1>1, <1>2, <2>3, <2>4, <2>5, <2>6, SettleKeeps
  <2>8. UNCHANGED <<person, closure>>
    BY <1>5 DEF Finalize
  <2>9. QED
    BY <1>1, <1>3, <2>7, <2>8, OneSlot
<1>6. CASE MarkUnderReview(h)
  <2>1. /\ SetStatus(x.id, "under_review") /\ Return(h) /\ x.pc = "wait"
        /\ UNCHANGED <<person, closure>>
    BY <1>1, <1>6 DEF MarkUnderReview, At
  <2>2. TallyInv'
    BY <1>1, <1>2, <2>1, TallyKeeps, StatusIs DEF TypeInv, SerialInv, Reviewing
  <2>3. QED
    BY <1>1, <1>3, <2>1, <2>2, ReturnKeeps
<1>7. CASE CommitConflict(h)
  <2>1. Conflict(h) /\ x.pc = "conflict" /\ UNCHANGED <<person, closure>>
    BY <1>1, <1>7 DEF CommitConflict, At
  <2>2. QED
    BY <1>1, <1>2, <1>3, <2>1, ConflictKeeps, OneSlot DEF Reviewing
<1>8. ASSUME Publish(h), x.pc = "apply", ClosureAgrees' PROVE SerialInv'
  BY <1>1, <1>2, <1>8, PublishKeeps, OneSlot DEF Reviewing
<1>9. CASE ApplyCreate(h) \/ ApplyUnit(h)
  <2>1. Publish(h) /\ x.pc = "apply" /\ UNCHANGED <<person, closure>>
    BY <1>1, <1>9 DEF ApplyCreate, ApplyUnit, At
  <2>2. QED
    BY <1>3, <1>8, <2>1
<1>10. CASE ApplyPersonDelete(h)
  <2>1. Publish(h) /\ x.pc = "apply"
    BY <1>1, <1>10 DEF ApplyPersonDelete, At
  <2>2. PICK t \in Persons :
          /\ person' = [person EXCEPT ![t].live = FALSE]
          /\ closure' = [closure EXCEPT ![t] = None]
    BY <1>10 DEF ApplyPersonDelete
  <2>3. ClosureAgrees'
    BY <2>2 DEF TypeInv, RestOK, PersonRow, SerialInv, ClosureAgrees
  <2>4. QED
    BY <1>8, <2>1, <2>3
<1>11. CASE ApplyPersonUpdate(h)
  <2>1. Publish(h) /\ x.pc = "apply" /\ x.snap.target \in Persons
    BY <1>1, <1>11 DEF ApplyPersonUpdate, UpdatesPerson, At
  <2>2. PICK t, q, b :
          t = x.snap.target /\ t \in Persons /\ q = x.snap.patch /\ b = x.snap.base
    BY <2>1
  <2>3. x.father = person[t].father /\ person[t].live
    BY <1>1, <2>1, <2>2 DEF Undisturbed
  <2>4. closure' = IF q \in FatherPatches /\ q # x.father
                     THEN [closure EXCEPT ![t] = q] ELSE closure
    BY <1>1, <1>11, <2>2, <2>3 DEF ApplyPersonUpdate, MoveClosure, MovesClosure
  <2>5. person' = [person EXCEPT ![t] =
          [version |-> b + 1, live |-> TRUE, data |-> q,
           father |-> IF q \in FatherPatches THEN q ELSE person[t].father]]
    BY <1>1, <1>11, <2>2 DEF ApplyPersonUpdate, TypeInv, RestOK
  <2>6. /\ \A p \in Persons \ {t} : person'[p] = person[p]
        /\ person'[t].father = IF q \in FatherPatches THEN q ELSE person[t].father
    BY <2>2, <2>5 DEF TypeInv, RestOK
  <2>7. ClosureAgrees'
    BY <2>3, <2>4, <2>6 DEF TypeInv, RestOK, SerialInv, ClosureAgrees
  <2>8. QED
    BY <1>8, <2>1, <2>7
<1>12. CASE LosePersonUpdate(h)
  <2>1. x.pc = "apply" /\ x.snap.target \in Persons /\ ~VersionMatches(h)
    BY <1>1, <1>12 DEF LosePersonUpdate, UpdatesPerson, At
  <2>2. FALSE
    BY <1>1, <2>1 DEF Undisturbed, VersionMatches
  <2>3. QED
    BY <2>2
<1>13. QED
  BY <1>4, <1>5, <1>6, <1>7, <1>9, <1>10, <1>11, <1>12

\* ... the calls after a write, the sweep, and a failure.
LEMMA Agenda ==
  ASSUME NEW calls \in Agendas
  PROVE  /\ Tail(calls) = <<>> \/ Tail(calls) \in Agendas
         /\ Head(calls) \in {"accept", "refuse"} =>
              calls \in Counting /\ Tail(calls) \notin Counting
         /\ Tail(calls) \in Counting => calls \in Counting
         /\ <<>> \notin Counting
<1>1. /\ Tail(<<"refuse", "rejected">>) = <<"rejected">>
      /\ Tail(<<"approved", "published", "accept">>) = <<"published", "accept">>
      /\ Tail(<<"published", "accept">>) = <<"accept">>
      /\ Tail(<<"approved", "published">>) = <<"published">>
      /\ \A call : Tail(<<call>>) = <<>> /\ Head(<<call>>) = call
  OBVIOUS
<1>2. CASE calls = <<"refuse", "rejected">>
  BY <1>1, <1>2 DEF Agendas, Counting
<1>3. CASE calls = <<"approved", "published", "accept">>
  BY <1>1, <1>3 DEF Agendas, Counting
<1>4. CASE calls = <<"published", "accept">>
  BY <1>1, <1>4 DEF Agendas, Counting
<1>5. CASE calls = <<"approved", "published">>
  BY <1>1, <1>5 DEF Agendas, Counting
<1>6. CASE calls = <<"accept">>
  BY <1>1, <1>6 DEF Agendas, Counting
<1>7. CASE \E call \in Notices : calls = <<call>>
  BY <1>1, <1>7 DEF Agendas, Counting, Notices
<1>8. QED
  BY <1>2, <1>3, <1>4, <1>5, <1>6, <1>7 DEF Agendas, Counting, Notices

LEMMA CallKeeps ==
  ASSUME TypeInv, SerialInv, NEW h, Handlers = {h}, CallNext(h)
  PROVE  SerialInv'
<1>1. PICK x \in Request :
        /\ x = req[h] /\ h \in Handlers /\ Undisturbed(x) /\ x.pc = "after" /\ x.id \in CRs
  BY InFlight DEF CallNext, At
<1>2. PICK c, calls, call, rest :
        c \in CRs /\ c = x.id /\ calls = x.after /\ call = Head(calls) /\ rest = Tail(calls)
  BY <1>1
<1>3. calls \in Agendas /\ (calls \in Counting => Uncounted(c) /\ cr[c].status \in Settled)
  BY <1>1, <1>2 DEF Undisturbed
<1>4. Then(h, rest) /\ UNCHANGED <<cr, person, closure>>
  BY <1>1, <1>2 DEF CallNext
<1>5. /\ call \notin {"accept", "refuse"} => decided' = decided
      /\ call = "accept" => decided' = [decided EXCEPT ![c].accepted = @ + 1]
      /\ call = "refuse" => decided' = [decided EXCEPT ![c].rejected = @ + 1]
  BY <1>1, <1>2 DEF CallNext
<1>6. ClosureAgrees'
  BY <1>4 DEF SerialInv, ClosureAgrees
<1>7. TallyInv'
  <2>1. CASE decided' = decided
    BY <1>4, <2>1, TallyKeeps DEF SerialInv
  <2>2. CASE call \in {"accept", "refuse"}
    <3>1. Uncounted(c) /\ cr[c].status \in Settled
      BY <1>2, <1>3, <2>2, Agenda
    <3>2. \A d \in CRs \ {c} : decided'[d] = decided[d]
      BY <1>5, <2>2 DEF TypeInv, RestOK
    <3>3. decided'[c].accepted + decided'[c].rejected <= 1
      BY <1>5, <2>2, <3>1 DEF Uncounted, TypeInv, RestOK
    <3>4. QED
      BY <1>4, <3>1, <3>2, <3>3 DEF SerialInv, TallyInv, Uncounted, CountedOnce
  <2>3. QED
    BY <1>5, <2>1, <2>2
<1>8. Undisturbed(req[h])'
  <2>1. CASE rest = <<>>
    BY <1>1, <1>4, <2>1, ThenIs, IdleUndisturbed DEF TypeInv
  <2>2. CASE rest # <<>>
    <3>1. /\ req'[h].pc = "after" /\ req'[h].id = c /\ req'[h].after = rest
          /\ req'[h].todo = {}
      BY <1>1, <1>2, <1>4, <2>2, ThenIs DEF TypeInv
    <3>2. rest \in Agendas
      BY <1>2, <1>3, <2>2, Agenda
    <3>3. rest \in Counting => Uncounted(c)' /\ cr'[c].status \in Settled
      <4>1. rest \in Counting => calls \in Counting /\ call \notin {"accept", "refuse"}
        BY <1>2, <1>3, Agenda
      <4>2. QED
        BY <1>3, <1>4, <1>5, <4>1 DEF Uncounted
    <3>4. QED
      BY <3>1, <3>2, <3>3 DEF Undisturbed, Reviewing
  <2>3. QED
    BY <2>1, <2>2
<1>9. QED
  BY <1>6, <1>7, <1>8, OneSlot

LEMMA SweepKeeps ==
  ASSUME TypeInv, SerialInv, NEW h, Handlers = {h},
         (\E c \in CRs : Expire(h, c)) \/ NotifyExpired(h) \/ Fail(h)
  PROVE  SerialInv'
<1>1. PICK x \in Request : x = req[h] /\ h \in Handlers /\ Undisturbed(x)
  BY InFlight
<1>2. UNCHANGED <<person, closure, decided>> /\ ClosureAgrees'
  BY DEF Expire, NotifyExpired, Fail, store, SerialInv, ClosureAgrees
<1>3. CASE \E c \in CRs : Expire(h, c)
  <2>1. PICK c \in CRs : Expire(h, c)
    BY <1>3
  <2>2. SetStatus(c, "expired") /\ c \in x.todo /\ x.pc = "sweep"
    BY <1>1, <2>1 DEF Expire, At
  <2>3. cr[c].status \notin Settled /\ \A d \in x.todo : cr[d].status \in NonTerminal
    BY <1>1, <2>2, OpenIsUnsettled DEF Undisturbed
  <2>4. \A d \in CRs : cr'[d].status = IF d = c THEN "expired" ELSE cr[d].status
    BY <2>2, StatusIs DEF TypeInv
  <2>5. TallyInv'
    BY <1>2, <2>3, <2>4, TallyKeeps DEF SerialInv
  <2>6. req' = [req EXCEPT ![h].pc = "expired", ![h].id = c, ![h].todo = x.todo \ {c}]
    BY <1>1, <2>1 DEF Expire
  <2>7. req'[h].pc = "expired" /\ req'[h].todo = x.todo \ {c}
    BY <1>1, <2>6 DEF TypeInv, SlotsOK, Request
  <2>8. x.todo \subseteq CRs
    BY <1>1 DEF Request
  <2>9. Undisturbed(req[h])'
    BY <2>3, <2>4, <2>7, <2>8 DEF Undisturbed, Reviewing
  <2>10. QED
    BY <1>2, <2>5, <2>9, OneSlot
<1>4. CASE NotifyExpired(h)
  <2>1. UNCHANGED cr /\ x.pc = "expired"
    BY <1>1, <1>4 DEF NotifyExpired, At
  <2>2. TallyInv'
    BY <1>2, <2>1, TallyKeeps DEF SerialInv
  <2>3. PICK r : r = IF x.todo = {} THEN Idle ELSE [x EXCEPT !.pc = "sweep"]
    OBVIOUS
  <2>4. req'[h] = r
    BY <1>1, <1>4, <2>3 DEF NotifyExpired, TypeInv, SlotsOK
  <2>5. Undisturbed(r)'
    <3>1. CASE r = Idle
      BY <3>1, IdleUndisturbed
    <3>2. CASE r = [x EXCEPT !.pc = "sweep"]
      <4>1. r.pc = "sweep" /\ r.todo = x.todo
        BY <3>2 DEF Request
      <4>2. QED
        BY <1>1, <2>1, <4>1 DEF Undisturbed, Reviewing
    <3>3. QED
      BY <2>3, <3>1, <3>2
  <2>6. QED
    BY <1>2, <2>2, <2>4, <2>5, OneSlot
<1>5. CASE Fail(h)
  <2>1. TallyInv' /\ Return(h)
    BY <1>5, TallyKeeps DEF Fail, store, SerialInv
  <2>2. QED
    BY <1>2, <2>1, ReturnKeeps
<1>6. QED
  BY <1>3, <1>4, <1>5

\* Beside the function in flight: a new request, the clock, nothing.
LEMMA BesideKeeps ==
  ASSUME TypeInv, SerialInv, NEW h, Handlers = {h}, UNCHANGED <<req, decided, person, closure>>,
         UNCHANGED <<review, settings>>,
         \A c \in CRs : cr[c].status # "none" => cr'[c] = cr[c],
         \A c \in CRs : cr[c].status = "none" => cr'[c].status \notin Settled
  PROVE  SerialInv'
<1>1. PICK x \in Request :
        /\ x = req[h] /\ h \in Handlers /\ Undisturbed(x) /\ LocalOK(x)
  BY InFlight, Running DEF TypeInv
<1>2. ClosureAgrees'
  BY DEF SerialInv, ClosureAgrees
<1>3. TallyInv'
  BY DEF SerialInv, TallyInv, Uncounted, CountedOnce, Settled
<1>4. /\ x.pc \notin {"idle", "sweep"} => cr'[x.id] = cr[x.id]
      /\ \A c \in x.todo : cr'[c] = cr[c]
  BY <1>1 DEF LocalOK, Exists
<1>5. Undisturbed(x)'
  BY <1>1, <1>4 DEF Undisturbed, Reviewing, Quorum, Approvals, Uncounted
<1>6. QED
  BY <1>1, <1>2, <1>3, <1>5, OneSlot

LEMMA SerialStep ==
  ASSUME TypeInv, SerialInv, NEW h, Handlers = {h}, [Next]_vars
  PROVE  SerialInv'
<1>1. ASSUME NEW c \in CRs, NEW u \in Users, NEW op \in Operations,
             NEW t \in Targets \cup {None}, NEW p \in Patches, Create(c, u, op, t, p)
      PROVE  SerialInv'
  <2>1. PICK row : /\ cr' = [cr EXCEPT ![c] = row]
                   /\ row = [status |-> "draft", op |-> op, target |-> t,
                             base |-> IF t \in Persons THEN person[t].version ELSE 0,
                             patch |-> p, author |-> u]
    BY <1>1 DEF Create
  <2>2. UNCHANGED <<req, decided, person, closure, review, settings>> /\ cr[c].status = "none"
    BY <1>1 DEF Create
  <2>3. /\ \A d \in CRs : cr[d].status # "none" => cr'[d] = cr[d]
        /\ \A d \in CRs : cr[d].status = "none" => cr'[d].status \notin Settled
    BY <2>1, <2>2 DEF TypeInv, RowsOK, Settled
  <2>4. QED
    BY <2>2, <2>3, BesideKeeps
<1>2. CASE (\E c \in CRs : TimePasses(c)) \/ UNCHANGED vars
  <2>1. UNCHANGED <<req, cr, decided, person, closure, review, settings>>
    BY <1>2 DEF TimePasses, vars, store
  <2>2. QED
    BY <2>1, BesideKeeps DEF Settled
<1>3. CASE Start(h)
  BY <1>3, StartUndisturbed
<1>4. CASE Continue(h)
  BY <1>4, ReadsKeep, WritesKeep, CallKeeps, SweepKeeps, Zenon DEF Continue
<1>5. CASE Fail(h)
  BY <1>5, SweepKeeps
<1>6. QED
  BY <1>1, <1>2, <1>3, <1>4, <1>5, Zenon DEF Next

LEMMA InitSerial == Init => SerialInv
  BY IdleOK DEF Init, SerialInv, TallyInv, ClosureAgrees, CountedOnce, Uncounted,
     Undisturbed, Idle, Reviewing

LEMMA SpecSerial == (\E h : Handlers = {h}) => (Spec => []SerialInv)
<1> SUFFICES ASSUME \E h : Handlers = {h} PROVE Spec => []SerialInv
  OBVIOUS
<1>1. TypeInv /\ SerialInv /\ [Next]_vars => SerialInv'
  BY SerialStep
<1>2. QED
  BY <1>1, InitSerial, SpecTypeInv, PTL DEF Spec

\* A publication, a conflict and a failure of any request leave the lineage with the father
\* the person row names, when no other request runs between its statements.
THEOREM SerialLineageAgrees == (\E h : Handlers = {h}) => (Spec => []ClosureAgrees)
<1>1. SerialInv => ClosureAgrees
  BY DEF SerialInv
<1>2. QED
  BY <1>1, SpecSerial, PTL

\* A contribution decided by requests that do not overlap reaches the reputation of its author
\* at most once, as accepted or as rejected.
THEOREM SerialCountsOnce == (\E h : Handlers = {h}) => (Spec => []CountedOnce)
<1>1. SerialInv => CountedOnce
  BY DEF SerialInv, TallyInv
<1>2. QED
  BY <1>1, SpecSerial, PTL

-----------------------------------------------------------------------------
(* One function at a time, each step is a step of the abstract life cycle.   *)

LEMMA MapsMove ==
  ASSUME RowsOK, NEW c \in CRs, NEW from, NEW to, cr[c].status \in from,
         cr' \in [CRs -> Row],
         \A d \in CRs : cr'[d].status = IF d = c THEN to ELSE cr[d].status,
         UNCHANGED <<review, settings>>
  PROVE  Lifecycle!Move(c, from, to)
BY DEF Lifecycle!Move, Approvals

LEMMA MapsPublished ==
  ASSUME RestOK, NEW c \in CRs, applied' = [applied EXCEPT ![c] = @ + 1]
  PROVE  {d \in CRs : applied[d] > 0}' = {d \in CRs : applied[d] > 0} \cup {c}
BY DEF RestOK

LEMMA MapsQuorum ==
  ASSUME NEW c \in CRs PROVE Lifecycle!Quorate(c) <=> Quorum(c)
<1>1. \A S : Lifecycle!Cardinality(S) = Cardinality(S)
  BY DEF Lifecycle!Cardinality, Cardinality
<1>2. QED
  BY <1>1 DEF Lifecycle!Quorate, Quorum

LEMMA MapsStutter ==
  ASSUME \A c \in CRs : cr'[c].status = cr[c].status, UNCHANGED <<review, settings, applied>>
  PROVE  UNCHANGED Lifecycle!vars
BY DEF Lifecycle!vars, Approvals

LEMMA InitMaps == Init => Lifecycle!Init
<1> SUFFICES ASSUME Init PROVE Lifecycle!Init
  OBVIOUS
<1>1. /\ \A c \in CRs : cr[c].status = "none" /\ ~(applied[c] > 0)
      /\ settings.approvalsRequired \in Quorums
  BY DEF Init, NoRow
<1>2. \A c \in CRs : Approvals(c) = {}
  BY ConstantsOK DEF Init, Approvals
<1>3. QED
  BY <1>1, <1>2 DEF Lifecycle!Init

\* The steps of one request that write its status.
LEMMA WritesMap ==
  ASSUME TypeInv, TypeInv', SerialInv, NEW h, Handlers = {h},
         \/ WriteSubmit(h) \/ Finalize(h) \/ MarkUnderReview(h) \/ CommitConflict(h)
         \/ ApplyCreate(h) \/ ApplyPersonUpdate(h) \/ LosePersonUpdate(h)
         \/ ApplyPersonDelete(h) \/ ApplyUnit(h)
  PROVE  Lifecycle!Next
<1>1. PICK x \in Request, c \in CRs :
        /\ x = req[h] /\ c = x.id /\ h \in Handlers /\ Undisturbed(x)
        /\ x.pc \notin {"idle", "sweep"}
  <2>1. req[h].pc \notin {"idle", "sweep"}
    BY DEF WriteSubmit, Finalize, MarkUnderReview, CommitConflict, ApplyCreate,
           ApplyPersonUpdate, LosePersonUpdate, UpdatesPerson, ApplyPersonDelete, ApplyUnit, At
  <2>2. QED
    BY <2>1, InFlight
<1>2. UNCHANGED <<review, settings>> /\ RowsOK /\ cr' \in [CRs -> Row]
  BY DEF WriteSubmit, Finalize, MarkUnderReview, CommitConflict, ApplyCreate,
         ApplyPersonUpdate, LosePersonUpdate, ApplyPersonDelete, ApplyUnit, TypeInv, RowsOK
<1>3. ASSUME NEW s, SetStatus(c, s), NEW from, cr[c].status \in from
      PROVE  Lifecycle!Move(c, from, s)
  BY <1>2, <1>3, StatusIs, MapsMove
<1>4. x.pc \in Reviewing => cr[c].status \in {"submitted", "under_review"}
  BY <1>1 DEF Undisturbed, Active
<1>5. UNCHANGED applied => UNCHANGED {d \in CRs : applied[d] > 0}
  OBVIOUS
<1>6. CASE WriteSubmit(h)
  <2>1. SetStatus(c, "submitted") /\ x.pc = "submit" /\ UNCHANGED applied
    BY <1>1, <1>6 DEF WriteSubmit, At, history
  <2>2. Lifecycle!Move(c, {"draft", "changes_requested"}, "submitted")
    BY <1>1, <1>3, <2>1 DEF Undisturbed, Editable
  <2>3. QED
    BY <1>5, <2>1, <2>2 DEF Lifecycle!Next, Lifecycle!Submit
<1>7. CASE Finalize(h)
  <2>1. PICK s \in {"rejected", "changes_requested"} : SetStatus(c, s)
    BY <1>1, <1>7 DEF Finalize
  <2>2. x.pc = "finalize" /\ UNCHANGED applied
    BY <1>1, <1>7 DEF Finalize, At, history
  <2>3. Lifecycle!Move(c, {"submitted", "under_review"}, s)
    BY <1>3, <1>4, <2>1, <2>2 DEF Reviewing
  <2>4. QED
    BY <1>5, <2>1, <2>2, <2>3
       DEF Lifecycle!Next, Lifecycle!Reject, Lifecycle!RequestChanges, Lifecycle!InReview
<1>8. CASE MarkUnderReview(h)
  <2>1. SetStatus(c, "under_review") /\ x.pc = "wait" /\ UNCHANGED applied
    BY <1>1, <1>8 DEF MarkUnderReview, At, history
  <2>2. Lifecycle!Move(c, {"submitted", "under_review"}, "under_review")
    BY <1>3, <1>4, <2>1 DEF Reviewing
  <2>3. ~Lifecycle!Quorate(c)
    BY <1>1, <2>1, MapsQuorum DEF Undisturbed
  <2>4. QED
    BY <1>5, <2>1, <2>2, <2>3 DEF Lifecycle!Next, Lifecycle!Wait, Lifecycle!InReview
<1>9. CASE CommitConflict(h) \/ LosePersonUpdate(h)
  <2>1. SetStatus(c, "conflict") /\ x.pc \in {"conflict", "apply"} /\ UNCHANGED applied
    BY <1>1, <1>9 DEF CommitConflict, LosePersonUpdate, UpdatesPerson, Conflict, At
  <2>2. Lifecycle!Move(c, {"submitted", "under_review"}, "conflict")
    BY <1>3, <1>4, <2>1 DEF Reviewing
  <2>3. Lifecycle!Quorate(c)
    BY <1>1, <2>1, MapsQuorum DEF Undisturbed
  <2>4. QED
    BY <1>5, <2>1, <2>2, <2>3 DEF Lifecycle!Next, Lifecycle!Conflict, Lifecycle!InReview
<1>10. CASE ApplyCreate(h) \/ ApplyPersonUpdate(h) \/ ApplyPersonDelete(h) \/ ApplyUnit(h)
  <2>1. /\ SetStatus(c, "published") /\ x.pc = "apply"
        /\ applied' = [applied EXCEPT ![c] = @ + 1]
    BY <1>1, <1>10 DEF ApplyCreate, ApplyPersonUpdate, UpdatesPerson, ApplyPersonDelete,
                       ApplyUnit, Publish, At
  <2>2. Lifecycle!Move(c, {"submitted", "under_review"}, "published")
    BY <1>3, <1>4, <2>1 DEF Reviewing
  <2>3. Lifecycle!Quorate(c)
    BY <1>1, <2>1, MapsQuorum DEF Undisturbed
  <2>4. {d \in CRs : applied[d] > 0}' = {d \in CRs : applied[d] > 0} \cup {c}
    BY <2>1, MapsPublished DEF TypeInv
  <2>5. QED
    BY <2>2, <2>3, <2>4 DEF Lifecycle!Next, Lifecycle!Publish, Lifecycle!InReview
<1>11. QED
  BY <1>6, <1>7, <1>8, <1>9, <1>10

\* The steps that change neither a status nor a vote nor the quorum.
LEMMA QuietMaps ==
  ASSUME TypeInv, NEW h \in Handlers,
         \/ WritePatch(h) \/ CountApprovals(h) \/ Decide(h) \/ CheckTarget(h) \/ ReadBefore(h)
         \/ LoseUnit(h) \/ CallNext(h) \/ NotifyExpired(h) \/ Fail(h)
         \/ \E c \in CRs, u \in Users, p \in Patches : StartUpdate(h, c, u, p)
         \/ \E c \in CRs : StartSubmit(h, c)
         \/ \E c \in CRs, u \in Users, d \in Decisions : StartReview(h, c, u, d)
         \/ StartSweep(h)
         \/ \E t \in Persons, p \in Patches : DirectUpdate(h, t, p)
         \/ \E t \in Persons : DirectDelete(h, t)
         \/ \E t \in Units : DirectDeleteUnit(h, t)
  PROVE  UNCHANGED Lifecycle!vars
<1>1. CASE WritePatch(h)
  <2>1. \A c \in CRs : cr'[c].status = cr[c].status
    BY <1>1 DEF WritePatch, TypeInv, RowsOK, Row
  <2>2. QED
    BY <1>1, <2>1, MapsStutter DEF WritePatch, history
<1>2. CASE UNCHANGED <<cr, review, settings, applied>>
  BY <1>2, MapsStutter
<1>3. QED
  BY <1>1, <1>2 DEF CountApprovals, Decide, CheckTarget, ReadBefore, LoseUnit, CallNext,
     NotifyExpired, Fail, StartUpdate, StartSubmit, StartReview, StartSweep, DirectUpdate,
     DirectDelete, DirectDeleteUnit, store, history

LEMMA VoteMaps ==
  ASSUME TypeInv, SerialInv, NEW h, Handlers = {h}, UpsertReview(h)
  PROVE  Lifecycle!Next
<1>1. PICK x \in Request, c \in CRs :
        /\ x = req[h] /\ c = x.id /\ h \in Handlers /\ Undisturbed(x) /\ x.pc = "upsert"
  BY InFlight DEF UpsertReview, At
<1>2. PICK u \in Users : u = x.user
  BY <1>1, Running DEF TypeInv, SnapOK, Reviewing
<1>3. /\ review' = [review EXCEPT ![c][u] = x.decision]
      /\ UNCHANGED <<cr, settings, applied>>
  BY <1>1, <1>2 DEF UpsertReview
<1>4. \A e \in CRs \ {c} : Approvals(e)' = Approvals(e)
  BY <1>3 DEF TypeInv, RestOK, Approvals
<1>5. PICK voters \in SUBSET Users : voters = Approvals(c)'
  BY DEF Approvals
<1>6. voters \ {u} = Approvals(c) \ {u}
  BY <1>3, <1>5 DEF TypeInv, RestOK, Approvals
<1>7. cr[c].status \in {"submitted", "under_review"}
  BY <1>1 DEF Undisturbed, Reviewing, Active
<1>8. Lifecycle!Vote(c, voters)
  BY <1>3, <1>4, <1>5, <1>6, <1>7 DEF Lifecycle!Vote, Lifecycle!InReview
<1>9. QED
  BY <1>8 DEF Lifecycle!Next

LEMMA StepMaps ==
  ASSUME TypeInv, TypeInv', SerialInv, NEW h, Handlers = {h}, [Next]_vars
  PROVE  Lifecycle!Next \/ UNCHANGED Lifecycle!vars
<1>1. ASSUME NEW c \in CRs, NEW u \in Users, NEW op \in Operations,
             NEW t \in Targets \cup {None}, NEW p \in Patches, Create(c, u, op, t, p)
      PROVE  Lifecycle!Next
  <2>1. PICK row : /\ cr' = [cr EXCEPT ![c] = row]
                   /\ row = [status |-> "draft", op |-> op, target |-> t,
                             base |-> IF t \in Persons THEN person[t].version ELSE 0,
                             patch |-> p, author |-> u]
    BY <1>1 DEF Create
  <2>2. UNCHANGED <<review, settings, applied>> /\ cr[c].status = "none"
    BY <1>1 DEF Create, history
  <2>3. \A d \in CRs : cr'[d].status = IF d = c THEN "draft" ELSE cr[d].status
    BY <2>1 DEF TypeInv, RowsOK
  <2>4. Lifecycle!Move(c, {"none"}, "draft")
    BY <2>2, <2>3, MapsMove DEF TypeInv, RowsOK
  <2>5. QED
    BY <2>2, <2>4 DEF Lifecycle!Next, Lifecycle!Draft
<1>2. CASE (\E c \in CRs : TimePasses(c)) \/ UNCHANGED vars
  <2>1. UNCHANGED <<cr, review, settings, applied>>
    BY <1>2 DEF TimePasses, vars, store, history
  <2>2. QED
    BY <2>1, MapsStutter
<1>3. ASSUME NEW c \in CRs, Expire(h, c) PROVE Lifecycle!Next
  <2>1. SetStatus(c, "expired") /\ UNCHANGED <<review, settings, applied>>
    BY <1>3 DEF Expire, history
  <2>2. cr[c].status \in {"draft", "submitted", "under_review", "changes_requested"}
    BY <1>3, InFlight DEF Expire, At, Undisturbed, NonTerminal, Editable, Active
  <2>3. Lifecycle!Move(c, {"draft", "submitted", "under_review", "changes_requested"}, "expired")
    BY <2>1, <2>2, StatusIs, MapsMove DEF TypeInv, RowsOK
  <2>4. QED
    BY <2>1, <2>3 DEF Lifecycle!Next, Lifecycle!Expire, Lifecycle!Open
<1>4. ASSUME NEW n \in Quorums, NEW e \in BOOLEAN, UpdateSettings(h, n, e)
      PROVE  Lifecycle!Next
  <2>1. settings'.approvalsRequired = n /\ UNCHANGED <<cr, review, applied>>
    BY <1>4 DEF UpdateSettings
  <2>2. Lifecycle!Require(n)
    BY <2>1 DEF Lifecycle!Require, Approvals
  <2>3. QED
    BY <2>2 DEF Lifecycle!Next
<1>5. CASE Start(h)
  BY <1>4, <1>5, QuietMaps, Zenon DEF Start
<1>6. CASE Continue(h)
  BY <1>3, <1>6, QuietMaps, VoteMaps, WritesMap, Zenon DEF Continue
<1>7. CASE Fail(h)
  BY <1>7, QuietMaps
<1>8. QED
  BY <1>1, <1>2, <1>5, <1>6, <1>7, Zenon DEF Next

\* As long as requests do not overlap, the handlers and the sweep implement the state machine
\* of the workflow: the reads and the unconditional writes of one request act as one step
\* guarded by the state it writes over, with the quorum of that moment.
THEOREM SerialLifecycle == (\E h : Handlers = {h}) => (Spec => ImplementsLifecycle)
<1> SUFFICES ASSUME \E h : Handlers = {h} PROVE Spec => ImplementsLifecycle
  OBVIOUS
<1>1. TypeInv /\ TypeInv' /\ SerialInv /\ [Next]_vars => [Lifecycle!Next]_(Lifecycle!vars)
  BY StepMaps
<1>2. Spec => []SerialInv
  BY SpecSerial
<1>3. QED
  BY <1>1, <1>2, InitMaps, SpecTypeInv, PTL DEF Spec, ImplementsLifecycle, Lifecycle!Spec

\* No edge of that state machine leaves a terminal state.
LEMMA FinalInLifecycle ==
  Lifecycle!Next \/ UNCHANGED Lifecycle!vars =>
    \A c \in CRs : cr[c].status \in Terminal => cr'[c].status = cr[c].status
<1> DEFINE Final == \A d \in CRs : cr[d].status \in Terminal => cr'[d].status = cr[d].status
<1>1. ASSUME NEW c \in CRs, NEW from, NEW to, Lifecycle!Move(c, from, to),
             from \cap Terminal = {}
      PROVE  Final
  <2>1. \A d \in CRs : cr'[d].status = IF d = c THEN to ELSE cr[d].status
    BY <1>1 DEF Lifecycle!Move
  <2>2. cr[c].status \in from
    BY <1>1 DEF Lifecycle!Move
  <2>3. QED
    BY <1>1, <2>1, <2>2
<1>2. (\A c \in CRs : cr'[c].status = cr[c].status) => Final
  OBVIOUS
<1>3. CASE \E c \in CRs, voters \in SUBSET Users : Lifecycle!Vote(c, voters)
  BY <1>2, <1>3 DEF Lifecycle!Vote
<1>4. CASE (\E n \in Quorums : Lifecycle!Require(n)) \/ UNCHANGED Lifecycle!vars
  BY <1>2, <1>4 DEF Lifecycle!Require, Lifecycle!vars
<1> HIDE DEF Final
<1>5. CASE \E c \in CRs : \/ Lifecycle!Draft(c) \/ Lifecycle!Submit(c) \/ Lifecycle!Wait(c)
                          \/ Lifecycle!Reject(c) \/ Lifecycle!RequestChanges(c)
                          \/ Lifecycle!Expire(c) \/ Lifecycle!Publish(c)
                          \/ Lifecycle!Conflict(c)
  <2>1. /\ {"none"} \cap Terminal = {} /\ {"draft", "changes_requested"} \cap Terminal = {}
        /\ Lifecycle!InReview \cap Terminal = {} /\ Lifecycle!Open \cap Terminal = {}
    BY DEF Terminal, Lifecycle!InReview, Lifecycle!Open
  <2>2. PICK c, from, to :
          c \in CRs /\ Lifecycle!Move(c, from, to) /\ from \cap Terminal = {}
    BY <1>5, <2>1 DEF Lifecycle!Draft, Lifecycle!Submit, Lifecycle!Wait, Lifecycle!Reject,
       Lifecycle!RequestChanges, Lifecycle!Expire, Lifecycle!Publish, Lifecycle!Conflict
  <2>3. QED
    BY <1>1, <2>2 DEF Final
<1>6. QED
  BY <1>3, <1>4, <1>5, Zenon DEF Lifecycle!Next, Final

\* A decision, a conflict and an expiry are final as long as requests do not overlap: a handler
\* that has found the request open writes it before anybody else may close it.
THEOREM SerialDecisionsAreFinal == (\E h : Handlers = {h}) => (Spec => TerminalIsFinal)
<1> SUFFICES ASSUME \E h : Handlers = {h} PROVE Spec => TerminalIsFinal
  OBVIOUS
<1>1. TypeInv /\ TypeInv' /\ SerialInv /\ [Next]_vars =>
        [\A c \in CRs : cr[c].status \in Terminal => cr'[c].status = cr[c].status]_vars
  BY StepMaps, FinalInLifecycle
<1>2. Spec => []SerialInv
  BY SpecSerial
<1>3. QED
  BY <1>1, <1>2, SpecTypeInv, PTL DEF Spec, TerminalIsFinal

\* Alone, a publication meets the version its author saw, a deletion included.
THEOREM SerialMeetsVersion == (\E h : Handlers = {h}) => (Spec => AppliedToBaseVersion)
<1> SUFFICES ASSUME \E h : Handlers = {h} PROVE Spec => AppliedToBaseVersion
  OBVIOUS
<1> DEFINE Met == \A c \in CRs :
                    applied'[c] > applied[c] /\ cr[c].target \in Persons
                    => person[cr[c].target].version = cr[c].base
<1>1. TypeInv /\ SerialInv /\ [Next]_vars => [Met]_vars
  <2> SUFFICES ASSUME TypeInv, SerialInv, [Next]_vars, NEW c \in CRs,
                      applied'[c] > applied[c], cr[c].target \in Persons
               PROVE  person[cr[c].target].version = cr[c].base
    OBVIOUS
  <2>1. applied[c] \in Nat
    BY DEF TypeInv, RestOK
  <2>2. PICK h \in Handlers : Writes(h, c)
    BY <2>1, Appliers
  <2>3. Handlers = {h} /\ req[h].pc = "apply" /\ req[h].id = c
    BY <2>2 DEF Writes
  <2>4. req[h].snap = cr[c]
    BY <2>3, InFlight DEF Reviewing
  <2>5. QED
    BY <2>3, <2>4, InFlight DEF Undisturbed
<1>2. Spec => []SerialInv
  BY SpecSerial
<1>3. QED
  BY <1>1, <1>2, SpecTypeInv, PTL DEF Spec, AppliedToBaseVersion
==============================================================================
