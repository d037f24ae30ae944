------------------------------- MODULE Lineage -------------------------------
(***************************************************************************)
(* Persons and their lineage as the code runs them: createInTx, updateInTx *)
(* and softDeleteInTx of persons.service.ts with the helpers of            *)
(* lineage.service.ts, and the rollback of an import.                      *)
(*                                                                         *)
(* Every statement of a transaction is a step.  It reads what others have  *)
(* committed and what its own transaction has written (PostgreSQL at READ  *)
(* COMMITTED); what it writes shows to others at the commit.  A statement  *)
(* that writes a row or a key written by an open transaction waits for it. *)
(* Each slot of Handlers holds one request in flight.                      *)
(***************************************************************************)
EXTENDS FatherForest

CONSTANTS
  InitialFathers,  \* forests of fathers to start from
  Imported,    \* the persons a published import batch created
  Operations,  \* the requests made: subset of Ops
  Handlers,    \* slots for requests in flight
  MaxVersion,  \* bound: version a person may reach
  MaxRequests  \* bound: requests started

Ops == {"create", "refather", "gender", "delete", "rollback"}

ASSUME ConstantsOK ==
  /\ Imported \subseteq Persons /\ Operations \subseteq Ops
  /\ None \notin Ops
  /\ {MaxVersion, MaxRequests} \subseteq Nat
  /\ InitialFathers \subseteq [Persons -> Persons \cup {None}]
  /\ \A f \in InitialFathers : Rooted([p \in Persons |-> "live"], f)

VARIABLES
  male, version,  \* further columns of persons
  batch,          \* status of the import batch
  tx,             \* requests in flight and their transactions
  started,        \* counter behind MaxRequests
  mixed           \* history: requests overlapped that did not only create

persons == <<state, father, male, version>>
vars == <<persons, closure, batch, tx, started, mixed>>

(***************************************************************************)
(* id, to: the person and the father it is to have; base, seen: version    *)
(* and father read first; todo, child, detached: the children still to     *)
(* detach, the one in hand and those whose father_id is overwritten; dels, *)
(* ins: closure rows deleted and inserted so far; waits: the transactions  *)
(* whose end the last statement is waiting for.                            *)
(***************************************************************************)
Maybe == Persons \cup {None}
Idle == [pc |-> "idle", op |-> None, id |-> None, to |-> None, base |-> 0,
         seen |-> None, todo |-> {}, child |-> None, detached |-> {},
         dels |-> {}, ins |-> {}, waits |-> {}]

Init ==
  /\ state \in [Persons -> {"unborn", "live"}]
  /\ Imported \subseteq Live
  /\ father \in InitialFathers
  /\ \A p \in Persons : father[p] # None => {p, father[p]} \subseteq Live
  /\ male = Persons
  /\ version = [p \in Persons |-> 1]
  /\ closure = {SelfRow(p) : p \in Live} \cup Walk(state, father)
  /\ batch = "published"
  /\ tx = [h \in Handlers |-> Idle]
  /\ started = 0
  /\ mixed = FALSE

-----------------------------------------------------------------------------
(* Transactions *)

At(h, pc) == tx[h].pc = pc /\ tx[h].waits = {}
Goto(h, pc) == tx' = [tx EXCEPT ![h].pc = pc]

\* The closure as the transaction sees it.
View(h) == (closure \ tx[h].dels) \cup tx[h].ins

Keys(rows) == {<<r[1], r[2]>> : r \in rows}
Holders(h, rows) ==
  {g \in Handlers \ {h} : Keys(tx[g].dels \cup tx[g].ins) \cap Keys(rows) # {}}

DeleteRows(h, rows, pc) ==
  tx' = [tx EXCEPT ![h].dels = @ \cup (rows \ tx[h].ins),
                   ![h].ins = @ \ rows,
                   ![h].waits = Holders(h, rows),
                   ![h].pc = pc]
InsertRows(h, rows, pc) ==
  tx' = [tx EXCEPT ![h].ins = @ \cup rows,
                   ![h].waits = Holders(h, rows),
                   ![h].pc = pc]

\* Rows of persons the transaction has updated.
Locked(h) == tx[h].detached \cup
             (IF tx[h].pc = "commit" /\ tx[h].id # None THEN {tx[h].id} ELSE {})
Unlocked(h, rows) == \A g \in Handlers \ {h} : Locked(g) \cap rows = {}

\* The transaction of h is over and r is what is left of the request.  Those
\* that waited for it go on; a row it deleted is gone for them too.
End(h, r, gone) ==
  tx' = [g \in Handlers |->
           IF g = h THEN r
           ELSE [tx[g] EXCEPT !.waits = @ \ {h}, !.dels = @ \ gone]]

Rollback(h) == End(h, Idle, {}) /\ UNCHANGED <<persons, closure, batch, started, mixed>>

\* An exception, a lost connection or a crash, and the database's choice of
\* a victim when transactions wait for each other.
Abort(h) == tx[h].pc # "idle" /\ Rollback(h)

Begin(h, op, r) ==
  /\ tx[h].pc = "idle"
  /\ op \in Operations
  /\ started < MaxRequests
  /\ tx' = [tx EXCEPT ![h] = [r EXCEPT !.op = op]]
  /\ started' = started + 1
  /\ mixed' = (mixed \/ \E g \in Handlers : /\ tx[g].pc # "idle"
                                           /\ ~{op, tx[g].op} \subseteq {"create", "gender"})
  /\ UNCHANGED <<persons, closure, batch>>

\* A statement of h's transaction that fails ends it.
Require(h, condition, pc) ==
  /\ IF condition THEN Goto(h, pc) ELSE End(h, Idle, {})
  /\ UNCHANGED <<persons, closure, batch, started, mixed>>

-----------------------------------------------------------------------------
(* createInTx and updateInTx *)

\* The id of a new person is fresh.
StartCreate(h, p, f) ==
  /\ state[p] = "unborn"
  /\ \A g \in Handlers : tx[g].id # p
  /\ Begin(h, "create", [Idle EXCEPT !.pc = IF f = None THEN "self"
                                            ELSE "parents",
                                     !.id = p, !.to = f])

\* The first read of updateInTx.  A request that names an older version than
\* the one current now ends at its write and is not modelled.
StartRefather(h, p, f) ==
  /\ p \in Live
  /\ version[p] < MaxVersion
  /\ Begin(h, "refather",
           [Idle EXCEPT !.pc = IF f # None THEN "parents"
                               ELSE IF father[p] = None THEN "row"
                               ELSE "strip",
                        !.id = p, !.to = f, !.base = version[p],
                        !.seen = father[p]])

\* updateInTx with a new gender and no father.
StartGender(h, p) ==
  /\ p \in Live
  /\ version[p] < MaxVersion
  /\ Begin(h, "gender", [Idle EXCEPT !.pc = "row", !.id = p,
                                     !.base = version[p]])

\* validateParents; then a changed father moves the subtree.
Parents(h) ==
  /\ At(h, "parents")
  /\ Require(h, tx[h].to \in Live /\ tx[h].to \in male,
             IF tx[h].op = "create" THEN "self"
             ELSE IF tx[h].to = tx[h].seen THEN "row" ELSE "cycle")

Cycle(h) ==
  /\ At(h, "cycle")
  /\ Require(h, ~WouldCreateCycle(View(h), tx[h].id, tx[h].to), "strip")

\* The row of the new person is inserted with its self row.
InsertSelf(h) ==
  /\ At(h, "self")
  /\ InsertRows(h, {SelfRow(tx[h].id)},
                IF tx[h].to = None THEN "commit" ELSE "strip")
  /\ UNCHANGED <<persons, closure, batch, started, mixed>>

StripRows(h) ==
  /\ At(h, "strip")
  /\ DeleteRows(h, Strip(View(h), tx[h].id),
                IF tx[h].to = None THEN "row" ELSE "graft")
  /\ UNCHANGED <<persons, closure, batch, started, mixed>>

GraftRows(h) ==
  /\ At(h, "graft")
  /\ InsertRows(h, Graft(View(h), tx[h].id, tx[h].to),
                IF tx[h].op = "create" THEN "commit" ELSE "row")
  /\ UNCHANGED <<persons, closure, batch, started, mixed>>

\* updateWithVersion or softDelete, as soon as nobody else holds the row.
WriteRow(h) ==
  LET p == tx[h].id
  IN /\ At(h, "row")
     /\ Unlocked(h, {p})
     /\ Require(h, tx[h].op = "delete"
                   \/ (p \in Live /\ version[p] = tx[h].base), "commit")

-----------------------------------------------------------------------------
(* softDeleteInTx *)

StartDelete(h, p) ==
  /\ p \in Live
  /\ Begin(h, "delete", [Idle EXCEPT !.pc = "children", !.id = p])

\* directChildren
Children(h) ==
  LET found == {c \in Live : father[c] = tx[h].id}
  IN /\ At(h, "children")
     /\ tx' = [tx EXCEPT ![h].todo = found,
                         ![h].pc = IF found = {} THEN "drop" ELSE "detach"]
     /\ UNCHANGED <<persons, closure, batch, started, mixed>>

Detach(h, c) ==
  /\ At(h, "detach")
  /\ c \in tx[h].todo
  /\ Unlocked(h, {c})
  /\ tx' = [tx EXCEPT ![h].detached = @ \cup {c}, ![h].child = c,
                      ![h].todo = @ \ {c}, ![h].pc = "unlink"]
  /\ UNCHANGED <<persons, closure, batch, started, mixed>>

\* Mutant: the child keeps its ancestors in the table.
Unlink_Skipped(h) ==
  /\ At(h, "unlink")
  /\ Goto(h, IF tx[h].todo = {} THEN "drop" ELSE "detach")
  /\ UNCHANGED <<persons, closure, batch, started, mixed>>

\* Mutant: a child loses all its rows.
Unlink_DropsRows(h) ==
  /\ At(h, "unlink")
  /\ DeleteRows(h, RowsOf(View(h), tx[h].child),
                IF tx[h].todo = {} THEN "drop" ELSE "detach")
  /\ UNCHANGED <<persons, closure, batch, started, mixed>>

\* moveSubtree(child, null)
Unlink(h) ==
  /\ At(h, "unlink")
  /\ DeleteRows(h, Strip(View(h), tx[h].child),
                IF tx[h].todo = {} THEN "drop" ELSE "detach")
  /\ UNCHANGED <<persons, closure, batch, started, mixed>>

DropRows(h) ==
  /\ At(h, "drop")
  /\ DeleteRows(h, RowsOf(View(h), tx[h].id), "row")
  /\ UNCHANGED <<persons, closure, batch, started, mixed>>

-----------------------------------------------------------------------------
(* ImportService.rollback: a transaction that deletes the batch's persons,   *)
(* one that rebuilds the closure, then the status.                           *)

StartRollback(h) ==
  /\ batch = "published"
  /\ Begin(h, "rollback", [Idle EXCEPT !.pc = "blockers"])

\* Mutant: the children of imported persons are not looked for.
Blockers_Ignored(h) == At(h, "blockers") /\ Require(h, TRUE, "withdraw")

\* findRollbackBlockers; unions and children by the mother may refuse too.
Blockers(h) ==
  /\ At(h, "blockers")
  /\ Require(h, \A c \in Live \ Imported : father[c] \notin Imported,
             "withdraw")

WithdrawBatch(h) ==
  /\ At(h, "withdraw")
  /\ Unlocked(h, Imported \cap Live)
  /\ state' = [p \in Persons |-> IF p \in Imported \cap Live THEN "deleted"
                                 ELSE state[p]]
  /\ Goto(h, "wipe")
  /\ UNCHANGED <<father, male, version, closure, batch, started, mixed>>

\* rebuildForTenant: three statements.
Wipe(h) ==
  /\ At(h, "wipe")
  /\ DeleteRows(h, closure, "selves")
  /\ UNCHANGED <<persons, closure, batch, started, mixed>>

InsertSelves(h) ==
  /\ At(h, "selves")
  /\ InsertRows(h, {SelfRow(p) : p \in Live}, "walk")
  /\ UNCHANGED <<persons, closure, batch, started, mixed>>

InsertWalk(h) ==
  /\ At(h, "walk")
  /\ InsertRows(h, Walk(state, father), "commit")
  /\ UNCHANGED <<persons, closure, batch, started, mixed>>

SetRolledBack(h) ==
  /\ At(h, "status")
  /\ batch' = "rolled_back"
  /\ End(h, Idle, {})
  /\ UNCHANGED <<persons, closure, started, mixed>>

-----------------------------------------------------------------------------

\* A row inserted whose (ancestor, descendant) is taken.
KeyClash(h) == Keys(tx[h].ins) \cap Keys(closure \ tx[h].dels) # {}

NewFather(h, p) ==
  IF p \in tx[h].detached THEN None
  ELSE IF p = tx[h].id /\ tx[h].op \in {"create", "refather"} THEN tx[h].to
  ELSE father[p]

NewState(h) ==
  CASE tx[h].op = "create" -> [state EXCEPT ![tx[h].id] = "live"]
    [] tx[h].op = "delete" -> [state EXCEPT ![tx[h].id] = "deleted"]
    [] OTHER -> state

Commit(h) ==
  LET r == tx[h]
  IN /\ At(h, "commit")
     /\ ~KeyClash(h)
     /\ closure' = View(h)
     /\ father' = [p \in Persons |-> NewFather(h, p)]
     /\ state' = NewState(h)
     /\ version' = IF r.op \in {"refather", "gender"}
                     THEN [version EXCEPT ![r.id] = @ + 1] ELSE version
     /\ male' \in IF r.op = "create" THEN {male, male \ {r.id}}
                  ELSE IF r.op = "gender" THEN {(male \ {r.id}) \cup ({r.id} \ male)}
                  ELSE {male}
     /\ End(h, IF r.op = "rollback" THEN [Idle EXCEPT !.op = r.op, !.pc = "status"]
               ELSE Idle, r.dels)
     /\ UNCHANGED <<batch, started, mixed>>

\* The insert that met the key has failed.
FailOnKey(h) == At(h, "commit") /\ KeyClash(h) /\ Rollback(h)

Start(h) ==
  \/ \E p \in Persons, f \in Maybe : StartCreate(h, p, f) \/ StartRefather(h, p, f)
  \/ \E p \in Persons : StartGender(h, p) \/ StartDelete(h, p)
  \/ StartRollback(h)

Continue(h) ==
  \/ Parents(h) \/ Cycle(h) \/ InsertSelf(h) \/ StripRows(h) \/ GraftRows(h)
  \/ WriteRow(h)
  \/ Children(h) \/ Unlink(h) \/ DropRows(h)
  \/ \E c \in Persons : Detach(h, c)
  \/ Blockers(h) \/ WithdrawBatch(h)
  \/ Wipe(h) \/ InsertSelves(h) \/ InsertWalk(h) \/ SetRolledBack(h)
  \/ Commit(h) \/ FailOnKey(h)

Next == \E h \in Handlers : Start(h) \/ Continue(h) \/ Abort(h)

Spec == Init /\ [][Next]_vars

-----------------------------------------------------------------------------
(* With one request at a time, beside Consistent *)

Table == INSTANCE LineageTable

\* createInTx, updateInTx, softDeleteInTx and the two halves of rollback()
\* each change persons and closure as one operation of the abstract table.
ImplementsTable == Table!Spec

-----------------------------------------------------------------------------
(* With requests that overlap *)

\* Creations and changes of gender need no lock: as long as nothing else
\* overlaps, every interleaving of their statements leaves the table exact.
CreatesNeedNoLock == ~mixed => Consistent

\* Every person has its depth 0 row, whatever runs beside its creation: a
\* person without it would never again be moved or found.
EveryoneHasASelfRow == \A p \in Live : SelfRow(p) \in closure

\* Nobody is an ancestor of himself along the father pointers.
NobodyIsHisOwnAncestor == Rooted(state, father)
=============================================================================
