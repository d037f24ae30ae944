--------------------------- MODULE ChangeRequests ---------------------------
(***************************************************************************)
(* The approval workflow of the API (modules/change-requests, the expiry   *)
(* sweep of modules/jobs, modules/workflow-settings).  A change request    *)
(* carries a patch for one target; reviewers vote; the vote that reaches   *)
(* the quorum publishes the patch in one database transaction.             *)
(*                                                                         *)
(* Every HTTP request and every run of the sweep is an asynchronous        *)
(* function: its awaits are separate statements against PostgreSQL at READ *)
(* COMMITTED, and between two of them any other request may run.  Each     *)
(* slot of Handlers holds one function in flight: req[h].pc names the await*)
(* it is about to execute, the other fields are its local variables.  One  *)
(* slot therefore models a system whose requests never overlap.            *)
(***************************************************************************)
EXTENDS Integers, FiniteSets, Sequences

CONSTANTS
  CRs,            \* change request ids
  Contributions,  \* those with a contributionType (they count for reputation)
  Expiring,       \* those whose expiresAt may pass
  Users,          \* members of the tenant
  Reviewers,      \* the members holding changeRequest.review
  Persons,        \* versioned targets
  Units,          \* targets without a version: unions and tribal units
  Patches,        \* patch contents
  FatherPatches,  \* those that set fatherId
  Operations,     \* the operations the authors ask for
  Handlers,       \* slots for functions in flight
  None,
  Quorums,        \* values approvalsRequired may be given (1..3 in the API)
  MaxRequests,    \* bound: functions started
  MaxFailures,    \* bound: functions that die on a crash or an exception
  MaxVersion      \* bound: version reached by direct edits

ASSUME ConstantsOK ==
  /\ Contributions \subseteq CRs /\ Expiring \subseteq CRs
  /\ Reviewers \subseteq Users /\ FatherPatches \subseteq Patches
  /\ Persons \cap Units = {} /\ None \notin Persons \cup Units \cup Patches
  /\ None \notin {"approve", "reject", "request_changes"}
  /\ Operations \subseteq {"create", "update", "delete"}
  /\ IsFiniteSet(Users)
  /\ Quorums \subseteq Nat \ {0}
  /\ {MaxRequests, MaxFailures, MaxVersion} \subseteq Nat

VARIABLES
  cr,        \* rows of change_requests
  review,    \* rows of change_request_reviews: one decision per reviewer
  settings,  \* the tenant's row of workflow_settings
  person,    \* rows of persons
  closure,   \* the father person_closure records for each live person
  unit,      \* rows of unions and tribal_units
  due,       \* requests whose expiresAt has passed
  req,       \* functions in flight
  sent,      \* kinds of notification stored for a request
  decided,   \* calls to reputation.recordDecision for a request
  started, failures,   \* counters behind the bounds
  (* history: what happened, read by no action *)
  approvedBy,    \* who has ever stored an approval of a request
  leastQuorum,   \* the smallest approvalsRequired ever in force
  applied,       \* how often a request's patch was written to live data
  attempts       \* how often a publishing transaction committed

store == <<cr, review, settings, person, closure, unit, due, sent, decided>>
history == <<approvedBy, leastQuorum, applied, attempts>>
vars == <<store, req, started, failures, history>>

Editable == {"draft", "changes_requested"}
Active == {"submitted", "under_review"}
NonTerminal == Editable \cup Active
Terminal == {"published", "rejected", "conflict", "expired"}
Decisions == {"approve", "reject", "request_changes"}
Targets == Persons \cup Units

Row == [status: {"none"} \cup NonTerminal \cup Terminal,
        op: {"create", "update", "delete"}, target: Targets \cup {None},
        base: Nat, patch: Patches \cup {None}, author: Users \cup {None}]
NoRow == [status |-> "none", op |-> "create", target |-> None, base |-> 0,
          patch |-> None, author |-> None]

PersonRow == [version: Nat \ {0}, live: BOOLEAN, data: Patches \cup {None},
              father: Patches \cup {None}]
UnitRow == [live: BOOLEAN, data: Patches \cup {None}]

PCs == {"idle", "patch", "submit", "upsert", "finalize", "count", "decide",
        "wait", "publish", "before", "apply", "conflict", "after", "sweep",
        "expired"}
Notices == {"submitted", "approved", "published", "conflict", "rejected",
            "changes_requested", "expired"}
Calls == Notices \cup {"accept", "refuse"}

Request == [pc: PCs, id: CRs \cup {None}, user: Users \cup {None},
            decision: Decisions \cup {None}, patch: Patches \cup {None},
            snap: Row, count: Nat, father: Patches \cup {None},
            after: Seq(Calls), todo: SUBSET CRs]
Idle == [pc |-> "idle", id |-> None, user |-> None, decision |-> None,
         patch |-> None, snap |-> NoRow, count |-> 0, father |-> None,
         after |-> <<>>, todo |-> {}]

TypeOK ==
  /\ cr \in [CRs -> Row]
  /\ review \in [CRs -> [Users -> Decisions \cup {None}]]
  /\ settings \in [approvalsRequired: Nat, reviewerCanEdit: BOOLEAN]
  /\ person \in [Persons -> PersonRow]
  /\ closure \in [Persons -> Patches \cup {None}]
  /\ unit \in [Units -> UnitRow]
  /\ due \subseteq CRs
  /\ req \in [Handlers -> Request]
  /\ sent \in [CRs -> SUBSET Notices]
  /\ decided \in [CRs -> [accepted: Nat, rejected: Nat]]
  /\ started \in Nat /\ failures \in Nat
  /\ approvedBy \in [CRs -> SUBSET Users]
  /\ leastQuorum \in Nat
  /\ applied \in [CRs -> Nat] /\ attempts \in [CRs -> Nat]

Init ==
  /\ cr = [c \in CRs |-> NoRow]
  /\ review = [c \in CRs |-> [u \in Users |-> None]]
  /\ settings \in [approvalsRequired: Quorums, reviewerCanEdit: BOOLEAN]
  /\ person = [p \in Persons |-> [version |-> 1, live |-> TRUE, data |-> None,
                                  father |-> None]]
  /\ closure = [p \in Persons |-> None]
  /\ unit = [t \in Units |-> [live |-> TRUE, data |-> None]]
  /\ due = {}
  /\ req = [h \in Handlers |-> Idle]
  /\ sent = [c \in CRs |-> {}]
  /\ decided = [c \in CRs |-> [accepted |-> 0, rejected |-> 0]]
  /\ started = 0 /\ failures = 0
  /\ approvedBy = [c \in CRs |-> {}]
  /\ leastQuorum = settings.approvalsRequired
  /\ applied = [c \in CRs |-> 0] /\ attempts = [c \in CRs |-> 0]

-----------------------------------------------------------------------------
(* Steps of a function in flight *)

\* A slot is free and the bound on functions started is not exhausted.
CanStart(h) == req[h].pc = "idle" /\ started < MaxRequests

\* The first read has been done; the function continues at r.pc.
Begin(h, r) ==
  /\ CanStart(h)
  /\ req' = [req EXCEPT ![h] = r]
  /\ started' = started + 1

At(h, pc) == req[h].pc = pc
Goto(h, pc) == req' = [req EXCEPT ![h].pc = pc]
Return(h) == req' = [req EXCEPT ![h] = Idle]

\* The write is done: what remains are the calls to other services.
Then(h, calls) ==
  req' = [req EXCEPT ![h] = IF calls = <<>> THEN Idle
            ELSE [Idle EXCEPT !.pc = "after", !.id = req[h].id,
                              !.after = calls]]

SetStatus(c, s) == cr' = [cr EXCEPT ![c].status = s]

Approvals(c) == {u \in Users : review[c][u] = "approve"}

-----------------------------------------------------------------------------
(* Authors *)

\* ChangeRequestService.create.  Nobody knows the row before it is inserted,
\* so reading the base version and inserting are one step.
Create(c, u, op, t, p) ==
  /\ cr[c].status = "none"
  /\ (op = "create") <=> (t = None)
  /\ t \in Persons => person[t].live
  /\ cr' = [cr EXCEPT ![c] =
       [status |-> "draft", op |-> op, target |-> t,
        base |-> IF t \in Persons THEN person[t].version ELSE 0,
        patch |-> p, author |-> u]]
  /\ UNCHANGED <<review, settings, person, closure, unit, due, req, sent,
                 decided, started, failures, history>>

\* ChangeRequestService.update up to its write: who may edit the patch, when.
StartUpdate(h, c, u, p) ==
  /\ cr[c].status # "none"
  /\ \/ u = cr[c].author /\ cr[c].status \in Editable
     \/ /\ u # cr[c].author /\ settings.reviewerCanEdit
        /\ cr[c].status \in Active
  /\ Begin(h, [Idle EXCEPT !.pc = "patch", !.id = c, !.patch = p])
  /\ UNCHANGED <<store, failures, history>>

\* ... and the write, whatever the status is by now.
WritePatch(h) ==
  /\ At(h, "patch")
  /\ cr' = [cr EXCEPT ![req[h].id].patch = req[h].patch]
  /\ Return(h)
  /\ UNCHANGED <<review, settings, person, closure, unit, due, sent, decided,
                 started, failures, history>>

\* ChangeRequestService.submit: the read and its checks.
StartSubmit(h, c) ==
  /\ cr[c].status \in Editable
  /\ Begin(h, [Idle EXCEPT !.pc = "submit", !.id = c])
  /\ UNCHANGED <<store, failures, history>>

\* ... and the unconditional write, before the reviewers are notified.
WriteSubmit(h) ==
  /\ At(h, "submit")
  /\ SetStatus(req[h].id, "submitted")
  /\ Then(h, <<"submitted">>)
  /\ UNCHANGED <<review, settings, person, closure, unit, due, sent, decided,
                 started, failures, history>>

-----------------------------------------------------------------------------
(* Reviewers: ChangeRequestService.review *)

\* Mutants: CR_CANNOT_REVIEW_OWN is not checked; the status is not checked.
StartReview_Own(h, c, u, d) ==
  /\ u \in Reviewers /\ cr[c].status \in Active
  /\ Begin(h, [Idle EXCEPT !.pc = "upsert", !.id = c, !.user = u,
                           !.decision = d, !.snap = cr[c]])
  /\ UNCHANGED <<store, failures, history>>
StartReview_AnyStatus(h, c, u, d) ==
  /\ u \in Reviewers /\ cr[c].status # "none" /\ u # cr[c].author
  /\ Begin(h, [Idle EXCEPT !.pc = "upsert", !.id = c, !.user = u,
                           !.decision = d, !.snap = cr[c]])
  /\ UNCHANGED <<store, failures, history>>

\* findOne and the checks.  The row read here is what publish() will apply.
StartReview(h, c, u, d) ==
  /\ u \in Reviewers
  /\ cr[c].status \in Active
  /\ u # cr[c].author
  /\ Begin(h, [Idle EXCEPT !.pc = "upsert", !.id = c, !.user = u,
                           !.decision = d, !.snap = cr[c]])
  /\ UNCHANGED <<store, failures, history>>

\* Mutant: the approvals are counted before the reviewer's own is stored.
UpsertReview_CountFirst(h) ==
  LET c == req[h].id
      d == req[h].decision
  IN /\ At(h, "upsert")
     /\ review' = [review EXCEPT ![c][req[h].user] = d]
     /\ approvedBy' = IF d = "approve"
                        THEN [approvedBy EXCEPT ![c] = @ \cup {req[h].user}]
                        ELSE approvedBy
     /\ req' = [req EXCEPT ![h].pc = IF d = "approve" THEN "decide"
                                     ELSE "finalize",
                           ![h].count = Cardinality(Approvals(c))]
     /\ UNCHANGED <<cr, settings, person, closure, unit, due, sent, decided,
                    started, failures, leastQuorum, applied, attempts>>

\* The reviewer's only row is inserted or overwritten.
UpsertReview(h) ==
  LET c == req[h].id
      u == req[h].user
      d == req[h].decision
  IN /\ At(h, "upsert")
     /\ review' = [review EXCEPT ![c][u] = d]
     /\ approvedBy' = IF d = "approve"
                        THEN [approvedBy EXCEPT ![c] = @ \cup {u}]
                        ELSE approvedBy
     /\ Goto(h, IF d = "approve" THEN "count" ELSE "finalize")
     /\ UNCHANGED <<cr, settings, person, closure, unit, due, sent, decided,
                    started, failures, leastQuorum, applied, attempts>>

\* finalizeNonApprove: reject or request_changes.
Finalize(h) ==
  LET c == req[h].id
      s == IF req[h].decision = "reject" THEN "rejected"
           ELSE "changes_requested"
  IN /\ At(h, "finalize")
     /\ SetStatus(c, s)
     /\ Then(h, IF s = "rejected" /\ c \in Contributions
                  THEN <<"refuse", s>> ELSE <<s>>)
     /\ UNCHANGED <<review, settings, person, closure, unit, due, sent,
                    decided, started, failures, history>>

\* approvalsCount ...
CountApprovals(h) ==
  /\ At(h, "count")
  /\ req' = [req EXCEPT ![h].count = Cardinality(Approvals(req[h].id)),
                        ![h].pc = "decide"]
  /\ UNCHANGED <<store, started, failures, history>>

\* Mutant: the reviewer's vote, already stored, is counted once more.
Decide_OffByOne(h) ==
  /\ At(h, "decide")
  /\ Goto(h, IF req[h].count + 1 >= settings.approvalsRequired
               THEN "publish" ELSE "wait")
  /\ UNCHANGED <<store, started, failures, history>>

\* ... then the settings are read and the two are compared.
Decide(h) ==
  /\ At(h, "decide")
  /\ Goto(h, IF req[h].count >= settings.approvalsRequired
               THEN "publish" ELSE "wait")
  /\ UNCHANGED <<store, started, failures, history>>

MarkUnderReview(h) ==
  /\ At(h, "wait")
  /\ SetStatus(req[h].id, "under_review")
  /\ Return(h)
  /\ UNCHANGED <<review, settings, person, closure, unit, due, sent, decided,
                 started, failures, history>>

-----------------------------------------------------------------------------
(* publish(): one transaction around ChangeRequestPublisher.apply.  Its      *)
(* statements read what others have committed; its writes show at commit.    *)

\* The first read of the target: missing, deleted or at another version is a
\* conflict.
CheckTarget(h) ==
  LET row == req[h].snap
      stale == \/ /\ row.target \in Persons
                  /\ \/ row.base = 0
                     \/ ~person[row.target].live
                     \/ person[row.target].version # row.base
               \/ row.target \in Units /\ ~unit[row.target].live
  IN /\ At(h, "publish")
     /\ Goto(h, IF row.op = "create" THEN "apply"
                ELSE IF stale THEN "conflict"
                ELSE IF row.target \in Persons THEN "before" ELSE "apply")
     /\ UNCHANGED <<store, started, failures, history>>

\* updateInTx / softDeleteInTx read the person again; a deleted one throws
\* PERSON_NOT_FOUND, which apply turns into a conflict.
ReadBefore(h) ==
  LET p == person[req[h].snap.target]
  IN /\ At(h, "before")
     /\ req' = [req EXCEPT ![h].pc = IF p.live THEN "apply" ELSE "conflict",
                           ![h].father = p.father]
     /\ UNCHANGED <<store, started, failures, history>>

\* Mutant: the status the schema has but the code never stores.
Publish_StoresApproved(h) ==
  /\ SetStatus(req[h].id, "approved")
  /\ applied' = [applied EXCEPT ![req[h].id] = @ + 1]
  /\ attempts' = [attempts EXCEPT ![req[h].id] = @ + 1]
  /\ Then(h, <<"approved">>)

\* The transaction commits with status published.
Publish(h) ==
  LET c == req[h].id
  IN /\ SetStatus(c, "published")
     /\ applied' = [applied EXCEPT ![c] = @ + 1]
     /\ attempts' = [attempts EXCEPT ![c] = @ + 1]
     /\ Then(h, IF c \in Contributions
                  THEN <<"approved", "published", "accept">>
                  ELSE <<"approved", "published">>)

\* The transaction commits with status conflict.
Conflict(h) ==
  LET c == req[h].id
  IN /\ SetStatus(c, "conflict")
     /\ attempts' = [attempts EXCEPT ![c] = @ + 1]
     /\ Then(h, <<"conflict">>)
     /\ UNCHANGED applied

CommitConflict(h) ==
  /\ At(h, "conflict")
  /\ Conflict(h)
  /\ UNCHANGED <<review, settings, person, closure, unit, due, sent, decided,
                 started, failures, approvedBy, leastQuorum>>

\* operation create: a new person, union or unit; nothing is compared.
ApplyCreate(h) ==
  /\ At(h, "apply") /\ req[h].snap.op = "create"
  /\ Publish(h)
  /\ UNCHANGED <<review, settings, person, closure, unit, due, sent, decided,
                 started, failures, approvedBy, leastQuorum>>

\* Mutants: the father is written without its lineage; the UPDATE is not
\* conditional on the version.
MoveClosure_Skipped(h) == closure' = closure
VersionMatches_Unlocked(h) == person[req[h].snap.target].live

\* updateInTx: lineage.onFatherChange moves the closure rows first, judged by
\* the father read in ReadBefore; then UPDATE ... WHERE version = base.
MovesClosure(h) ==
  LET row == req[h].snap
  IN /\ row.patch \in FatherPatches
     /\ row.patch # req[h].father
     /\ person[row.target].live

MoveClosure(h) ==
  closure' = IF MovesClosure(h)
               THEN [closure EXCEPT ![req[h].snap.target] = req[h].snap.patch]
               ELSE closure

UpdatesPerson(h) ==
  At(h, "apply") /\ req[h].snap.op = "update" /\ req[h].snap.target \in Persons

VersionMatches(h) ==
  LET row == req[h].snap
  IN person[row.target].live /\ person[row.target].version = row.base

ApplyPersonUpdate(h) ==
  LET row == req[h].snap
  IN /\ UpdatesPerson(h) /\ VersionMatches(h)
     /\ MoveClosure(h)
     /\ person' = [person EXCEPT ![row.target] =
          [version |-> row.base + 1, live |-> TRUE, data |-> row.patch,
           father |-> IF row.patch \in FatherPatches THEN row.patch
                      ELSE @.father]]
     /\ Publish(h)
     /\ UNCHANGED <<review, settings, unit, due, sent, decided, started,
                    failures, approvedBy, leastQuorum>>

\* Mutant: the number of rows updated is ignored.
LosePersonUpdate_CountIgnored(h) ==
  /\ UpdatesPerson(h) /\ ~VersionMatches(h)
  /\ MoveClosure(h)
  /\ SetStatus(req[h].id, "published")
  /\ attempts' = [attempts EXCEPT ![req[h].id] = @ + 1]
  /\ Then(h, <<"approved", "published">>)
  /\ UNCHANGED <<review, settings, person, unit, due, sent, decided, started,
                 failures, approvedBy, leastQuorum, applied>>

\* No row matched: VERSION_CONFLICT is thrown and caught inside the
\* transaction, which commits what it has done so far.
LosePersonUpdate(h) ==
  /\ UpdatesPerson(h) /\ ~VersionMatches(h)
  /\ MoveClosure(h)
  /\ Conflict(h)
  /\ UNCHANGED <<review, settings, person, unit, due, sent, decided, started,
                 failures, approvedBy, leastQuorum>>

\* softDeleteInTx: the closure rows go, then UPDATE ... WHERE id = target.
ApplyPersonDelete(h) ==
  LET row == req[h].snap
  IN /\ At(h, "apply") /\ row.op = "delete" /\ row.target \in Persons
     /\ person' = [person EXCEPT ![row.target].live = FALSE]
     /\ closure' = [closure EXCEPT ![row.target] = None]
     /\ Publish(h)
     /\ UNCHANGED <<review, settings, unit, due, sent, decided, started,
                    failures, approvedBy, leastQuorum>>

\* applyUnion / applyTribalUnit: only the existence of the target is checked.
ApplyUnit(h) ==
  LET row == req[h].snap
  IN /\ At(h, "apply") /\ row.target \in Units /\ unit[row.target].live
     /\ unit' = [unit EXCEPT ![row.target] =
          IF row.op = "delete" THEN [@ EXCEPT !.live = FALSE]
          ELSE [@ EXCEPT !.data = row.patch]]
     /\ Publish(h)
     /\ UNCHANGED <<review, settings, person, closure, due, sent, decided,
                    started, failures, approvedBy, leastQuorum>>

\* The row went between the check and the write: Prisma throws (P2025), the
\* transaction rolls back, the request answers with an error.
LoseUnit(h) ==
  LET row == req[h].snap
  IN /\ At(h, "apply") /\ row.target \in Units /\ ~unit[row.target].live
     /\ Return(h)
     /\ UNCHANGED <<store, started, failures, history>>

\* After the write, one awaited call at a time: a notification to the owner
\* (or to the reviewers), or reputation.recordDecision.
CallNext(h) ==
  LET c == req[h].id
      call == Head(req[h].after)
  IN /\ At(h, "after")
     /\ sent' = IF call \in Notices
                  THEN [sent EXCEPT ![c] = @ \cup {call}] ELSE sent
     /\ decided' = CASE call = "accept" ->
                          [decided EXCEPT ![c].accepted = @ + 1]
                     [] call = "refuse" ->
                          [decided EXCEPT ![c].rejected = @ + 1]
                     [] OTHER -> decided
     /\ Then(h, Tail(req[h].after))
     /\ UNCHANGED <<cr, review, settings, person, closure, unit, due, started,
                    failures, history>>

-----------------------------------------------------------------------------
(* The hourly job: ChangeRequestMaintenanceService.runExpirySweep *)

TimePasses(c) ==
  /\ c \in Expiring \ due /\ cr[c].status # "none"
  /\ due' = due \cup {c}
  /\ UNCHANGED <<cr, review, settings, person, closure, unit, req, sent,
                 decided, started, failures, history>>

\* findMany: the requests past expiresAt and not terminal now.
StartSweep(h) ==
  LET found == {c \in due : cr[c].status \in NonTerminal}
  IN /\ found # {}
     /\ Begin(h, [Idle EXCEPT !.pc = "sweep", !.todo = found])
     /\ UNCHANGED <<store, failures, history>>

\* One update per request found, whatever its status is by now.
Expire(h, c) ==
  /\ At(h, "sweep") /\ c \in req[h].todo
  /\ SetStatus(c, "expired")
  /\ req' = [req EXCEPT ![h].pc = "expired", ![h].id = c,
                        ![h].todo = @ \ {c}]
  /\ UNCHANGED <<review, settings, person, closure, unit, due, sent, decided,
                 started, failures, history>>

NotifyExpired(h) ==
  /\ At(h, "expired")
  /\ sent' = [sent EXCEPT ![req[h].id] = @ \cup {"expired"}]
  /\ req' = [req EXCEPT ![h] = IF @.todo = {} THEN Idle
                               ELSE [@ EXCEPT !.pc = "sweep"]]
  /\ UNCHANGED <<cr, review, settings, person, closure, unit, due, decided,
                 started, failures, history>>

-----------------------------------------------------------------------------
(* Everybody else.  These are single transactions or statements, executed in *)
(* a slot of their own.                                                      *)

\* PATCH /workflow-settings
UpdateSettings(h, n, e) ==
  /\ CanStart(h)
  /\ settings' = [approvalsRequired |-> n, reviewerCanEdit |-> e]
  /\ settings' # settings
  /\ leastQuorum' = IF n < leastQuorum THEN n ELSE leastQuorum
  /\ started' = started + 1
  /\ UNCHANGED <<cr, review, person, closure, unit, due, req, sent, decided,
                 failures, approvedBy, applied, attempts>>

\* PATCH /persons/:id by an administrator who has read the current version.
DirectUpdate(h, t, p) ==
  /\ CanStart(h)
  /\ person[t].live /\ person[t].version < MaxVersion
  /\ person' = [person EXCEPT ![t].version = @ + 1, ![t].data = p,
                  ![t].father = IF p \in FatherPatches THEN p ELSE @]
  /\ closure' = IF p \in FatherPatches THEN [closure EXCEPT ![t] = p]
                ELSE closure
  /\ started' = started + 1
  /\ UNCHANGED <<cr, review, settings, unit, due, req, sent, decided, failures,
                 history>>

\* DELETE /persons/:id
DirectDelete(h, t) ==
  /\ CanStart(h)
  /\ person[t].live
  /\ person' = [person EXCEPT ![t].live = FALSE]
  /\ closure' = [closure EXCEPT ![t] = None]
  /\ started' = started + 1
  /\ UNCHANGED <<cr, review, settings, unit, due, req, sent, decided, failures,
                 history>>

\* DELETE /tribal-units/:id
DirectDeleteUnit(h, t) ==
  /\ CanStart(h)
  /\ unit[t].live
  /\ unit' = [unit EXCEPT ![t].live = FALSE]
  /\ started' = started + 1
  /\ UNCHANGED <<cr, review, settings, person, closure, due, req, sent,
                 decided, failures, history>>

\* The process dies, the database is unreachable, or a statement throws (a
\* rejected parent, a cycle, a deadlock): an open transaction rolls back and
\* the rest of the function does not happen.
Fail(h) ==
  /\ ~At(h, "idle") /\ failures < MaxFailures
  /\ failures' = failures + 1
  /\ Return(h)
  /\ UNCHANGED <<store, started, history>>

-----------------------------------------------------------------------------
Continue(h) ==
  \/ WritePatch(h) \/ WriteSubmit(h)
  \/ UpsertReview(h) \/ Finalize(h) \/ CountApprovals(h) \/ Decide(h)
  \/ MarkUnderReview(h)
  \/ CheckTarget(h) \/ ReadBefore(h) \/ CommitConflict(h)
  \/ ApplyCreate(h) \/ ApplyPersonUpdate(h) \/ LosePersonUpdate(h)
  \/ ApplyPersonDelete(h) \/ ApplyUnit(h) \/ LoseUnit(h)
  \/ CallNext(h)
  \/ \E c \in CRs : Expire(h, c)
  \/ NotifyExpired(h)

Start(h) ==
  \/ \E c \in CRs, u \in Users, p \in Patches : StartUpdate(h, c, u, p)
  \/ \E c \in CRs : StartSubmit(h, c)
  \/ \E c \in CRs, u \in Users, d \in Decisions : StartReview(h, c, u, d)
  \/ StartSweep(h)
  \/ \E n \in Quorums, e \in BOOLEAN : UpdateSettings(h, n, e)
  \/ \E t \in Persons, p \in Patches : DirectUpdate(h, t, p)
  \/ \E t \in Persons : DirectDelete(h, t)
  \/ \E t \in Units : DirectDeleteUnit(h, t)

Next ==
  \/ \E c \in CRs, u \in Users, op \in Operations, t \in Targets \cup {None},
        p \in Patches : Create(c, u, op, t, p)
  \/ \E c \in CRs : TimePasses(c)
  \/ \E h \in Handlers : Start(h) \/ Continue(h) \/ Fail(h)

Spec == Init /\ [][Next]_vars

\* Node.js resumes every function whose await has completed.
FairSpec == Spec /\ \A h \in Handlers : WF_vars(Continue(h))

-----------------------------------------------------------------------------
(* What holds however requests interleave and fail *)

\* A patch for a person is written at most once, although several approvals
\* may each find the quorum reached and each run publish(): the version the
\* first one bumped makes the others conflicts (publisher lines 68-71, 209).
UpdateAppliedOnce ==
  \A c \in CRs :
    cr[c].op = "update" /\ cr[c].target \in Persons => applied[c] <= 1

\* Nobody is told of a publication, and no contribution is counted as
\* accepted, unless the patch has reached live data: the status and the patch
\* are one transaction, the calls come after its commit (service lines 295-318).
PublishedWasApplied ==
  \A c \in CRs :
    (\/ cr[c].status = "published"
     \/ sent[c] \cap {"approved", "published"} # {}
     \/ decided[c].accepted > 0)
    => applied[c] > 0

\* Live data changes only after as many members other than the author have
\* approved as the settings asked for at some time, although the count, the
\* settings and the row are read at different awaits (lines 206-241).
AppliedByQuorum ==
  \A c \in CRs :
    applied[c] > 0 => /\ Cardinality(approvedBy[c]) >= leastQuorum
                      /\ cr[c].author \notin approvedBy[c]

\* A request for a versioned person is applied to the version its author saw
\* (baseVersion), whatever committed between the approval and the write.
AppliedToBaseVersion ==
  [][\A c \in CRs :
       applied'[c] > applied[c] /\ cr[c].target \in Persons
       => person[cr[c].target].version = cr[c].base]_vars

\* No quorum is lost between concurrent approvers: each one stores its vote
\* before it counts, so once the stored approvals reach the quorum one of them
\* runs publish() to its commit, or a reviewer takes the approval back.
Quorum(c) == Cardinality(Approvals(c)) >= settings.approvalsRequired

QuorumIsActedOn ==
  \A c \in CRs : Quorum(c) ~> (attempts[c] > 0 \/ ~Quorum(c))

\* A decision, a conflict and an expiry are final.
TerminalIsFinal ==
  [][\A c \in CRs :
       cr[c].status \in Terminal => cr'[c].status = cr[c].status]_vars

-----------------------------------------------------------------------------
(* What holds as long as requests do not overlap *)

\* The closure table records the father the person row names, for everybody
\* who is not deleted: a publication that ends in a conflict moves nobody.
ClosureAgrees ==
  \A p \in Persons : person[p].live => closure[p] = person[p].father

\* A contribution is counted once, as accepted or as rejected.
CountedOnce ==
  \A c \in CRs : decided[c].accepted + decided[c].rejected <= 1

\* The state machine of the workflow, with terminal states and the quorum.
Lifecycle == INSTANCE CRLifecycle WITH
  status <- [c \in CRs |-> cr[c].status],
  votes <- [c \in CRs |-> Approvals(c)],
  required <- settings.approvalsRequired,
  published <- {c \in CRs : applied[c] > 0}

ImplementsLifecycle == Lifecycle!Spec
=============================================================================
