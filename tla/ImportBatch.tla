----------------------------- MODULE ImportBatch -----------------------------
(***************************************************************************)
(* The life of one import batch: upload, the parse job of the worker, the  *)
(* preview, its change request, chunked publication, rejection, rollback   *)
(* (import.service.ts, import-parse.service.ts, import-apply.service.ts,   *)
(* change-request.service.ts for requests of type import_batch).  Only a   *)
(* chunk is a transaction; every other await is a statement of its own.    *)
(***************************************************************************)
EXTENDS Integers, FiniteSets

CONSTANTS
  NumRows,      \* rows of the file, in the order they are applied
  Father,       \* the row each row names as its father, 0 for none
  Parsed,       \* what parsing finds of each row
  ChunkSize,    \* rows per INSERT and per transaction
  Decisions,    \* the decisions members take on rows
  CRs, Reviewers, Calls, None,
  Quorum,       \* approvalsRequired
  MaxCalls,     \* bound: calls started, the upload aside
  MaxFailures,  \* bound: calls that die and jobs delivered again
  MaxAfter,     \* bound: calls started after something went out of order
  MaxDeliveries \* bound: deliveries of the parse job

Rows == 1..NumRows
Attempts == 1..MaxDeliveries

ASSUME ImportConstantsOK ==
  /\ {NumRows, ChunkSize, MaxDeliveries, Quorum} \subseteq Nat \ {0}
  /\ {MaxCalls, MaxFailures, MaxAfter} \subseteq Nat
  /\ Father \in [Rows -> 0..NumRows]
  /\ \A r \in Rows : Father[r] < r
  /\ Decisions \subseteq {"new", "merge", "ignore"}
  /\ Parsed \in [Rows -> {"valid", "duplicate", "ambiguous", "error"}]

VARIABLES
  status,     \* of the batch
  queued,     \* deliveries of the parse job so far; -1: not in the queue
  parse,      \* pc of each delivery, and rows it has inserted
  staged,     \* import_rows: one copy of the file's rows per delivery
  request,    \* change requests of the batch, with the approvals stored
  person,     \* live persons of the batch: publication, copy of the row, father
  outside,    \* one of them that others name as parent or spouse, or none
  call,       \* calls in flight
  started, failures,  \* counters behind the bounds
  disorder    \* history, 0 while no calls overlapped, none died, no delivery wrote
              \* after another had ended parsing, and no dependent was added
              \* between the two statements of a rollback

batchVars == <<status, queued, parse, staged, request, person, outside>>
vars == <<batchVars, call, started, failures, disorder>>

Absent == [status |-> "absent", decision |-> "new"]
NoCall == [pc |-> "idle", next |-> "idle", by |-> None, cr |-> None,
           copy |-> <<1, 1>>, new |-> Absent, rows |-> <<>>, at |-> 0, run |-> 0,
           created |-> {}, ids |-> {}]
Init ==
  /\ status = "none" /\ queued = -1
  /\ parse = [a \in Attempts |-> [pc |-> "none", at |-> 0]]
  /\ staged = [x \in Attempts \X Rows |-> Absent]
  /\ request = [c \in CRs |-> [status |-> "none", votes |-> {}]]
  /\ person = {} /\ outside = {}
  /\ call = [c \in Calls |-> NoCall]
  /\ started = 0 /\ failures = 0 /\ disorder = 0

-----------------------------------------------------------------------------
At(c, pc) == call[c].pc = pc
Goto(c, pc) == call' = [call EXCEPT ![c].pc = pc]
Finish(c) == call' = [call EXCEPT ![c] = NoCall]

Begin(c, r) ==
  /\ At(c, "idle") /\ started < MaxCalls
  /\ started' = started + 1
  /\ call' = [call EXCEPT ![c] = [r EXCEPT !.run = started + 1]]
  /\ disorder < MaxAfter
  /\ disorder' = IF disorder = 0 /\ \A d \in Calls : At(d, "idle") THEN 0 ELSE disorder + 1
  /\ UNCHANGED failures

\* Something has gone out of order, if it had not before.
DisorderIf(b) == disorder' = IF b /\ disorder = 0 THEN 1 ELSE disorder

Steps == UNCHANGED <<started, failures, disorder>>

SetRequest(cr, s) == request' = [request EXCEPT ![cr].status = s]

-----------------------------------------------------------------------------
(* upload and the parse job *)

\* The file is stored and the row created; the job is queued afterwards.
Upload(c) ==
  /\ status = "none"
  /\ call' = [call EXCEPT ![c].pc = "enqueue"]
  /\ status' = "uploaded"
  /\ Steps /\ UNCHANGED <<queued, parse, staged, request, person, outside>>

Enqueue(c) ==
  /\ At(c, "enqueue")
  /\ queued' = 0
  /\ Finish(c)
  /\ Steps /\ UNCHANGED <<status, parse, staged, request, person, outside>>

\* progress.update by a delivery: whatever the status is now.
Report(s) ==
  /\ status' = s
  /\ DisorderIf(status \notin {"uploaded", "parsing", "validating", "resolving"})

ParseGoto(a, pc) == parse' = [parse EXCEPT ![a].pc = pc]

\* The queue delivers the job; again when the delivery before has died (takes
\* no further step) or only lost its lock.
Deliver(a) ==
  /\ queued = a - 1
  /\ IF a = 1 THEN failures' = failures
     ELSE /\ parse[a - 1].pc # "done" /\ failures < MaxFailures
          /\ failures' = failures + 1
  /\ queued' = a
  /\ ParseGoto(a, "parse")
  /\ Report("parsing")
  /\ UNCHANGED <<staged, request, person, outside, call, started>>

ParseStage(a, pc, s, next) ==
  /\ parse[a].pc = pc
  /\ ParseGoto(a, next)
  /\ Report(s)
  /\ UNCHANGED <<queued, staged, request, person, outside, call, started, failures>>

Validate(a) == ParseStage(a, "parse", "validating", "validate")

\* Reported twice, before the lookups and before the lineage check.
Resolve(a) == ParseStage(a, "validate", "resolving", "insert")

\* ownerInsertRows, a chunk of rows at a time.
InsertRows(a) ==
  LET n == parse[a].at
      chunk == {r \in Rows : r > n /\ r <= n + ChunkSize}
  IN /\ parse[a].pc = "insert" /\ n < NumRows
     /\ staged' = [x \in Attempts \X Rows |->
          IF x[1] = a /\ x[2] \in chunk
            THEN [status |-> Parsed[x[2]], decision |-> "new"] ELSE staged[x]]
     /\ parse' = [parse EXCEPT ![a].at = IF n + ChunkSize < NumRows
                                          THEN n + ChunkSize ELSE NumRows]
     /\ UNCHANGED <<status, queued, request, person, outside, call, started,
                    failures, disorder>>

Present(a) ==
  /\ parse[a].at = NumRows
  /\ ParseStage(a, "insert", "preview", "done")

\* The catch of run(): the batch fails and so does the job.
ParseFails(a) ==
  \E pc \in {"parse", "validate", "insert"} :
    ParseStage(a, pc, "failed", "done")

-----------------------------------------------------------------------------
(* the preview: updateRow and submit *)

Copies == {x \in Attempts \X Rows : staged[x].status # "absent"}
Count(s) == Cardinality({x \in Copies : staged[x].status = s})

\* The batch and the row are read; what is written is computed from them.
StartUpdateRow(c, x, new) ==
  /\ status = "preview" /\ x \in Copies
  /\ Begin(c, [NoCall EXCEPT !.pc = "writeRow", !.copy = x, !.new = new])
  /\ UNCHANGED batchVars

\* What a member may ask for: a decision, or a parent for an ambiguous row.
Edits(x) ==
  {[staged[x] EXCEPT !.decision = d] : d \in Decisions}
    \cup IF staged[x].status = "ambiguous"
           THEN {[staged[x] EXCEPT !.status = "valid"]} ELSE {}

UpdateRow(c) ==
  /\ At(c, "writeRow")
  /\ staged' = [staged EXCEPT ![call[c].copy] = call[c].new]
  /\ Finish(c)
  /\ Steps /\ UNCHANGED <<status, queued, parse, request, person, outside>>

\* countCreating.
Creating == {x \in Copies :
  \/ staged[x].status = "valid" /\ staged[x].decision # "ignore"
  \/ staged[x].status = "duplicate" /\ staged[x].decision = "new"}

\* Mutant: the status of the batch is not looked at.
StartSubmit_AnyStatus(c, partial) ==
  /\ status # "none"
  /\ partial \/ Count("error") + Count("ambiguous") = 0
  /\ Creating # {}
  /\ Begin(c, [NoCall EXCEPT !.pc = "create"])
  /\ UNCHANGED batchVars

\* The checks of submit.  The batch may also exceed the tenant's plan.
StartSubmit(c, partial) ==
  /\ status = "preview"
  /\ partial \/ Count("error") + Count("ambiguous") = 0
  /\ Creating # {}
  /\ Begin(c, [NoCall EXCEPT !.pc = "create"])
  /\ UNCHANGED batchVars

CreateRequest(c, cr) ==
  /\ At(c, "create") /\ request[cr].status = "none"
  /\ SetRequest(cr, "draft")
  /\ call' = [call EXCEPT ![c].pc = "submit", ![c].cr = cr]
  /\ Steps /\ UNCHANGED <<status, queued, parse, staged, person, outside>>

SubmitRequest(c) ==
  /\ At(c, "submit")
  /\ SetRequest(call[c].cr, "submitted")
  /\ Goto(c, "mark")
  /\ Steps /\ UNCHANGED <<status, queued, parse, staged, person, outside>>

MarkSubmitted(c) ==
  /\ At(c, "mark")
  /\ status' = "submitted"
  /\ Finish(c)
  /\ Steps /\ UNCHANGED <<queued, parse, staged, request, person, outside>>

-----------------------------------------------------------------------------
(* the change request: review, resubmission, expiry *)

InReview(cr) == request[cr].status \in {"submitted", "under_review"}

\* review() has read the request; the vote is stored next.
StartReview(c, cr, v, pc) ==
  /\ InReview(cr)
  /\ Begin(c, [NoCall EXCEPT !.pc = "vote", !.by = v, !.cr = cr, !.next = pc])
  /\ UNCHANGED batchVars

StoreVote(c) ==
  LET cr == call[c].cr
      v == call[c].by
  IN /\ At(c, "vote")
     /\ request' = [request EXCEPT ![cr].votes =
          IF call[c].next = "count" THEN @ \cup {v} ELSE @ \ {v}]
     /\ Goto(c, call[c].next)
     /\ Steps /\ UNCHANGED <<status, queued, parse, staged, person, outside>>

CountVotes(c) ==
  /\ At(c, "count")
  /\ Goto(c, IF Cardinality(request[call[c].cr].votes) >= Quorum THEN "load" ELSE "wait")
  /\ Steps /\ UNCHANGED batchVars

\* The status the call decided on, whatever it is by now.
WriteRequest(c, pc, s, next) ==
  /\ At(c, pc)
  /\ SetRequest(call[c].cr, s)
  /\ IF next = "idle" THEN Finish(c) ELSE Goto(c, next)
  /\ Steps /\ UNCHANGED <<status, queued, parse, staged, person, outside>>

Wait(c) == WriteRequest(c, "wait", "under_review", "idle")
Reject(c) == WriteRequest(c, "reject", "rejected", "sync")
RequestChanges(c) == WriteRequest(c, "changes", "changes_requested", "idle")
Resubmit(c) == WriteRequest(c, "resubmit", "submitted", "idle")
Close(c) == WriteRequest(c, "close", "published", "idle")

\* onBatchRejected: read, then write.
SyncRejected(c) ==
  /\ At(c, "sync")
  /\ IF status = "submitted" THEN Goto(c, "syncWrite") ELSE Finish(c)
  /\ Steps /\ UNCHANGED batchVars

WriteRejected(c) ==
  /\ At(c, "syncWrite")
  /\ status' = "rejected"
  /\ Finish(c)
  /\ Steps /\ UNCHANGED <<queued, parse, staged, request, person, outside>>

StartResubmit(c, cr) ==
  /\ request[cr].status \in {"draft", "changes_requested"}
  /\ Begin(c, [NoCall EXCEPT !.pc = "resubmit", !.cr = cr])
  /\ UNCHANGED batchVars

\* The hourly sweep knows nothing of batches.
Expire(cr) ==
  /\ request[cr].status \in {"draft", "submitted", "under_review", "changes_requested"}
  /\ SetRequest(cr, "expired")
  /\ UNCHANGED <<status, queued, parse, staged, person, outside, call, started,
                 failures, disorder>>

-----------------------------------------------------------------------------
(* publishBatch *)

\* Mutant: every staging row is applied.
LoadRows_AllCopies(c, pick) ==
  /\ At(c, "load") /\ pick = [r \in {x[2] : x \in Copies} |-> 1]
  /\ call' = [call EXCEPT ![c].pc = IF pick = <<>> THEN "publish" ELSE "chunk",
       ![c].rows = [x \in Copies |-> staged[x]]]
  /\ Steps /\ UNCHANGED batchVars

\* The staging rows are read once; of several copies of a row the order of
\* application keeps one, whichever the query returned last.
LoadRows(c, pick) ==
  /\ At(c, "load")
  /\ DOMAIN pick = {x[2] : x \in Copies}
  /\ \A r \in DOMAIN pick : <<pick[r], r>> \in Copies
  /\ call' = [call EXCEPT ![c].pc = IF pick = <<>> THEN "publish" ELSE "chunk",
       ![c].rows = [x \in {<<pick[r], r>> : r \in DOMAIN pick} |-> staged[x]]]
  /\ Steps /\ UNCHANGED batchVars

InChunk(c, r) == r > call[c].at /\ r <= call[c].at + ChunkSize

\* applyRow: ignored, merged into somebody, or created and linked to the
\* person created for the row its file names as father.
NewPersons(c) ==
  LET rows == call[c].rows
      new == {x \in DOMAIN rows : InChunk(c, x[2]) /\ rows[x].decision = "new"
                                    /\ rows[x].status \in {"valid", "duplicate"}}
      known == call[c].created \cup {x[2] : x \in new}
  IN {[run |-> call[c].run, copy |-> x,
       father |-> IF Father[x[2]] \in known THEN Father[x[2]] ELSE 0] : x \in new}

\* The father a row is linked to exists, unless a rollback came between.
FathersExist(c) ==
  \A p \in NewPersons(c) : p.father = 0 \/ InChunk(c, p.father) \/
    \E q \in person : q.run = p.run /\ q.copy[2] = p.father

\* Mutant: the map from rows to persons is new for every chunk.
ApplyChunk_MapPerChunk(c) ==
  /\ At(c, "chunk") /\ FathersExist(c)
  /\ person' = person \cup NewPersons(c)
  /\ call' = [call EXCEPT ![c].pc = "progress", ![c].at = @ + ChunkSize]
  /\ Steps /\ UNCHANGED <<status, queued, parse, staged, request, outside>>

\* One transaction: the rows of a chunk, parents before children.
ApplyChunk(c) ==
  /\ At(c, "chunk") /\ FathersExist(c)
  /\ person' = person \cup NewPersons(c)
  /\ call' = [call EXCEPT ![c].pc = "progress",
       ![c].created = @ \cup {p.copy[2] : p \in NewPersons(c)},
       ![c].at = @ + ChunkSize]
  /\ Steps /\ UNCHANGED <<status, queued, parse, staged, request, outside>>

\* The transaction throws, and the call with it.
FailChunk(c) ==
  /\ At(c, "chunk") /\ ~FathersExist(c)
  /\ Finish(c)
  /\ Steps /\ UNCHANGED batchVars

WriteStatus(c, pc, s, next) ==
  /\ At(c, pc)
  /\ status' = s
  /\ IF next = "idle" THEN Finish(c) ELSE Goto(c, next)
  /\ Steps /\ UNCHANGED <<queued, parse, staged, request, person, outside>>

ReportChunk(c) == WriteStatus(c, "progress", "submitted",
  IF \E x \in DOMAIN call[c].rows : x[2] > call[c].at THEN "chunk" ELSE "publish")
PublishBatch(c) == WriteStatus(c, "publish", "published", "announce")
Announce(c) == WriteStatus(c, "announce", "published", "close")

-----------------------------------------------------------------------------
(* rollback *)

StartRollback(c) ==
  /\ status = "published"
  /\ Begin(c, [NoCall EXCEPT !.pc = "blockers", !.ids = person])
  /\ UNCHANGED batchVars

\* Mutant: nobody is asked.
FindBlockers_Skipped(c) ==
  /\ At(c, "blockers")
  /\ Goto(c, "delete")
  /\ Steps /\ UNCHANGED batchVars

\* findRollbackBlockers, for the persons read before.
FindBlockers(c) ==
  /\ At(c, "blockers")
  /\ IF outside \cap call[c].ids # {} THEN Finish(c) ELSE Goto(c, "delete")
  /\ Steps /\ UNCHANGED batchVars

\* Every live person that carries the batch's id, whichever call created it.
DeletePersons(c) ==
  /\ At(c, "delete")
  /\ person' = {}
  /\ Goto(c, "rolledBack")
  /\ Steps /\ UNCHANGED <<status, queued, parse, staged, request, outside>>

MarkRolledBack(c) == WriteStatus(c, "rolledBack", "rolled_back", "idle")

-----------------------------------------------------------------------------
\* Somebody outside the batch gets a person of it as parent or spouse.
AddDependent(p) ==
  /\ p \in person
  /\ outside' = {p}
  /\ DisorderIf(\E c \in Calls : At(c, "delete"))
  /\ UNCHANGED <<status, queued, parse, staged, request, person, call, started, failures>>

\* A crash or an error of the database; a failing chunk leaves nothing.
Die(c) ==
  /\ ~At(c, "idle") /\ failures < MaxFailures
  /\ failures' = failures + 1 /\ DisorderIf(TRUE)
  /\ Finish(c)
  /\ UNCHANGED <<batchVars, started>>

Parse(a) ==
  \/ Deliver(a) \/ Validate(a) \/ Resolve(a) \/ InsertRows(a)
  \/ Present(a)

Step(c) ==
  \/ Enqueue(c) \/ UpdateRow(c)
  \/ (\E cr \in CRs : CreateRequest(c, cr)) \/ SubmitRequest(c) \/ MarkSubmitted(c)
  \/ StoreVote(c) \/ CountVotes(c) \/ Wait(c) \/ Reject(c) \/ RequestChanges(c)
  \/ Resubmit(c) \/ Close(c) \/ SyncRejected(c) \/ WriteRejected(c)
  \/ (\E pick \in UNION {[d -> Attempts] : d \in SUBSET Rows} : LoadRows(c, pick))
  \/ ApplyChunk(c) \/ FailChunk(c) \/ ReportChunk(c) \/ PublishBatch(c) \/ Announce(c)
  \/ FindBlockers(c) \/ DeletePersons(c) \/ MarkRolledBack(c)

Start(c) ==
  \/ Upload(c) \/ StartRollback(c)
  \/ \E partial \in BOOLEAN : StartSubmit(c, partial)
  \/ \E x \in Copies : \E new \in Edits(x) : StartUpdateRow(c, x, new)
  \/ \E cr \in CRs :
       \/ StartResubmit(c, cr)
       \/ \E v \in Reviewers, pc \in {"count", "reject", "changes"} :
            StartReview(c, cr, v, pc)

Next ==
  \/ \E a \in Attempts : Parse(a) \/ ParseFails(a)
  \/ \E c \in Calls : Start(c) \/ Step(c) \/ Die(c)
  \/ \E cr \in CRs : Expire(cr)
  \/ \E p \in person : AddDependent(p)

Spec == Init /\ [][Next]_vars

-----------------------------------------------------------------------------
Publishing(c) == call[c].pc \in {"chunk", "progress", "publish", "announce"}

\* As long as calls do not overlap and none dies, the status follows the
\* state machine of batches, and live data holds records of the batch only
\* while it is published or about to be: although the job may be delivered
\* twice, the deliveries run side by side, and requests be returned, sent in
\* again or expire.
L == INSTANCE ImportLifecycle WITH live <- person # {}
FollowsLifecycle == [][disorder' = 0 => [L!Next]_<<status, person # {}>>]_vars

\* Then a published batch also has exactly one person for each row that was
\* to be created, however often the job was delivered and died while it
\* inserted rows.
ImportedExactlyOnce ==
  disorder = 0 /\ status = "published" /\ (\A c \in Calls : At(c, "idle")) =>
    \A r \in Rows :
      LET copies == {staged[x] : x \in {y \in Copies : y[2] = r}}
          made == Cardinality({p \in person : p.copy[2] = r})
      IN /\ made <= 1
         /\ copies # {} /\ copies \subseteq [status : {"valid", "duplicate"}, decision : {"new"}]
              => made = 1

\* A rollback never takes a parent or spouse from others.
NobodyLosesAParent == disorder = 0 => outside \subseteq person

\* Whatever overlaps or dies: a person whose father was created by the same
\* publication is linked to him, across the boundaries of chunks.
FathersAreLinked ==
  \A p, q \in person :
    p.run = q.run /\ q.copy[2] = Father[p.copy[2]] => p.father = q.copy[2]

=============================================================================
