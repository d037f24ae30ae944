-------------------------- MODULE ImportBatchProofs --------------------------
(***************************************************************************)
(* Import batches of any number of rows, parsed by any number of           *)
(* deliveries and published, rejected and rolled back by any number of     *)
(* calls: the links between persons hold whatever overlaps or dies, and    *)
(* what the module promises of a batch as long as nothing does.            *)
(***************************************************************************)
EXTENDS ImportBatch, FiniteSetTheorems, TLAPS

Copy == Attempts \X Rows
Staged == [status : {"absent", "valid", "duplicate", "ambiguous", "error"},
           decision : {"new", "merge", "ignore"}]
PersonRows == [run : Nat, copy : Copy, father : 0..NumRows]
Loaded == UNION {[d -> Staged] : d \in SUBSET Copy}
RequestStatus == {"none", "draft", "submitted", "under_review", "rejected",
                  "changes_requested", "published", "expired"}
Requests == [status : RequestStatus, votes : SUBSET (Reviewers \cup {None})]
Deciding == {"vote", "count", "load", "wait", "reject", "changes", "resubmit", "sync", "syncWrite"}
Building == {"chunk", "progress", "publish"}
Ending == {"announce", "close"}
Undoing == {"blockers", "delete", "rolledBack"}
Preparing == {"writeRow", "create", "submit", "mark"}
Places == {"idle", "enqueue"} \cup Preparing \cup Deciding \cup Building \cup Ending \cup Undoing
CallRecords == [pc : Places, next : Places, by : Reviewers \cup {None}, cr : CRs \cup {None},
                copy : Copy, new : Staged, rows : Loaded, at : Nat, run : Nat,
                created : SUBSET Rows, ids : SUBSET PersonRows]

ImportTypeOK ==
  /\ queued \in Int
  /\ parse \in [Attempts -> [pc : {"none", "parse", "validate", "insert", "done"}, at : 0..NumRows]]
  /\ staged \in [Copy -> Staged]
  /\ request \in [CRs -> Requests]
  /\ person \subseteq PersonRows
  /\ call \in [Calls -> CallRecords]
  /\ started \in Nat /\ disorder \in Nat

Busy(c) == call[c].pc # "idle"
Somewhere(P) == \E c \in Calls : call[c].pc \in P

\* Nothing has been done before the upload.
Pristine ==
  status = "none" =>
    /\ queued = -1 /\ \A c \in Calls : call[c] = NoCall
    /\ \A cr \in CRs : request[cr].status = "none"

-----------------------------------------------------------------------------
(* Whatever overlaps or dies *)

\* A call knows the persons its publication created: they are of earlier chunks.
Knows(c) ==
  /\ call[c].pc = "vote" => call[c].next \in {"count", "reject", "changes"}
  /\ call[c].run <= started
  /\ call[c].pc \notin {"idle", "enqueue"} => call[c].run > 0
  /\ \A p \in person : p.run = call[c].run =>
       p.copy[2] \in call[c].created /\ p.copy[2] <= call[c].at

Runs ==
  /\ \A c \in Calls : Knows(c)
  /\ \A c \in Calls : ~Busy(c) => call[c] = NoCall
  /\ \A c, d \in Calls : call[c].run = call[d].run => c = d \/ call[c].run = 0
  /\ \A p \in person : p.run \in 1..started

\* A delivery has staged the rows it has come to; a row changed was staged.
StagedSoFar ==
  /\ \A x \in Copy : x \in Copies <=> x[2] <= parse[x[1]].at
  /\ \A c \in Calls : call[c].pc = "writeRow" =>
       call[c].copy \in Copies /\ call[c].new.status # "absent"

-----------------------------------------------------------------------------
(* While nothing has gone out of order *)

Early == {"none", "preview"} \cup L!Reading
Owning == (Deciding \cup Building \cup Ending) \cup {"submit", "mark"}
Open(cr) == request[cr].status \in {"draft", "submitted", "under_review", "changes_requested"}

\* What the place of a call says of the batch.
Phase(c) ==
  LET pc == call[c].pc
  IN /\ pc \in Preparing => status = "preview"
     /\ pc \in Deciding \cup Building => status = "submitted"
     /\ pc \in Ending \cup Undoing => status = "published"
     /\ pc \in Owning => call[c].cr \in CRs /\ request[call[c].cr].status # "none"
     /\ pc \in {"sync", "syncWrite"} => request[call[c].cr].status = "rejected"
     /\ pc \notin Building \cup Ending => call[c].created = {} /\ call[c].at = 0
     /\ pc = "blockers" => call[c].ids = person
     /\ pc = "delete" => outside = {}
     /\ pc = "rolledBack" => person = {}

ToCreate(s) == s.decision = "new" /\ s.status \in {"valid", "duplicate"}

\* A publication loaded one copy of each row, and the persons of the batch are
\* those of the rows it has come to.
Builds(c) ==
  LET rows == call[c].rows
  IN call[c].pc \in Building =>
       /\ \A x, y \in DOMAIN rows : x[2] = y[2] => x = y
       /\ \A r \in Rows : \E x \in DOMAIN rows : x[2] = r
       /\ \A x \in DOMAIN rows : x \in Copies /\ rows[x] = staged[x]
       /\ \A p \in person : p.run = call[c].run /\ p.copy \in DOMAIN rows
       /\ \A x \in DOMAIN rows : x[2] <= call[c].at /\ ToCreate(rows[x]) =>
            \E p \in person : p.copy = x
       /\ \A r \in call[c].created : \E p \in person : p.copy[2] = r
       /\ call[c].pc = "publish" => \A x \in DOMAIN rows : x[2] <= call[c].at

\* Every row whose copies are all to be created has a person.
Settled ==
  \A r \in Rows :
    (\A x \in Copies : x[2] = r => ToCreate(staged[x])) => \E p \in person : p.copy[2] = r

InOrder ==
  /\ \A c, d \in Calls : Busy(c) /\ Busy(d) => c = d
  /\ \A c \in Calls : Phase(c)
  /\ \A c \in Calls : Builds(c)
  /\ outside \subseteq person
  /\ person = {} \/ status = "published" \/ Somewhere(Building)
  /\ \A p, q \in person : p.copy[2] = q.copy[2] => p = q
  /\ \A a, b \in CRs : request[a].status # "none" /\ request[b].status # "none" => a = b
  /\ \A cr \in CRs : request[cr].status # "none" =>
       status \notin Early \/ Somewhere({"submit", "mark"})
  /\ \A cr \in CRs : Open(cr) =>
       status = "submitted" \/ Somewhere({"submit", "mark"} \cup Ending)
  /\ status \in {"preview", "submitted", "published"} =>
       \A r \in Rows : \E x \in Copies : x[2] = r
  /\ status = "published" => Somewhere({"rolledBack"}) \/ Settled

ImportInv ==
  /\ Pristine /\ Runs /\ FathersAreLinked /\ StagedSoFar
  /\ disorder = 0 => InOrder

-----------------------------------------------------------------------------
(* Records *)

LEMMA NoRowsLoaded == <<>> \in Loaded /\ DOMAIN <<>> = {}
<1>1. <<>> = [x \in {} |-> NoCall] /\ DOMAIN <<>> = {}
  OBVIOUS
<1>2. [x \in {} |-> NoCall] \in [{} -> Staged]
  OBVIOUS
<1>3. QED
  BY <1>1, <1>2 DEF Loaded

LEMMA NoCallFields ==
  /\ NoCall \in CallRecords /\ NoCall.pc = "idle" /\ NoCall.run = 0 /\ NoCall.at = 0
  /\ NoCall.created = {}
<1>1. <<1, 1>> \in Copy /\ Absent \in Staged
  BY ImportConstantsOK DEF Copy, Attempts, Rows, Absent, Staged
<1>2. QED
  BY <1>1, NoRowsLoaded DEF NoCall, CallRecords, Places

LEMMA GotoFields ==
  ASSUME ImportTypeOK, NEW c \in Calls, NEW pc \in Places, Goto(c, pc)
  PROVE  /\ call' \in [Calls -> CallRecords] /\ \A d \in Calls \ {c} : call'[d] = call[d]
         /\ call'[c].pc = pc /\ call'[c].next = call[c].next /\ call'[c].by = call[c].by
         /\ call'[c].cr = call[c].cr /\ call'[c].copy = call[c].copy
         /\ call'[c].new = call[c].new /\ call'[c].rows = call[c].rows
         /\ call'[c].at = call[c].at /\ call'[c].run = call[c].run
         /\ call'[c].created = call[c].created /\ call'[c].ids = call[c].ids
<1>1. PICK r \in CallRecords : r = [call[c] EXCEPT !.pc = pc]
  BY DEF ImportTypeOK, CallRecords
<1>2. call' = [call EXCEPT ![c] = r]
  BY <1>1 DEF Goto
<1>3. /\ r.pc = pc /\ r.next = call[c].next /\ r.by = call[c].by /\ r.cr = call[c].cr
      /\ r.copy = call[c].copy /\ r.new = call[c].new /\ r.rows = call[c].rows
      /\ r.at = call[c].at /\ r.run = call[c].run /\ r.created = call[c].created
      /\ r.ids = call[c].ids
  BY <1>1 DEF ImportTypeOK, CallRecords
<1>4. QED
  BY <1>2, <1>3 DEF ImportTypeOK

LEMMA FinishFields ==
  ASSUME ImportTypeOK, NEW c \in Calls, Finish(c)
  PROVE  /\ call' \in [Calls -> CallRecords] /\ \A d \in Calls \ {c} : call'[d] = call[d]
         /\ call'[c] = NoCall
BY NoCallFields DEF Finish, ImportTypeOK

\* A call begins with the number of its run.
LEMMA BeginFields ==
  ASSUME ImportTypeOK, NEW c \in Calls, NEW r \in CallRecords, Begin(c, r)
  PROVE  /\ call' \in [Calls -> CallRecords] /\ \A d \in Calls \ {c} : call'[d] = call[d]
         /\ call'[c].pc = r.pc /\ call'[c].next = r.next /\ call'[c].cr = r.cr
         /\ call'[c].copy = r.copy /\ call'[c].new = r.new /\ call'[c].at = r.at
         /\ call'[c].run = started + 1 /\ call'[c].created = r.created /\ call'[c].ids = r.ids
         /\ call[c].pc = "idle" /\ started' = started + 1
         /\ disorder' = 0 => disorder = 0 /\ \A d \in Calls : call[d].pc = "idle"
<1>0. started + 1 \in Nat
  BY DEF ImportTypeOK
<1>1. PICK s \in CallRecords : s = [r EXCEPT !.run = started + 1]
  BY <1>0 DEF CallRecords
<1>2. /\ s.pc = r.pc /\ s.next = r.next /\ s.cr = r.cr /\ s.copy = r.copy /\ s.new = r.new
      /\ s.at = r.at /\ s.run = started + 1 /\ s.created = r.created /\ s.ids = r.ids
  BY <1>1 DEF CallRecords
<1>3. call' = [call EXCEPT ![c] = s]
  BY <1>1 DEF Begin
<1>4. disorder' = 0 => disorder = 0 /\ \A d \in Calls : call[d].pc = "idle"
  BY DEF Begin, At, ImportTypeOK
<1>5. QED
  BY <1>2, <1>3, <1>4 DEF Begin, At, ImportTypeOK

-----------------------------------------------------------------------------
(* Steps of one call *)

Inv == ImportTypeOK /\ ImportInv

\* Nobody else takes a step.
Only(c) == \A d \in Calls \ {c} : call'[d] = call[d]

LEMMA RunsStay ==
  ASSUME Inv, NEW c \in Calls, Only(c), person' \subseteq person, started' = started,
         \/ call'[c] = NoCall
         \/ /\ call'[c].run = call[c].run /\ call'[c].at = call[c].at
            /\ call'[c].created = call[c].created /\ call'[c].pc \notin {"idle", "vote"}
            /\ call[c].pc \notin {"idle", "enqueue"} \/ call'[c].pc = "enqueue"
  PROVE  Runs' /\ FathersAreLinked'
<1>1. ASSUME NEW d \in Calls PROVE Knows(d)'
  <2>1. Knows(d) /\ started \in Nat /\ \A p \in person : p.run > 0
    BY DEF Inv, ImportInv, Runs, ImportTypeOK
  <2>2. CASE d # c
    BY <2>1, <2>2 DEF Knows, Only
  <2>3. CASE d = c
    BY <2>1, <2>3, NoCallFields DEF Knows
  <2>4. QED
    BY <2>2, <2>3
<1>2. \A d \in Calls : call'[d].pc = "idle" => call'[d] = NoCall
  BY NoCallFields DEF Inv, ImportInv, Runs, Only, Busy
<1>3. \A d \in Calls : call'[d].run \in {call[d].run, 0}
  BY NoCallFields DEF Only
<1>4. \A d, e \in Calls : call'[d].run = call'[e].run => d = e \/ call'[d].run = 0
  BY <1>3 DEF Inv, ImportInv, Runs
<1>5. \A p \in person' : p.run \in 1..started'
  BY DEF Inv, ImportInv, Runs
<1>6. FathersAreLinked'
  BY DEF Inv, ImportInv, FathersAreLinked
<1>7. QED
  BY <1>1, <1>2, <1>4, <1>5, <1>6 DEF Runs, Busy

\* Nothing is said of calls that have not begun, or of rows nobody changes.
LEMMA StagedStays ==
  ASSUME Inv, NEW c \in Calls, Only(c), staged' = staged, parse' = parse,
         call'[c].pc # "writeRow"
  PROVE  StagedSoFar'
<1>1. Copies' = Copies
  BY DEF Copies
<1>2. QED
  BY <1>1 DEF Inv, ImportInv, StagedSoFar, Only

\* A call is under way only after the upload.
LEMMA Begun == ASSUME Inv, NEW c \in Calls, Busy(c) PROVE status # "none"
BY NoCallFields DEF Inv, ImportInv, Pristine, Busy

LEMMA OthersIdle ==
  ASSUME Inv, disorder = 0, NEW c \in Calls, Busy(c)
  PROVE  /\ InOrder /\ Phase(c) /\ Builds(c)
         /\ \A d \in Calls \ {c} : call[d].pc = "idle"
         /\ \A P : "idle" \notin P => (Somewhere(P) <=> call[c].pc \in P)
<1>1. InOrder /\ \A d \in Calls \ {c} : call[d].pc = "idle"
  BY DEF Inv, ImportInv, InOrder, Busy
<1>2. Phase(c) /\ Builds(c)
  BY <1>1 DEF InOrder
<1>3. ASSUME NEW P, "idle" \notin P PROVE Somewhere(P) <=> call[c].pc \in P
  BY <1>1, <1>3 DEF Somewhere
<1>4. QED
  BY <1>1, <1>2, <1>3

\* A statement that touches no row of the file and no person.
LEMMA StepInOrder ==
  ASSUME Inv, disorder = 0, NEW c \in Calls, Busy(c), Only(c), Phase(c)', Builds(c)',
         UNCHANGED <<staged, person, outside>>,
         person = {} \/ status' = "published" \/ call'[c].pc \in Building,
         \A a, b \in CRs : request'[a].status # "none" /\ request'[b].status # "none" => a = b,
         \A cr \in CRs : request'[cr].status # "none" =>
           status' \notin Early \/ call'[c].pc \in {"submit", "mark"},
         \A cr \in CRs : Open(cr)' =>
           status' = "submitted" \/ call'[c].pc \in {"submit", "mark"} \cup Ending,
         status' \in {"preview", "submitted", "published"} =>
           status \in {"preview", "submitted", "published"},
         status' = "published" =>
           \/ Settled
           \/ status = "published" /\ (call[c].pc = "rolledBack" => call'[c].pc = "rolledBack")
  PROVE  InOrder'
<1>1. /\ InOrder /\ \A d \in Calls \ {c} : call[d].pc = "idle"
      /\ Somewhere({"rolledBack"}) <=> call[c].pc = "rolledBack"
  BY OthersIdle
<1>2. \A d \in Calls \ {c} : call'[d] = call[d] /\ call'[d].pc = "idle"
  BY <1>1 DEF Only
<1>3. \A d, e \in Calls : Busy(d)' /\ Busy(e)' => d = e
  BY <1>2 DEF Busy
<1>4. Copies' = Copies
  BY DEF Copies
<1>5. ASSUME NEW d \in Calls \ {c} PROVE Phase(d)' /\ Builds(d)'
  <2>1. Phase(d) /\ call'[d] = call[d] /\ call[d].pc = "idle"
    BY <1>1, <1>2 DEF InOrder
  <2>2. QED
    BY <2>1 DEF Phase, Builds, Preparing, Deciding, Building, Ending, Undoing, Owning
<1>6. Somewhere({"submit", "mark"})' <=> call'[c].pc \in {"submit", "mark"}
  BY <1>2 DEF Somewhere
<1>7. Somewhere({"submit", "mark"} \cup Ending)' <=> call'[c].pc \in {"submit", "mark"} \cup Ending
  BY <1>2 DEF Somewhere, Ending
<1>8. /\ Somewhere(Building)' <=> call'[c].pc \in Building
      /\ Somewhere({"rolledBack"})' <=> call'[c].pc = "rolledBack"
  BY <1>2 DEF Somewhere, Building
<1>9. Settled' <=> Settled
  BY <1>4 DEF Settled
<1>10. status' \in {"preview", "submitted", "published"} =>
         \A r \in Rows : \E x \in Copies' : x[2] = r
  BY <1>1, <1>4 DEF InOrder
<1>11. status' = "published" => Somewhere({"rolledBack"})' \/ Settled'
  BY <1>1, <1>8, <1>9 DEF InOrder
<1>12. /\ outside' \subseteq person'
       /\ \A p, q \in person' : p.copy[2] = q.copy[2] => p = q
       /\ person' = {} \/ status' = "published" \/ Somewhere(Building)'
  BY <1>1, <1>8 DEF InOrder
<1>13. \A d \in Calls : Phase(d)' /\ Builds(d)'
  BY <1>5
<1>14. QED
  BY <1>3, <1>6, <1>7, <1>10, <1>11, <1>12, <1>13 DEF InOrder

\* Such a statement, with what it does to the status and the requests.
LEMMA StepKeeps ==
  ASSUME Inv, NEW c \in Calls, Busy(c), Only(c), ImportTypeOK', status' # "none",
         UNCHANGED <<staged, parse, person, outside, started, disorder>>,
         \/ call'[c] = NoCall
         \/ /\ call'[c].run = call[c].run /\ call'[c].at = call[c].at
            /\ call'[c].created = call[c].created
            /\ call'[c].pc \notin {"idle", "vote", "writeRow"} /\ call[c].pc # "enqueue",
         disorder = 0 => InOrder'
  PROVE  Inv'
<1>1. Runs' /\ FathersAreLinked'
  BY RunsStay DEF Busy
<1>2. StagedSoFar'
  BY StagedStays, NoCallFields
<1>3. Pristine'
  BY DEF Pristine
<1>4. QED
  BY <1>1, <1>2, <1>3 DEF Inv, ImportInv

LEMMA SetRequestFields ==
  ASSUME ImportTypeOK, NEW cr, NEW s \in RequestStatus, SetRequest(cr, s)
  PROVE  /\ request' \in [CRs -> Requests]
         /\ \A q \in CRs \ {cr} : request'[q].status = request[q].status
         /\ cr \in CRs => request'[cr].status = s
<1>1. CASE cr \notin CRs
  BY <1>1 DEF SetRequest, ImportTypeOK
<1>2. CASE cr \in CRs
  <2>1. PICK q \in Requests : q = [request[cr] EXCEPT !.status = s]
    BY <1>2 DEF ImportTypeOK, Requests
  <2>2. q.status = s /\ request' = [request EXCEPT ![cr] = q]
    BY <1>2, <2>1 DEF SetRequest, ImportTypeOK, Requests
  <2>3. QED
    BY <1>2, <2>2 DEF ImportTypeOK
<1>3. QED
  BY <1>1, <1>2

\* A statement of a review, or of a request sent in again.
LEMMA DecidingKeeps ==
  ASSUME Inv, NEW c \in Calls, call[c].pc \in Deciding,
         UNCHANGED <<status, queued, parse, staged, person, outside, started, disorder>>,
         request' \in [CRs -> Requests],
         \A cr \in CRs \ {call[c].cr} : request'[cr].status = request[cr].status,
         call[c].cr \in CRs /\ request[call[c].cr].status # "none" =>
           request'[call[c].cr].status # "none",
         NEW pc \in Deciding \ {"vote"},
         \/ Finish(c)
         \/ /\ Goto(c, pc)
            /\ pc \in {"sync", "syncWrite"} /\ disorder = 0 /\ call[c].cr \in CRs =>
                 request'[call[c].cr].status = "rejected"
  PROVE  Inv'
<1>1. Busy(c) /\ pc \in Places /\ call[c].pc # "enqueue"
  BY DEF Busy, Places, Deciding
<1>2. /\ call' \in [Calls -> CallRecords] /\ Only(c)
      /\ \/ call'[c] = NoCall
         \/ /\ call'[c].pc = pc /\ call'[c].cr = call[c].cr /\ call'[c].at = call[c].at
            /\ call'[c].run = call[c].run /\ call'[c].created = call[c].created
            /\ pc \in {"sync", "syncWrite"} /\ disorder = 0 /\ call[c].cr \in CRs =>
                 request'[call[c].cr].status = "rejected"
  BY <1>1, GotoFields, FinishFields DEF Inv, Only
<1>3. ImportTypeOK'
  BY <1>2 DEF Inv, ImportTypeOK
<1>4. status' # "none"
  BY <1>1, Begun
<1>5. ASSUME disorder = 0 PROVE InOrder'
  <2>1. /\ InOrder /\ Phase(c)
        /\ \A P : "idle" \notin P => (Somewhere(P) <=> call[c].pc \in P)
    BY <1>1, <1>5, OthersIdle
  <2>2. /\ status = "submitted" /\ call[c].cr \in CRs /\ request[call[c].cr].status # "none"
        /\ call[c].created = {} /\ call[c].at = 0 /\ person = {}
    BY <2>1 DEF Phase, InOrder, Deciding, Building, Owning, Ending
  <2>3. Phase(c)' /\ Builds(c)'
    BY <1>2, <1>5, <2>2, NoCallFields
       DEF Phase, Builds, Preparing, Deciding, Building, Ending, Undoing, Owning
  <2>4. \A cr \in CRs : request'[cr].status # "none" => request[cr].status # "none"
    BY <2>2
  <2>5. \A a, b \in CRs : request'[a].status # "none" /\ request'[b].status # "none" => a = b
    BY <2>1, <2>4 DEF InOrder
  <2>6. status' \notin Early /\ status' = "submitted"
    BY <2>2 DEF Early, L!Reading
  <2>7. QED
    BY <1>1, <1>2, <1>5, <2>2, <2>3, <2>5, <2>6, StepInOrder
<1>6. call'[c] # NoCall => call'[c].pc \notin {"idle", "vote", "writeRow"}
  BY <1>2 DEF Deciding
<1>7. QED
  BY <1>1, <1>2, <1>3, <1>4, <1>5, <1>6, StepKeeps

LEMMA StoreVoteKeeps == ASSUME Inv, NEW c \in Calls, StoreVote(c) PROVE Inv'
<1>1. /\ call[c].pc = "vote" /\ call[c].pc \in Deciding /\ Goto(c, call[c].next)
      /\ call[c].cr \in CRs \cup {None} /\ call[c].by \in Reviewers \cup {None}
  BY DEF StoreVote, At, Deciding, Inv, ImportTypeOK, CallRecords
<1>2. call[c].next \in {"count", "reject", "changes"}
  BY <1>1 DEF Inv, ImportInv, Runs, Knows
<1>3. UNCHANGED <<status, queued, parse, staged, person, outside, started, disorder>>
  BY DEF StoreVote, Steps
<1>4. /\ request' \in [CRs -> Requests]
      /\ \A cr \in CRs : request'[cr].status = request[cr].status
  <2>1. PICK cr, v : cr = call[c].cr /\ v = call[c].by
    OBVIOUS
  <2>2. \/ request' = [request EXCEPT ![cr].votes = @ \cup {v}]
        \/ request' = [request EXCEPT ![cr].votes = @ \ {v}]
    BY <2>1 DEF StoreVote
  <2>3. CASE cr \notin CRs
    BY <2>2, <2>3 DEF Inv, ImportTypeOK
  <2>4. CASE cr \in CRs
    <3>0. request[cr].votes \subseteq Reviewers \cup {None} /\ v \in Reviewers \cup {None}
      BY <1>1, <2>1, <2>4 DEF Inv, ImportTypeOK, Requests
    <3>1. PICK votes \in SUBSET (Reviewers \cup {None}) :
            request' = [request EXCEPT ![cr].votes = votes]
      <4>1. CASE request' = [request EXCEPT ![cr].votes = @ \cup {v}]
        <5>1. request' = [request EXCEPT ![cr].votes = request[cr].votes \cup {v}]
          BY <2>4, <4>1 DEF Inv, ImportTypeOK
        <5>2. QED
          BY <3>0, <5>1
      <4>2. CASE request' = [request EXCEPT ![cr].votes = @ \ {v}]
        <5>1. request' = [request EXCEPT ![cr].votes = request[cr].votes \ {v}]
          BY <2>4, <4>2 DEF Inv, ImportTypeOK
        <5>2. QED
          BY <3>0, <5>1
      <4>3. QED
        BY <2>2, <4>1, <4>2
    <3>2. PICK q \in Requests : q = [request[cr] EXCEPT !.votes = votes]
      BY <2>4 DEF Inv, ImportTypeOK, Requests
    <3>3. q.status = request[cr].status /\ request' = [request EXCEPT ![cr] = q]
      BY <2>4, <3>1, <3>2 DEF Inv, ImportTypeOK, Requests
    <3>4. QED
      BY <2>4, <3>3 DEF Inv, ImportTypeOK
  <2>5. QED
    BY <2>3, <2>4
<1>5. call[c].next \in Deciding \ {"vote"} /\ call[c].next \notin {"sync", "syncWrite"}
  BY <1>2 DEF Deciding
<1>6. QED
  BY <1>1, <1>3, <1>4, <1>5, DecidingKeeps

LEMMA CountVotesKeeps == ASSUME Inv, NEW c \in Calls, CountVotes(c) PROVE Inv'
<1>1. PICK pc \in {"load", "wait"} : Goto(c, pc)
  BY DEF CountVotes
<1>2. pc \in Deciding \ {"vote"} /\ pc \notin {"sync", "syncWrite"} /\ call[c].pc \in Deciding
  BY DEF CountVotes, At, Deciding
<1>3. UNCHANGED <<status, queued, parse, staged, request, person, outside, started, disorder>>
  BY DEF CountVotes, Steps, batchVars
<1>4. QED
  BY <1>1, <1>2, <1>3, DecidingKeeps DEF Inv, ImportTypeOK

\* A status is written to the request, whatever it is by now.
LEMMA WriteRequestKeeps ==
  ASSUME Inv, NEW c \in Calls, NEW pc \in Deciding, NEW s \in RequestStatus \ {"none"},
         NEW next \in {"idle", "sync"}, WriteRequest(c, pc, s, next),
         next = "sync" => s = "rejected"
  PROVE  Inv'
<1>1. /\ call[c].pc = pc /\ SetRequest(call[c].cr, s)
      /\ Finish(c) \/ (Goto(c, "sync") /\ s = "rejected")
      /\ UNCHANGED <<status, queued, parse, staged, person, outside, started, disorder>>
  BY DEF WriteRequest, At, Steps
<1>2. /\ request' \in [CRs -> Requests]
      /\ \A q \in CRs \ {call[c].cr} : request'[q].status = request[q].status
      /\ call[c].cr \in CRs => request'[call[c].cr].status = s
  BY <1>1, SetRequestFields DEF Inv
<1>3. "sync" \in Deciding \ {"vote"}
  BY DEF Deciding
<1>4. QED
  BY <1>1, <1>2, <1>3, DecidingKeeps

LEMMA DecisionsKeep ==
  ASSUME Inv, NEW c \in Calls, Wait(c) \/ Reject(c) \/ RequestChanges(c) \/ Resubmit(c)
  PROVE  Inv'
<1>1. /\ {"wait", "reject", "changes", "resubmit"} \subseteq Deciding
      /\ {"under_review", "rejected", "changes_requested", "submitted"}
           \subseteq RequestStatus \ {"none"}
  BY DEF Deciding, RequestStatus
<1>2. QED
  BY <1>1, WriteRequestKeeps DEF Wait, Reject, RequestChanges, Resubmit

LEMMA SyncRejectedKeeps == ASSUME Inv, NEW c \in Calls, SyncRejected(c) PROVE Inv'
<1>1. /\ call[c].pc = "sync" /\ (Finish(c) \/ Goto(c, "syncWrite"))
      /\ UNCHANGED <<status, queued, parse, staged, request, person, outside, started, disorder>>
  BY DEF SyncRejected, At, Steps, batchVars
<1>2. "syncWrite" \in Deciding \ {"vote"} /\ call[c].pc \in Deciding /\ Busy(c)
  BY <1>1 DEF Deciding, Busy
<1>3. disorder = 0 /\ call[c].cr \in CRs => request'[call[c].cr].status = "rejected"
  BY <1>1, <1>2, OthersIdle DEF Phase
<1>4. QED
  BY <1>1, <1>2, <1>3, DecidingKeeps DEF Inv, ImportTypeOK

LEMMA Moves ==
  ASSUME Inv, NEW c \in Calls, NEW pc \in Places, Goto(c, pc)
  PROVE  /\ call' \in [Calls -> CallRecords] /\ Only(c) /\ call'[c].pc = pc
         /\ call'[c].cr = call[c].cr /\ call'[c].at = call[c].at /\ call'[c].run = call[c].run
         /\ call'[c].created = call[c].created /\ call'[c].ids = call[c].ids
         /\ call'[c].rows = call[c].rows
BY GotoFields DEF Inv, Only

LEMMA Ends ==
  ASSUME Inv, NEW c \in Calls, Finish(c)
  PROVE  /\ call' \in [Calls -> CallRecords] /\ Only(c) /\ call'[c] = NoCall
         /\ call'[c].pc = "idle" /\ Phase(c)' /\ Builds(c)'
<1>1. call' \in [Calls -> CallRecords] /\ Only(c) /\ call'[c] = NoCall
  BY FinishFields DEF Inv, Only
<1>2. QED
  BY <1>1, NoCallFields
     DEF Phase, Builds, Preparing, Deciding, Building, Ending, Undoing, Owning

LEMMA EnqueueKeeps == ASSUME Inv, NEW c \in Calls, Enqueue(c) PROVE Inv'
<1>1. /\ call[c].pc = "enqueue" /\ Finish(c) /\ queued' = 0 /\ Busy(c)
      /\ UNCHANGED <<status, parse, staged, request, person, outside, started, disorder>>
  BY DEF Enqueue, At, Steps, Busy
<1>2. /\ call' \in [Calls -> CallRecords] /\ Only(c) /\ call'[c] = NoCall
      /\ call'[c].pc = "idle" /\ Phase(c)' /\ Builds(c)'
  BY <1>1, Ends
<1>3. ImportTypeOK'
  BY <1>1, <1>2 DEF Inv, ImportTypeOK
<1>4. status' # "none"
  BY <1>1, Begun
<1>5. ASSUME disorder = 0 PROVE InOrder'
  <2>1. /\ InOrder /\ \A P : "idle" \notin P => (Somewhere(P) <=> call[c].pc \in P)
    BY <1>1, <1>5, OthersIdle
  <2>2. \A cr \in CRs : Open(cr)' <=> Open(cr)
    BY <1>1 DEF Open
  <2>3. /\ ~Somewhere(Building) /\ ~Somewhere({"submit", "mark"})
        /\ ~Somewhere({"submit", "mark"} \cup Ending) /\ ~Somewhere({"rolledBack"})
    BY <1>1, <2>1 DEF Building, Ending
  <2>4. QED
    BY <1>1, <1>2, <1>5, <2>1, <2>2, <2>3, StepInOrder DEF InOrder
<1>6. QED
  BY <1>1, <1>2, <1>3, <1>4, <1>5, StepKeeps

\* The request of a submission is the first that is not "none".
LEMMA CreateRequestKeeps ==
  ASSUME Inv, NEW c \in Calls, NEW cr \in CRs, CreateRequest(c, cr) PROVE Inv'
<1>1. /\ call[c].pc = "create" /\ Busy(c) /\ SetRequest(cr, "draft")
      /\ call' = [call EXCEPT ![c].pc = "submit", ![c].cr = cr]
      /\ UNCHANGED <<status, queued, parse, staged, person, outside, started, disorder>>
  BY DEF CreateRequest, At, Steps, Busy
<1>2. /\ request' \in [CRs -> Requests] /\ request'[cr].status = "draft"
      /\ \A q \in CRs \ {cr} : request'[q].status = request[q].status
  BY <1>1, SetRequestFields DEF Inv, RequestStatus
<1>3. /\ call' \in [Calls -> CallRecords] /\ Only(c) /\ call'[c].pc = "submit"
      /\ call'[c].cr = cr /\ call'[c].at = call[c].at /\ call'[c].run = call[c].run
      /\ call'[c].created = call[c].created
  <2>0. PICK q \in CallRecords : q = [call[c] EXCEPT !.pc = "submit"]
    <3>1. "submit" \in Places
      BY DEF Places, Preparing
    <3>2. QED
      BY <3>1 DEF Inv, ImportTypeOK, CallRecords
  <2>1. PICK r \in CallRecords : r = [q EXCEPT !.cr = cr]
    BY DEF CallRecords
  <2>2. /\ r.pc = "submit" /\ r.cr = cr /\ r.at = call[c].at /\ r.run = call[c].run
        /\ r.created = call[c].created
    BY <2>0, <2>1 DEF Inv, ImportTypeOK, CallRecords
  <2>3. call' = [call EXCEPT ![c] = r]
    BY <1>1, <2>0, <2>1 DEF Inv, ImportTypeOK
  <2>4. QED
    BY <2>2, <2>3 DEF Inv, ImportTypeOK, Only
<1>4. ImportTypeOK'
  BY <1>1, <1>2, <1>3 DEF Inv, ImportTypeOK
<1>5. status' # "none"
  BY <1>1, Begun
<1>6. ASSUME disorder = 0 PROVE InOrder'
  <2>1. /\ InOrder /\ Phase(c) /\ \A P : "idle" \notin P => (Somewhere(P) <=> call[c].pc \in P)
    BY <1>1, <1>6, OthersIdle
  <2>2. /\ status = "preview" /\ call[c].created = {} /\ call[c].at = 0
    BY <1>1, <2>1 DEF Phase, Preparing, Building, Ending
  <2>3. ~Somewhere(Building) /\ ~Somewhere({"submit", "mark"})
    BY <1>1, <2>1 DEF Building
  <2>4. person = {} /\ \A q \in CRs : request[q].status = "none"
    BY <2>1, <2>2, <2>3 DEF InOrder, Early
  <2>5. Phase(c)' /\ Builds(c)'
    BY <1>1, <1>2, <1>3, <2>2
       DEF Phase, Builds, Preparing, Deciding, Building, Ending, Undoing, Owning
  <2>6. \A a, b \in CRs : request'[a].status # "none" /\ request'[b].status # "none" => a = b
    BY <1>2, <2>4
  <2>7. QED
    BY <1>1, <1>3, <1>6, <2>2, <2>4, <2>5, <2>6, StepInOrder
<1>7. QED
  BY <1>1, <1>3, <1>4, <1>5, <1>6, StepKeeps

LEMMA SubmitRequestKeeps == ASSUME Inv, NEW c \in Calls, SubmitRequest(c) PROVE Inv'
<1>1. /\ call[c].pc = "submit" /\ Busy(c) /\ SetRequest(call[c].cr, "submitted")
      /\ Goto(c, "mark")
      /\ UNCHANGED <<status, queued, parse, staged, person, outside, started, disorder>>
  BY DEF SubmitRequest, At, Steps, Busy
<1>2. /\ request' \in [CRs -> Requests]
      /\ call[c].cr \in CRs => request'[call[c].cr].status = "submitted"
      /\ \A q \in CRs \ {call[c].cr} : request'[q].status = request[q].status
  BY <1>1, SetRequestFields DEF Inv, RequestStatus
<1>3. /\ call' \in [Calls -> CallRecords] /\ Only(c) /\ call'[c].pc = "mark"
      /\ call'[c].cr = call[c].cr /\ call'[c].at = call[c].at /\ call'[c].run = call[c].run
      /\ call'[c].created = call[c].created
  BY <1>1, Moves DEF Places, Preparing
<1>4. ImportTypeOK'
  BY <1>1, <1>2, <1>3 DEF Inv, ImportTypeOK
<1>5. status' # "none"
  BY <1>1, Begun
<1>6. ASSUME disorder = 0 PROVE InOrder'
  <2>1. /\ InOrder /\ Phase(c) /\ \A P : "idle" \notin P => (Somewhere(P) <=> call[c].pc \in P)
    BY <1>1, <1>6, OthersIdle
  <2>2. /\ status = "preview" /\ call[c].created = {} /\ call[c].at = 0
        /\ call[c].cr \in CRs /\ request[call[c].cr].status # "none"
    BY <1>1, <2>1 DEF Phase, Preparing, Building, Ending, Owning
  <2>3. ~Somewhere(Building)
    BY <1>1, <2>1 DEF Building
  <2>4. person = {}
    BY <2>1, <2>2, <2>3 DEF InOrder
  <2>5. Phase(c)' /\ Builds(c)'
    BY <1>1, <1>2, <1>3, <2>2
       DEF Phase, Builds, Preparing, Deciding, Building, Ending, Undoing, Owning
  <2>6. \A a, b \in CRs : request'[a].status # "none" /\ request'[b].status # "none" => a = b
    BY <1>2, <2>1, <2>2 DEF InOrder
  <2>7. QED
    BY <1>1, <1>3, <1>6, <2>2, <2>4, <2>5, <2>6, StepInOrder
<1>7. QED
  BY <1>1, <1>3, <1>4, <1>5, <1>6, StepKeeps

LEMMA MarkSubmittedKeeps == ASSUME Inv, NEW c \in Calls, MarkSubmitted(c) PROVE Inv'
<1>1. /\ call[c].pc = "mark" /\ Busy(c) /\ status' = "submitted" /\ Finish(c)
      /\ UNCHANGED <<queued, parse, staged, request, person, outside, started, disorder>>
  BY DEF MarkSubmitted, At, Steps, Busy
<1>2. /\ call' \in [Calls -> CallRecords] /\ Only(c) /\ call'[c] = NoCall
      /\ Phase(c)' /\ Builds(c)'
  BY <1>1, Ends
<1>3. ImportTypeOK'
  BY <1>1, <1>2 DEF Inv, ImportTypeOK
<1>4. ASSUME disorder = 0 PROVE InOrder'
  <2>1. /\ InOrder /\ Phase(c) /\ \A P : "idle" \notin P => (Somewhere(P) <=> call[c].pc \in P)
    BY <1>1, <1>4, OthersIdle
  <2>2. status = "preview" /\ ~Somewhere(Building)
    BY <1>1, <2>1 DEF Phase, Preparing, Building
  <2>3. person = {} /\ status' \notin Early
    BY <1>1, <2>1, <2>2 DEF InOrder, Early, L!Reading
  <2>4. \A a, b \in CRs : request'[a].status # "none" /\ request'[b].status # "none" => a = b
    BY <1>1, <2>1 DEF InOrder
  <2>5. QED
    BY <1>1, <1>2, <1>4, <2>2, <2>3, <2>4, StepInOrder
<1>5. QED
  BY <1>1, <1>2, <1>3, <1>4, StepKeeps

\* onBatchRejected: the request has been rejected, and nothing was created.
LEMMA WriteRejectedKeeps == ASSUME Inv, NEW c \in Calls, WriteRejected(c) PROVE Inv'
<1>1. /\ call[c].pc = "syncWrite" /\ Busy(c) /\ status' = "rejected" /\ Finish(c)
      /\ UNCHANGED <<queued, parse, staged, request, person, outside, started, disorder>>
  BY DEF WriteRejected, At, Steps, Busy
<1>2. /\ call' \in [Calls -> CallRecords] /\ Only(c) /\ call'[c] = NoCall
      /\ Phase(c)' /\ Builds(c)'
  BY <1>1, Ends
<1>3. ImportTypeOK'
  BY <1>1, <1>2 DEF Inv, ImportTypeOK
<1>4. ASSUME disorder = 0 PROVE InOrder'
  <2>1. /\ InOrder /\ Phase(c) /\ \A P : "idle" \notin P => (Somewhere(P) <=> call[c].pc \in P)
    BY <1>1, <1>4, OthersIdle
  <2>2. /\ status = "submitted" /\ ~Somewhere(Building) /\ call[c].cr \in CRs
        /\ request[call[c].cr].status = "rejected"
    BY <1>1, <2>1 DEF Phase, Deciding, Building, Owning
  <2>3. person = {} /\ status' \notin Early
    BY <1>1, <2>1, <2>2 DEF InOrder, Early, L!Reading
  <2>4. \A a, b \in CRs : request'[a].status # "none" /\ request'[b].status # "none" => a = b
    BY <1>1, <2>1 DEF InOrder
  <2>5. \A cr \in CRs : ~Open(cr)'
    BY <1>1, <2>2, <2>4 DEF Open
  <2>6. QED
    BY <1>1, <1>2, <1>4, <2>3, <2>4, <2>5, StepInOrder
<1>5. QED
  BY <1>1, <1>2, <1>3, <1>4, StepKeeps

\* The request of the batch is closed after the batch was published.
LEMMA CloseKeeps == ASSUME Inv, NEW c \in Calls, Close(c) PROVE Inv'
<1>1. /\ call[c].pc = "close" /\ Busy(c) /\ SetRequest(call[c].cr, "published") /\ Finish(c)
      /\ UNCHANGED <<status, queued, parse, staged, person, outside, started, disorder>>
  BY DEF Close, WriteRequest, At, Steps, Busy
<1>2. /\ request' \in [CRs -> Requests]
      /\ call[c].cr \in CRs => request'[call[c].cr].status = "published"
      /\ \A q \in CRs \ {call[c].cr} : request'[q].status = request[q].status
  BY <1>1, SetRequestFields DEF Inv, RequestStatus
<1>3. /\ call' \in [Calls -> CallRecords] /\ Only(c) /\ call'[c] = NoCall
      /\ Phase(c)' /\ Builds(c)'
  BY <1>1, Ends
<1>4. ImportTypeOK'
  BY <1>1, <1>2, <1>3 DEF Inv, ImportTypeOK
<1>5. status' # "none"
  BY <1>1, Begun
<1>6. ASSUME disorder = 0 PROVE InOrder'
  <2>1. /\ InOrder /\ Phase(c) /\ \A P : "idle" \notin P => (Somewhere(P) <=> call[c].pc \in P)
    BY <1>1, <1>6, OthersIdle
  <2>2. status = "published" /\ call[c].cr \in CRs /\ request[call[c].cr].status # "none"
    BY <1>1, <2>1 DEF Phase, Ending, Owning
  <2>3. \A a, b \in CRs : request'[a].status # "none" /\ request'[b].status # "none" => a = b
    BY <1>2, <2>1, <2>2 DEF InOrder
  <2>4. \A cr \in CRs : ~Open(cr)'
    BY <1>2, <2>2, <2>3 DEF Open
  <2>5. status' = "published" /\ status' \notin Early
    BY <1>1, <2>2 DEF Early, L!Reading
  <2>6. QED
    BY <1>1, <1>3, <1>6, <2>2, <2>3, <2>4, <2>5, StepInOrder
<1>7. QED
  BY <1>1, <1>3, <1>4, <1>5, <1>6, StepKeeps

\* Statements of a publication that write the status of the batch.
LEMMA WriteStatusKeeps ==
  ASSUME Inv, NEW c \in Calls, NEW pc \in Building \cup Ending, NEW s \in {"submitted", "published"},
         NEW next \in Building \cup Ending, WriteStatus(c, pc, s, next),
         s = "submitted" <=> next \in Building, next \in Building => pc \in Building,
         next = "publish" => \A x \in DOMAIN call[c].rows : x[2] <= call[c].at,
         next \in Ending /\ pc \in Building => pc = "publish"
  PROVE  Inv'
<1>1. /\ call[c].pc = pc /\ Busy(c) /\ status' = s /\ Goto(c, next) /\ next \in Places
      /\ UNCHANGED <<queued, parse, staged, request, person, outside, started, disorder>>
  BY DEF WriteStatus, At, Steps, Busy, Places, Building, Ending
<1>2. /\ call' \in [Calls -> CallRecords] /\ Only(c) /\ call'[c].pc = next
      /\ call'[c].cr = call[c].cr /\ call'[c].at = call[c].at /\ call'[c].run = call[c].run
      /\ call'[c].created = call[c].created /\ call'[c].rows = call[c].rows
  BY <1>1, Moves
<1>3. ImportTypeOK'
  BY <1>1, <1>2 DEF Inv, ImportTypeOK
<1>4. ASSUME disorder = 0 PROVE InOrder'
  <2>1. InOrder /\ Phase(c) /\ Builds(c)
    BY <1>1, <1>4, OthersIdle
  <2>2. /\ call[c].cr \in CRs /\ request[call[c].cr].status # "none"
        /\ pc \in Building => status = "submitted"
        /\ pc \in Ending => status = "published"
    BY <1>1, <2>1 DEF Phase, Owning
  <2>3. Phase(c)'
    BY <1>1, <1>2, <2>2
       DEF Phase, Preparing, Deciding, Building, Ending, Undoing, Owning
  <2>4. Builds(c)'
    <3>1. CASE next \notin Building
      BY <1>2, <3>1 DEF Builds
    <3>2. CASE next \in Building
      <4>1. Copies' = Copies
        BY <1>1 DEF Copies
      <4>2. QED
        BY <1>1, <1>2, <2>1, <3>2, <4>1 DEF Builds
    <3>3. QED
      BY <3>1, <3>2
  <2>5. ASSUME pc = "publish" PROVE Settled
    <3>1. pc \in Building
      BY <2>5 DEF Building
    <3>2. SUFFICES ASSUME NEW r \in Rows, \A x \in Copies : x[2] = r => ToCreate(staged[x])
                   PROVE  \E p \in person : p.copy[2] = r
      BY DEF Settled
    <3>3. PICK x \in DOMAIN call[c].rows : x[2] = r
      BY <1>1, <2>1, <3>1 DEF Builds
    <3>4. x \in Copies /\ ToCreate(call[c].rows[x]) /\ x[2] <= call[c].at
      BY <1>1, <2>1, <2>5, <3>1, <3>2, <3>3 DEF Builds
    <3>5. PICK p \in person : p.copy = x
      BY <1>1, <2>1, <3>1, <3>4 DEF Builds
    <3>6. QED
      BY <3>3, <3>5
  <2>6. status' = "published" =>
          \/ Settled
          \/ status = "published" /\ (call[c].pc = "rolledBack" => call'[c].pc = "rolledBack")
    BY <1>1, <2>2, <2>5 DEF Building, Ending
  <2>7. \A a, b \in CRs : request'[a].status # "none" /\ request'[b].status # "none" => a = b
    BY <1>1, <2>1 DEF InOrder
  <2>8. person = {} \/ status' = "published" \/ call'[c].pc \in Building
    BY <1>1, <1>2
  <2>9. /\ status' \notin Early
        /\ status' = "submitted" \/ call'[c].pc \in {"submit", "mark"} \cup Ending
        /\ status \in {"preview", "submitted", "published"}
    BY <1>1, <1>2, <2>2 DEF Early, L!Reading
  <2>10. QED
    BY <1>1, <1>2, <1>4, <2>3, <2>4, <2>6, <2>7, <2>8, <2>9, StepInOrder
<1>5. next \notin {"idle", "vote", "writeRow"} /\ pc # "enqueue" /\ status' # "none"
  BY <1>1 DEF Building, Ending
<1>6. QED
  BY <1>1, <1>2, <1>3, <1>4, <1>5, StepKeeps

LEMMA PublicationKeeps ==
  ASSUME Inv, NEW c \in Calls, ReportChunk(c) \/ PublishBatch(c) \/ Announce(c) PROVE Inv'
<1>1. CASE ReportChunk(c)
  <2>1. PICK next : next = IF \E x \in DOMAIN call[c].rows : x[2] > call[c].at
                           THEN "chunk" ELSE "publish"
    OBVIOUS
  <2>2. WriteStatus(c, "progress", "submitted", next)
    BY <1>1, <2>1 DEF ReportChunk
  <2>3. next = "publish" => \A x \in DOMAIN call[c].rows : x[2] <= call[c].at
    <3>1. DOMAIN call[c].rows \subseteq Copy /\ call[c].at \in Nat
      BY DEF Inv, ImportTypeOK, CallRecords, Loaded
    <3>2. QED
      BY <2>1, <3>1 DEF Copy, Rows
  <2>4. next \in Building /\ "progress" \in Building /\ next \notin Ending
    BY <2>1 DEF Building, Ending
  <2>5. QED
    BY <2>2, <2>3, <2>4, WriteStatusKeeps
<1>2. CASE PublishBatch(c)
  BY <1>2, WriteStatusKeeps DEF PublishBatch, Building, Ending
<1>3. CASE Announce(c)
  BY <1>3, WriteStatusKeeps DEF Announce, Building, Ending
<1>4. QED
  BY <1>1, <1>2, <1>3

LEMMA FindBlockersKeeps == ASSUME Inv, NEW c \in Calls, FindBlockers(c) PROVE Inv'
<1>1. /\ call[c].pc = "blockers" /\ Busy(c)
      /\ UNCHANGED <<status, queued, parse, staged, request, person, outside, started, disorder>>
      /\ Finish(c) \/ (outside \cap call[c].ids = {} /\ Goto(c, "delete"))
  BY DEF FindBlockers, At, Steps, Busy, batchVars
<1>2. "delete" \in Places
  BY DEF Places, Undoing
<1>3. /\ call' \in [Calls -> CallRecords] /\ Only(c)
      /\ \/ call'[c] = NoCall /\ Phase(c)' /\ Builds(c)'
         \/ /\ call'[c].pc = "delete" /\ call'[c].at = call[c].at /\ call'[c].run = call[c].run
            /\ call'[c].created = call[c].created /\ outside \cap call[c].ids = {}
  BY <1>1, <1>2, Moves, Ends
<1>4. ImportTypeOK'
  BY <1>1, <1>3 DEF Inv, ImportTypeOK
<1>5. status' # "none"
  BY <1>1, Begun
<1>6. ASSUME disorder = 0 PROVE InOrder'
  <2>1. /\ InOrder /\ Phase(c) /\ \A P : "idle" \notin P => (Somewhere(P) <=> call[c].pc \in P)
    BY <1>1, <1>6, OthersIdle
  <2>2. /\ status = "published" /\ call[c].ids = person /\ outside \subseteq person
        /\ call[c].created = {} /\ call[c].at = 0
    BY <1>1, <2>1 DEF Phase, Undoing, InOrder, Building, Ending
  <2>3. Phase(c)' /\ Builds(c)'
    BY <1>1, <1>3, <2>2
       DEF Phase, Builds, Preparing, Deciding, Building, Ending, Undoing, Owning
  <2>4. \A a, b \in CRs : request'[a].status # "none" /\ request'[b].status # "none" => a = b
    BY <1>1, <2>1 DEF InOrder
  <2>5. ~Somewhere({"submit", "mark"} \cup Ending)
    BY <1>1, <2>1 DEF Ending
  <2>6. \A cr \in CRs : ~Open(cr)'
    BY <1>1, <2>1, <2>2, <2>5 DEF InOrder, Open
  <2>7. status' \notin Early /\ status' = "published"
    BY <1>1, <2>2 DEF Early, L!Reading
  <2>8. QED
    BY <1>1, <1>3, <1>6, <2>2, <2>3, <2>4, <2>6, <2>7, StepInOrder
<1>7. QED
  BY <1>1, <1>3, <1>4, <1>5, <1>6, StepKeeps

LEMMA MarkRolledBackKeeps == ASSUME Inv, NEW c \in Calls, MarkRolledBack(c) PROVE Inv'
<1>1. /\ call[c].pc = "rolledBack" /\ Busy(c) /\ status' = "rolled_back" /\ Finish(c)
      /\ UNCHANGED <<queued, parse, staged, request, person, outside, started, disorder>>
  BY DEF MarkRolledBack, WriteStatus, At, Steps, Busy
<1>2. /\ call' \in [Calls -> CallRecords] /\ Only(c) /\ call'[c] = NoCall
      /\ Phase(c)' /\ Builds(c)'
  BY <1>1, Ends
<1>3. ImportTypeOK'
  BY <1>1, <1>2 DEF Inv, ImportTypeOK
<1>4. ASSUME disorder = 0 PROVE InOrder'
  <2>1. /\ InOrder /\ Phase(c) /\ \A P : "idle" \notin P => (Somewhere(P) <=> call[c].pc \in P)
    BY <1>1, <1>4, OthersIdle
  <2>2. status = "published" /\ person = {} /\ ~Somewhere({"submit", "mark"} \cup Ending)
    BY <1>1, <2>1 DEF Phase, Undoing, Ending
  <2>3. \A cr \in CRs : ~Open(cr)'
    BY <1>1, <2>1, <2>2 DEF InOrder, Open
  <2>4. \A a, b \in CRs : request'[a].status # "none" /\ request'[b].status # "none" => a = b
    BY <1>1, <2>1 DEF InOrder
  <2>5. status' \notin Early /\ status' \notin {"preview", "submitted", "published"}
    BY <1>1 DEF Early, L!Reading
  <2>6. QED
    BY <1>1, <1>2, <1>4, <2>2, <2>3, <2>4, <2>5, StepInOrder
<1>5. QED
  BY <1>1, <1>2, <1>3, <1>4, StepKeeps

\* The persons of the batch go, whoever created them; nobody names them.
LEMMA DeletePersonsKeeps == ASSUME Inv, NEW c \in Calls, DeletePersons(c) PROVE Inv'
<1>1. /\ call[c].pc = "delete" /\ Busy(c) /\ person' = {} /\ Goto(c, "rolledBack")
      /\ UNCHANGED <<status, queued, parse, staged, request, outside, started, disorder>>
  BY DEF DeletePersons, At, Steps, Busy
<1>2. "rolledBack" \in Places
  BY DEF Places, Undoing
<1>3. /\ call' \in [Calls -> CallRecords] /\ Only(c) /\ call'[c].pc = "rolledBack"
      /\ call'[c].at = call[c].at /\ call'[c].run = call[c].run
      /\ call'[c].created = call[c].created
  BY <1>1, <1>2, Moves
<1>4. ImportTypeOK'
  BY <1>1, <1>3 DEF Inv, ImportTypeOK
<1>5. status' # "none"
  BY <1>1, Begun
<1>6. Runs' /\ FathersAreLinked'
  BY <1>1, <1>3, RunsStay
<1>7. StagedSoFar'
  BY <1>1, <1>3, StagedStays
<1>8. ASSUME disorder = 0 PROVE InOrder'
  <2>1. /\ InOrder /\ Phase(c) /\ \A P : "idle" \notin P => (Somewhere(P) <=> call[c].pc \in P)
        /\ \A d \in Calls \ {c} : call[d].pc = "idle"
    BY <1>1, <1>8, OthersIdle
  <2>2. /\ status = "published" /\ outside = {} /\ ~Somewhere({"submit", "mark"} \cup Ending)
        /\ call[c].created = {} /\ call[c].at = 0
    BY <1>1, <2>1 DEF Phase, Undoing, Ending, Building
  <2>3. \A d \in Calls \ {c} : call'[d] = call[d] /\ call'[d].pc = "idle"
    BY <1>3, <2>1 DEF Only
  <2>4. \A d, e \in Calls : Busy(d)' /\ Busy(e)' => d = e
    BY <2>3 DEF Busy
  <2>5. ASSUME NEW d \in Calls PROVE Phase(d)' /\ Builds(d)'
    <3>1. CASE d = c
      BY <1>1, <1>3, <2>2, <3>1
         DEF Phase, Builds, Preparing, Deciding, Building, Ending, Undoing, Owning
    <3>2. CASE d # c
      <4>1. call'[d] = call[d] /\ call[d].pc = "idle" /\ Phase(d)
        BY <2>1, <2>3, <3>2 DEF InOrder
      <4>2. QED
        BY <4>1 DEF Phase, Builds, Preparing, Deciding, Building, Ending, Undoing, Owning
    <3>3. QED
      BY <3>1, <3>2
  <2>6. \A a, b \in CRs : request'[a].status # "none" /\ request'[b].status # "none" => a = b
    BY <1>1, <2>1 DEF InOrder
  <2>7. \A cr \in CRs : ~Open(cr)'
    BY <1>1, <2>1, <2>2 DEF InOrder, Open
  <2>8. status' \notin Early
    BY <1>1, <2>2 DEF Early, L!Reading
  <2>9. Somewhere({"rolledBack"})'
    BY <1>3 DEF Somewhere
  <2>10. \A r \in Rows : \E x \in Copies' : x[2] = r
    BY <1>1, <2>1, <2>2 DEF InOrder, Copies
  <2>11. QED
    BY <1>1, <2>2, <2>4, <2>5, <2>6, <2>7, <2>8, <2>9, <2>10 DEF InOrder
<1>9. Pristine'
  BY <1>5 DEF Pristine
<1>10. QED
  BY <1>1, <1>4, <1>6, <1>7, <1>8, <1>9 DEF Inv, ImportInv

-----------------------------------------------------------------------------
(* Rows: changed, loaded, applied *)

LEMMA UpdateRowKeeps == ASSUME Inv, NEW c \in Calls, UpdateRow(c) PROVE Inv'
<1>1. /\ call[c].pc = "writeRow" /\ Busy(c) /\ Finish(c)
      /\ staged' = [staged EXCEPT ![call[c].copy] = call[c].new]
      /\ UNCHANGED <<status, queued, parse, request, person, outside, started, disorder>>
  BY DEF UpdateRow, At, Steps, Busy
<1>2. /\ call' \in [Calls -> CallRecords] /\ Only(c) /\ call'[c] = NoCall
      /\ call'[c].pc = "idle" /\ Phase(c)' /\ Builds(c)'
  BY <1>1, Ends
<1>3. /\ call[c].copy \in Copies /\ call[c].new.status # "absent" /\ call[c].new \in Staged
      /\ staged \in [Copy -> Staged] /\ Copies \subseteq Copy
  BY <1>1 DEF Inv, ImportInv, StagedSoFar, ImportTypeOK, CallRecords, Copies, Copy
<1>4. staged' \in [Copy -> Staged]
  BY <1>1, <1>3
<1>5. Copies' = Copies
  BY <1>1, <1>3 DEF Copies, Copy
<1>6. ImportTypeOK'
  BY <1>1, <1>2, <1>4 DEF Inv, ImportTypeOK
<1>7. status' # "none"
  BY <1>1, Begun
<1>8. Runs' /\ FathersAreLinked'
  BY <1>1, <1>2, RunsStay
<1>9. StagedSoFar'
  BY <1>1, <1>2, <1>5 DEF Inv, ImportInv, StagedSoFar, Only
<1>10. ASSUME disorder = 0 PROVE InOrder'
  <2>1. /\ InOrder /\ Phase(c) /\ \A P : "idle" \notin P => (Somewhere(P) <=> call[c].pc \in P)
        /\ \A d \in Calls \ {c} : call[d].pc = "idle"
    BY <1>1, <1>10, OthersIdle
  <2>2. /\ status = "preview" /\ ~Somewhere({"submit", "mark"}) /\ ~Somewhere(Building)
        /\ ~Somewhere({"submit", "mark"} \cup Ending)
    BY <1>1, <2>1 DEF Phase, Preparing, Building, Ending
  <2>3. \A d \in Calls \ {c} : call'[d] = call[d] /\ call'[d].pc = "idle"
    BY <1>2, <2>1 DEF Only
  <2>4. \A d, e \in Calls : Busy(d)' /\ Busy(e)' => d = e
    BY <2>3 DEF Busy
  <2>5. ASSUME NEW d \in Calls PROVE Phase(d)' /\ Builds(d)'
    <3>1. CASE d = c
      BY <1>2, <3>1
    <3>2. CASE d # c
      <4>1. call'[d] = call[d] /\ call[d].pc = "idle" /\ Phase(d)
        BY <2>1, <2>3, <3>2 DEF InOrder
      <4>2. QED
        BY <4>1 DEF Phase, Builds, Preparing, Deciding, Building, Ending, Undoing, Owning
    <3>3. QED
      BY <3>1, <3>2
  <2>6. \A cr \in CRs : request'[cr].status = "none" /\ ~Open(cr)'
    BY <1>1, <2>1, <2>2 DEF InOrder, Early, Open
  <2>7. person' = {} /\ outside' \subseteq person'
    BY <1>1, <2>1, <2>2 DEF InOrder
  <2>8. \A r \in Rows : \E x \in Copies' : x[2] = r
    BY <1>5, <2>1, <2>2 DEF InOrder
  <2>9. status' = "preview"
    BY <1>1, <2>2
  <2>10. QED
    BY <2>4, <2>5, <2>6, <2>7, <2>8, <2>9 DEF InOrder
<1>11. Pristine'
  BY <1>7 DEF Pristine
<1>12. QED
  BY <1>1, <1>6, <1>8, <1>9, <1>10, <1>11 DEF Inv, ImportInv

\* The rows loaded are one copy of each row that has been staged.
LEMMA LoadFields ==
  ASSUME Inv, NEW c \in Calls, NEW pick, LoadRows(c, pick)
  PROVE  \E rows \in Loaded :
           /\ call' \in [Calls -> CallRecords] /\ Only(c) /\ call'[c].rows = rows
           /\ call'[c].pc \in {"publish", "chunk"}
           /\ call'[c].pc = "publish" => DOMAIN rows = {}
           /\ call'[c].cr = call[c].cr /\ call'[c].at = call[c].at /\ call'[c].run = call[c].run
           /\ call'[c].created = call[c].created
           /\ \A x \in DOMAIN rows : x \in Copies /\ rows[x] = staged[x]
           /\ \A x, y \in DOMAIN rows : x[2] = y[2] => x = y
           /\ \A x \in Copies : \E y \in DOMAIN rows : y[2] = x[2]
<1>1. PICK D : D = {<<pick[r], r>> : r \in DOMAIN pick}
  OBVIOUS
<1>2. PICK rows : rows = [x \in D |-> staged[x]]
  OBVIOUS
<1>3. PICK pc : pc = IF pick = <<>> THEN "publish" ELSE "chunk"
  OBVIOUS
<1>4. /\ DOMAIN pick = {x[2] : x \in Copies}
      /\ \A r \in DOMAIN pick : <<pick[r], r>> \in Copies
      /\ call' = [call EXCEPT ![c].pc = pc, ![c].rows = rows]
  BY <1>1, <1>2, <1>3 DEF LoadRows
<1>5. D \subseteq Copies /\ Copies \subseteq Copy
  BY <1>1, <1>4 DEF Copies, Copy
<1>6. rows \in [D -> Staged]
  BY <1>2, <1>5 DEF Inv, ImportTypeOK
<1>7. rows \in Loaded /\ DOMAIN rows = D
  BY <1>5, <1>6 DEF Loaded
<1>8. pc \in Places /\ pc \in {"publish", "chunk"}
  BY <1>3 DEF Places, Building
<1>9. PICK q \in CallRecords : q = [call[c] EXCEPT !.pc = pc]
  BY <1>8 DEF Inv, ImportTypeOK, CallRecords
<1>10. PICK s \in CallRecords : s = [q EXCEPT !.rows = rows]
  BY <1>7 DEF CallRecords
<1>11. /\ s.pc = pc /\ s.rows = rows /\ s.cr = call[c].cr /\ s.at = call[c].at
       /\ s.run = call[c].run /\ s.created = call[c].created
  BY <1>9, <1>10 DEF Inv, ImportTypeOK, CallRecords
<1>12. call' = [call EXCEPT ![c] = s]
  BY <1>4, <1>9, <1>10 DEF Inv, ImportTypeOK
<1>13. call' \in [Calls -> CallRecords] /\ Only(c) /\ call'[c] = s
  BY <1>12 DEF Inv, ImportTypeOK, Only
<1>14. pc = "publish" => DOMAIN rows = {}
  <2>1. ASSUME pc = "publish" PROVE DOMAIN pick = {}
    BY <1>3, <2>1, NoRowsLoaded
  <2>2. QED
    BY <1>1, <1>7, <2>1
<1>15. \A x, y \in DOMAIN rows : x[2] = y[2] => x = y
  BY <1>1, <1>7
<1>16. \A x \in Copies : \E y \in DOMAIN rows : y[2] = x[2]
  <2>1. SUFFICES ASSUME NEW x \in Copies PROVE \E y \in D : y[2] = x[2]
    BY <1>7
  <2>2. x[2] \in DOMAIN pick
    BY <1>4
  <2>3. <<pick[x[2]], x[2]>> \in D
    BY <1>1, <2>2
  <2>4. QED
    BY <2>3
<1>17. \A x \in DOMAIN rows : x \in Copies /\ rows[x] = staged[x]
  BY <1>2, <1>5, <1>7
<1>18. QED
  BY <1>7, <1>8, <1>11, <1>13, <1>14, <1>15, <1>16, <1>17

LEMMA CopyRows ==
  ASSUME NEW x \in Copy
  PROVE  x[2] \in Rows /\ x[2] \in Int /\ x[2] > 0
BY ImportConstantsOK DEF Copy, Rows

LEMMA LoadRowsKeeps == ASSUME Inv, NEW c \in Calls, NEW pick, LoadRows(c, pick) PROVE Inv'
<1>1. /\ call[c].pc = "load" /\ Busy(c)
      /\ UNCHANGED <<status, queued, parse, staged, request, person, outside, started, disorder>>
  BY DEF LoadRows, At, Steps, Busy, batchVars
<1>2. PICK rows \in Loaded :
        /\ call' \in [Calls -> CallRecords] /\ Only(c) /\ call'[c].rows = rows
        /\ call'[c].pc \in {"publish", "chunk"}
        /\ call'[c].pc = "publish" => DOMAIN rows = {}
        /\ call'[c].cr = call[c].cr /\ call'[c].at = call[c].at /\ call'[c].run = call[c].run
        /\ call'[c].created = call[c].created
        /\ \A x \in DOMAIN rows : x \in Copies /\ rows[x] = staged[x]
        /\ \A x, y \in DOMAIN rows : x[2] = y[2] => x = y
        /\ \A x \in Copies : \E y \in DOMAIN rows : y[2] = x[2]
  BY LoadFields
<1>3. ImportTypeOK'
  BY <1>1, <1>2 DEF Inv, ImportTypeOK
<1>4. status' # "none"
  BY <1>1, Begun
<1>5. ASSUME disorder = 0 PROVE InOrder'
  <2>1. /\ InOrder /\ Phase(c) /\ \A P : "idle" \notin P => (Somewhere(P) <=> call[c].pc \in P)
    BY <1>1, <1>5, OthersIdle
  <2>2. /\ status = "submitted" /\ call[c].cr \in CRs /\ request[call[c].cr].status # "none"
        /\ call[c].created = {} /\ call[c].at = 0 /\ person = {}
    BY <1>1, <2>1 DEF Phase, InOrder, Deciding, Building, Owning, Ending
  <2>3. Phase(c)'
    BY <1>1, <1>2, <2>2
       DEF Phase, Preparing, Deciding, Building, Ending, Undoing, Owning
  <2>4. Copies' = Copies /\ Copies \subseteq Copy /\ DOMAIN rows \subseteq Copies
    BY <1>1, <1>2 DEF Copies, Copy
  <2>5. \A r \in Rows : \E x \in DOMAIN rows : x[2] = r
    BY <1>2, <2>1, <2>2 DEF InOrder
  <2>6. \A x \in DOMAIN rows : ~(x[2] <= 0)
    BY <2>4, CopyRows
  <2>7. Builds(c)'
    BY <1>1, <1>2, <2>2, <2>4, <2>5, <2>6 DEF Builds
  <2>8. \A a, b \in CRs : request'[a].status # "none" /\ request'[b].status # "none" => a = b
    BY <1>1, <2>1 DEF InOrder
  <2>9. status' \notin Early /\ status' = "submitted"
    BY <1>1, <2>2 DEF Early, L!Reading
  <2>10. QED
    BY <1>1, <1>2, <1>5, <2>2, <2>3, <2>7, <2>8, <2>9, StepInOrder
<1>6. QED
  BY <1>1, <1>2, <1>3, <1>4, <1>5, StepKeeps

\* The persons a chunk creates: one for each of its rows that is to be created,
\* linked to the person of his father's row if there is one.
LEMMA NewPersonFacts ==
  ASSUME Inv, NEW c \in Calls
  PROVE  LET rows == call[c].rows
             known == call[c].created \cup {p.copy[2] : p \in NewPersons(c)}
         IN  /\ NewPersons(c) \subseteq PersonRows
             /\ \A p \in NewPersons(c) :
                  /\ p.run = call[c].run /\ p.copy \in DOMAIN rows /\ InChunk(c, p.copy[2])
                  /\ Father[p.copy[2]] \in known => p.father = Father[p.copy[2]]
                  /\ p.father \in known \cup {0}
             /\ \A p, q \in NewPersons(c) : p.copy = q.copy => p = q
             /\ \A x \in DOMAIN rows : InChunk(c, x[2]) /\ ToCreate(rows[x]) =>
                  \E p \in NewPersons(c) : p.copy = x
<1>1. PICK rows : rows = call[c].rows
  OBVIOUS
<1>2. PICK new : new = {x \in DOMAIN rows : InChunk(c, x[2]) /\ rows[x].decision = "new"
                                              /\ rows[x].status \in {"valid", "duplicate"}}
  OBVIOUS
<1>3. PICK known : known = call[c].created \cup {x[2] : x \in new}
  OBVIOUS
<1>4. PICK F : F = [x \in new |-> IF Father[x[2]] \in known THEN Father[x[2]] ELSE 0]
  OBVIOUS
<1>5. NewPersons(c) = {[run |-> call[c].run, copy |-> x, father |-> F[x]] : x \in new}
  <2>1. NewPersons(c) = {[run |-> call[c].run, copy |-> x,
                          father |-> IF Father[x[2]] \in known THEN Father[x[2]] ELSE 0] : x \in new}
    BY <1>1, <1>2, <1>3 DEF NewPersons
  <2>2. QED
    BY <1>4, <2>1
<1>6. /\ DOMAIN rows \subseteq Copy /\ new \subseteq Copy /\ call[c].run \in Nat
      /\ call[c].created \subseteq Rows
  BY <1>1, <1>2 DEF Inv, ImportTypeOK, CallRecords, Loaded
<1>7. \A x \in new : F[x] \in 0..NumRows
  <2>1. \A x \in new : Father[x[2]] \in 0..NumRows
    BY <1>6, CopyRows, ImportConstantsOK
  <2>2. 0 \in 0..NumRows
    BY ImportConstantsOK
  <2>3. QED
    BY <1>4, <2>1, <2>2
<1>8. NewPersons(c) \subseteq PersonRows
  BY <1>5, <1>6, <1>7 DEF PersonRows
<1>9. {p.copy[2] : p \in NewPersons(c)} = {x[2] : x \in new}
  <2>1. ASSUME NEW p \in NewPersons(c) PROVE p.copy \in new
    BY <1>5
  <2>2. ASSUME NEW x \in new PROVE \E p \in NewPersons(c) : p.copy = x
    <3>1. [run |-> call[c].run, copy |-> x, father |-> F[x]] \in NewPersons(c)
      BY <1>5
    <3>2. QED
      BY <3>1
  <2>3. QED
    BY <2>1, <2>2
<1>10. ASSUME NEW p \in NewPersons(c)
       PROVE  /\ p.run = call[c].run /\ p.copy \in DOMAIN rows /\ InChunk(c, p.copy[2])
              /\ Father[p.copy[2]] \in known => p.father = Father[p.copy[2]]
              /\ p.father \in known \cup {0}
  <2>1. PICK x \in new : p = [run |-> call[c].run, copy |-> x, father |-> F[x]]
    BY <1>5
  <2>2. p.run = call[c].run /\ p.copy = x /\ p.father = F[x]
    BY <2>1
  <2>3. QED
    BY <1>2, <1>4, <2>2
<1>11. \A p, q \in NewPersons(c) : p.copy = q.copy => p = q
  BY <1>5
<1>12. \A x \in DOMAIN rows : InChunk(c, x[2]) /\ ToCreate(rows[x]) =>
         \E p \in NewPersons(c) : p.copy = x
  <2>1. SUFFICES ASSUME NEW x \in DOMAIN rows, InChunk(c, x[2]), ToCreate(rows[x])
                 PROVE  \E p \in NewPersons(c) : p.copy = x
    OBVIOUS
  <2>2. x \in new
    BY <1>2, <2>1 DEF ToCreate
  <2>3. [run |-> call[c].run, copy |-> x, father |-> F[x]] \in NewPersons(c)
    BY <1>5, <2>2
  <2>4. QED
    BY <2>3
<1>13. QED
  BY <1>1, <1>3, <1>8, <1>9, <1>10, <1>11, <1>12

LEMMA ApplyFields ==
  ASSUME Inv, NEW c \in Calls, ApplyChunk(c)
  PROVE  /\ call' \in [Calls -> CallRecords] /\ Only(c) /\ call'[c].pc = "progress"
         /\ call'[c].created = call[c].created \cup {p.copy[2] : p \in NewPersons(c)}
         /\ call'[c].at = call[c].at + ChunkSize /\ call'[c].run = call[c].run
         /\ call'[c].cr = call[c].cr /\ call'[c].rows = call[c].rows
<1>1. PICK C : C = call[c].created \cup {p.copy[2] : p \in NewPersons(c)}
  OBVIOUS
<1>2. PICK n : n = call[c].at + ChunkSize
  OBVIOUS
<1>3. C \subseteq Rows /\ n \in Nat
  <2>1. \A p \in NewPersons(c) : p.copy \in Copy
    BY NewPersonFacts DEF PersonRows
  <2>2. call[c].created \subseteq Rows /\ call[c].at \in Nat
    BY DEF Inv, ImportTypeOK, CallRecords
  <2>3. QED
    BY <1>1, <1>2, <2>1, <2>2, CopyRows, ImportConstantsOK
<1>4. call' = [call EXCEPT ![c].pc = "progress", ![c].created = C, ![c].at = n]
  BY <1>1, <1>2, Zenon DEF ApplyChunk
<1>5. PICK q \in CallRecords : q = [call[c] EXCEPT !.pc = "progress"]
  <2>1. "progress" \in Places
    BY DEF Places, Building
  <2>2. QED
    BY <2>1 DEF Inv, ImportTypeOK, CallRecords
<1>6. PICK s \in CallRecords : s = [q EXCEPT !.created = C]
  BY <1>3 DEF CallRecords
<1>7. PICK t \in CallRecords : t = [s EXCEPT !.at = n]
  BY <1>3 DEF CallRecords
<1>8. /\ s.pc = "progress" /\ s.created = C /\ s.run = call[c].run /\ s.cr = call[c].cr
      /\ s.rows = call[c].rows
  BY <1>5, <1>6 DEF Inv, ImportTypeOK, CallRecords
<1>9. /\ t.pc = "progress" /\ t.created = C /\ t.run = call[c].run /\ t.cr = call[c].cr
      /\ t.rows = call[c].rows /\ t.at = n
  BY <1>7, <1>8 DEF CallRecords
<1>10. call' = [call EXCEPT ![c] = t]
  BY <1>4, <1>5, <1>6, <1>7 DEF Inv, ImportTypeOK
<1>11. QED
  BY <1>1, <1>2, <1>9, <1>10 DEF Inv, ImportTypeOK, Only

LEMMA ApplyEffect ==
  ASSUME NEW c \in Calls, ApplyChunk(c)
  PROVE  /\ call[c].pc = "chunk" /\ Busy(c) /\ call[c].pc \in Building
         /\ person' = person \cup NewPersons(c)
         /\ UNCHANGED <<status, queued, parse, staged, request, outside, started, disorder>>
<1>1. call[c].pc = "chunk" /\ person' = person \cup NewPersons(c)
  BY Zenon DEF ApplyChunk, At
<1>2. Steps /\ UNCHANGED <<status, queued, parse, staged, request, outside>>
  BY Zenon DEF ApplyChunk
<1>3. QED
  BY <1>1, <1>2 DEF Steps, Busy, Building

\* The persons a publication has created, after one more chunk.
LEMMA ApplyChunkRuns == ASSUME Inv, NEW c \in Calls, ApplyChunk(c) PROVE Runs' /\ FathersAreLinked'
<1> DEFINE known == call[c].created \cup {p.copy[2] : p \in NewPersons(c)}
<1>1. /\ call[c].pc = "chunk" /\ person' = person \cup NewPersons(c) /\ started' = started
  BY ApplyEffect
<1>2. /\ Only(c) /\ call'[c].pc = "progress" /\ call'[c].created = known
      /\ call'[c].at = call[c].at + ChunkSize /\ call'[c].run = call[c].run
  BY ApplyFields
<1>3. /\ NewPersons(c) \subseteq PersonRows
      /\ \A p \in NewPersons(c) :
           /\ p.run = call[c].run /\ InChunk(c, p.copy[2])
           /\ Father[p.copy[2]] \in known => p.father = Father[p.copy[2]]
  BY NewPersonFacts
<1>4. person \subseteq PersonRows /\ person' \subseteq PersonRows
  BY <1>1, <1>3 DEF Inv, ImportTypeOK
<1>5. \A p \in person' : p.copy \in Copy /\ p.copy[2] \in Rows /\ p.copy[2] \in Int
  <2>1. \A p \in person' : p.copy \in Copy
    BY <1>4 DEF PersonRows
  <2>2. QED
    BY <2>1, CopyRows
<1>6. /\ call[c].at \in Int /\ ChunkSize \in Nat /\ started \in Nat /\ call[c].run \in Nat
      /\ \A r \in Rows : Father[r] \in Int /\ Father[r] < r
  <2>1. /\ ChunkSize \in Nat /\ Father \in [Rows -> 0..NumRows] /\ NumRows \in Nat
        /\ \A r \in Rows : Father[r] < r
    BY ImportConstantsOK
  <2>2. call[c].at \in Int /\ call[c].run \in Nat /\ started \in Nat
    BY DEF Inv, ImportTypeOK, CallRecords
  <2>3. QED
    BY <2>1, <2>2
<1>7. /\ Knows(c) /\ call[c].run > 0 /\ call[c].run <= started
      /\ \A d \in Calls \ {c} : call[d].run # call[c].run /\ Knows(d) /\ call'[d] = call[d]
      /\ \A p \in person : p.run \in 1..started
  BY <1>1, <1>2 DEF Inv, ImportInv, Runs, Knows, Only
<1>8. ASSUME NEW d \in Calls PROVE Knows(d)'
  <2>1. CASE d = c
    <3>1. ASSUME NEW p \in person', p.run = call'[c].run
          PROVE  p.copy[2] \in call'[c].created /\ p.copy[2] <= call'[c].at
      <4>1. CASE p \in person
        BY <1>2, <1>5, <1>6, <1>7, <3>1, <4>1 DEF Knows
      <4>2. CASE p \in NewPersons(c)
        BY <1>2, <1>3, <1>5, <1>6, <3>1, <4>2 DEF InChunk
      <4>3. QED
        BY <1>1, <4>1, <4>2
    <3>2. QED
      BY <1>1, <1>2, <1>7, <2>1, <3>1 DEF Knows
  <2>2. CASE d # c
    <3>1. \A p \in person' : p.run = call[d].run => p \in person
      BY <1>1, <1>3, <1>7, <2>2
    <3>2. QED
      BY <1>1, <1>7, <2>2, <3>1 DEF Knows
  <2>3. QED
    BY <2>1, <2>2
<1>9. \A d \in Calls : ~Busy(d)' => call'[d] = NoCall
  BY <1>2 DEF Inv, ImportInv, Runs, Busy, Only
<1>10. \A d, e \in Calls : call'[d].run = call'[e].run => d = e \/ call'[d].run = 0
  <2>1. \A d \in Calls : call'[d].run = call[d].run
    BY <1>2 DEF Only
  <2>2. QED
    BY <2>1 DEF Inv, ImportInv, Runs
<1>11. \A p \in person' : p.run \in 1..started'
  BY <1>1, <1>3, <1>6, <1>7
<1>12. ASSUME NEW p \in person', NEW q \in person', p.run = q.run, q.copy[2] = Father[p.copy[2]]
       PROVE  p.father = q.copy[2]
  <2>1. CASE p \in person /\ q \in person
    BY <1>12, <2>1 DEF Inv, ImportInv, FathersAreLinked
  <2>2. CASE p \in NewPersons(c)
    <3>1. q.copy[2] \in known
      <4>1. CASE q \in NewPersons(c)
        BY <4>1
      <4>2. CASE q \in person
        BY <1>3, <1>7, <1>12, <2>2, <4>2 DEF Knows
      <4>3. QED
        BY <1>1, <4>1, <4>2
    <3>2. QED
      BY <1>3, <1>12, <2>2, <3>1
  <2>3. CASE p \in person /\ q \in NewPersons(c)
    <3>1. p.copy[2] <= call[c].at
      BY <1>3, <1>7, <1>12, <2>3 DEF Knows
    <3>2. q.copy[2] > call[c].at
      BY <1>3, <2>3 DEF InChunk
    <3>3. QED
      BY <1>5, <1>6, <1>12, <3>1, <3>2
  <2>4. QED
    BY <1>1, <2>1, <2>2, <2>3
<1>13. QED
  BY <1>8, <1>9, <1>10, <1>11, <1>12 DEF Runs, FathersAreLinked

\* Nobody else can have taken the persons created before.
LEMMA FathersDoExist ==
  ASSUME Inv, disorder = 0, NEW c \in Calls, call[c].pc = "chunk"
  PROVE  FathersExist(c)
<1>1. Builds(c) /\ call[c].pc \in Building
  BY OthersIdle DEF Busy, Building
<1>2. SUFFICES ASSUME NEW p \in NewPersons(c), p.father # 0
               PROVE  \/ InChunk(c, p.father)
                      \/ \E q \in person : q.run = p.run /\ q.copy[2] = p.father
  BY DEF FathersExist
<1>3. /\ p.run = call[c].run
      /\ p.father \in call[c].created \cup {q.copy[2] : q \in NewPersons(c)}
  BY <1>2, NewPersonFacts
<1>4. CASE p.father \in call[c].created
  BY <1>1, <1>3, <1>4 DEF Builds
<1>5. CASE \E q \in NewPersons(c) : p.father = q.copy[2]
  BY <1>5, NewPersonFacts
<1>6. QED
  BY <1>3, <1>4, <1>5

LEMMA FailChunkKeeps == ASSUME Inv, NEW c \in Calls, FailChunk(c) PROVE Inv'
<1>1. /\ call[c].pc = "chunk" /\ Busy(c) /\ Finish(c) /\ ~FathersExist(c)
      /\ UNCHANGED <<status, queued, parse, staged, request, person, outside, started, disorder>>
  BY DEF FailChunk, At, Steps, Busy, batchVars
<1>2. disorder # 0
  BY <1>1, FathersDoExist
<1>3. /\ call' \in [Calls -> CallRecords] /\ Only(c) /\ call'[c] = NoCall
  BY <1>1, Ends
<1>4. ImportTypeOK'
  BY <1>1, <1>3 DEF Inv, ImportTypeOK
<1>5. status' # "none"
  BY <1>1, Begun
<1>6. QED
  BY <1>1, <1>2, <1>3, <1>4, <1>5, StepKeeps

\* A chunk of a publication that nothing disturbs.
LEMMA ApplyChunkInOrder ==
  ASSUME Inv, disorder = 0, NEW c \in Calls, ApplyChunk(c) PROVE InOrder'
<1> DEFINE rows == call[c].rows
<1>1. /\ call[c].pc = "chunk" /\ Busy(c) /\ call[c].pc \in Building
      /\ person' = person \cup NewPersons(c)
      /\ UNCHANGED <<status, staged, request, outside>>
  BY ApplyEffect
<1>2. /\ Only(c) /\ call'[c].pc = "progress"
      /\ call'[c].created = call[c].created \cup {p.copy[2] : p \in NewPersons(c)}
      /\ call'[c].at = call[c].at + ChunkSize /\ call'[c].run = call[c].run
      /\ call'[c].cr = call[c].cr /\ call'[c].rows = rows
  BY ApplyFields
<1>3. /\ InOrder /\ Phase(c) /\ Builds(c)
      /\ \A d \in Calls \ {c} : call[d].pc = "idle"
      /\ \A P : "idle" \notin P => (Somewhere(P) <=> call[c].pc \in P)
  BY <1>1, OthersIdle
<1>4. /\ status = "submitted" /\ call[c].cr \in CRs /\ request[call[c].cr].status # "none"
  BY <1>1, <1>3 DEF Phase, Owning
<1>5. /\ \A p \in NewPersons(c) :
           /\ p.run = call[c].run /\ p.copy \in DOMAIN rows /\ InChunk(c, p.copy[2])
      /\ \A p, q \in NewPersons(c) : p.copy = q.copy => p = q
      /\ \A x \in DOMAIN rows : InChunk(c, x[2]) /\ ToCreate(rows[x]) =>
           \E p \in NewPersons(c) : p.copy = x
  BY NewPersonFacts
<1>6. /\ DOMAIN rows \subseteq Copy /\ call[c].at \in Int /\ ChunkSize \in Nat
      /\ \A x \in DOMAIN rows : x[2] \in Int
  <2>1. DOMAIN rows \subseteq Copy /\ call[c].at \in Int /\ ChunkSize \in Nat
    BY ImportConstantsOK DEF Inv, ImportTypeOK, CallRecords, Loaded
  <2>2. QED
    BY <2>1, CopyRows
<1>7. \A d \in Calls \ {c} : call'[d] = call[d] /\ call'[d].pc = "idle"
  BY <1>2, <1>3 DEF Only
<1>8. \A d, e \in Calls : Busy(d)' /\ Busy(e)' => d = e
  BY <1>7 DEF Busy
<1>9. Phase(c)'
  BY <1>1, <1>2, <1>4 DEF Phase, Preparing, Deciding, Building, Ending, Undoing, Owning
<1>10. \A p \in person : p.run = call[c].run /\ p.copy \in DOMAIN rows /\ p.copy[2] <= call[c].at
  <2>1. \A p \in person : p.run = call[c].run /\ p.copy \in DOMAIN rows
    BY <1>1, <1>3 DEF Builds
  <2>2. Knows(c)
    BY DEF Inv, ImportInv, Runs
  <2>3. QED
    BY <2>1, <2>2 DEF Knows
<1>11. ASSUME NEW p \in person', NEW q \in person', p.copy[2] = q.copy[2] PROVE p = q
  <2>1. CASE p \in person /\ q \in person
    BY <1>3, <1>11, <2>1 DEF InOrder
  <2>2. CASE p \in NewPersons(c) /\ q \in NewPersons(c)
    <3>1. p.copy = q.copy
      BY <1>1, <1>3, <1>5, <1>11, <2>2 DEF Builds
    <3>2. QED
      BY <1>5, <2>2, <3>1
  <2>3. \A s \in person, t \in NewPersons(c) : s.copy[2] # t.copy[2]
    BY <1>5, <1>6, <1>10 DEF InChunk
  <2>4. QED
    BY <1>1, <1>11, <2>1, <2>2, <2>3
<1>12. Copies' = Copies
  BY <1>1 DEF Copies
<1>13. Builds(c)'
  <2>1. \A p \in person' : p.run = call[c].run /\ p.copy \in DOMAIN rows
    BY <1>1, <1>5, <1>10
  <2>2. ASSUME NEW x \in DOMAIN rows, x[2] <= call[c].at + ChunkSize, ToCreate(rows[x])
        PROVE  \E p \in person' : p.copy = x
    <3>1. CASE x[2] <= call[c].at
      BY <1>1, <1>3, <2>2, <3>1 DEF Builds
    <3>2. CASE ~(x[2] <= call[c].at)
      <4>1. InChunk(c, x[2])
        BY <1>6, <2>2, <3>2 DEF InChunk
      <4>2. QED
        BY <1>1, <1>5, <2>2, <4>1
    <3>3. QED
      BY <3>1, <3>2
  <2>3. ASSUME NEW r \in call'[c].created PROVE \E p \in person' : p.copy[2] = r
    <3>1. CASE r \in call[c].created
      BY <1>1, <1>3, <3>1 DEF Builds
    <3>2. CASE r \notin call[c].created
      BY <1>1, <1>2, <2>3, <3>2
    <3>3. QED
      BY <3>1, <3>2
  <2>4. /\ \A x, y \in DOMAIN rows : x[2] = y[2] => x = y
        /\ \A r \in Rows : \E x \in DOMAIN rows : x[2] = r
        /\ \A x \in DOMAIN rows : x \in Copies' /\ rows[x] = staged'[x]
    BY <1>1, <1>3, <1>12 DEF Builds
  <2>5. QED
    BY <1>2, <2>1, <2>2, <2>3, <2>4 DEF Builds
<1>14. ASSUME NEW d \in Calls PROVE Phase(d)' /\ Builds(d)'
  <2>1. CASE d = c
    BY <1>9, <1>13, <2>1
  <2>2. CASE d # c
    <3>1. call'[d] = call[d] /\ call[d].pc = "idle" /\ Phase(d)
      BY <1>3, <1>7, <2>2 DEF InOrder
    <3>2. QED
      BY <3>1 DEF Phase, Builds, Preparing, Deciding, Building, Ending, Undoing, Owning
  <2>3. QED
    BY <2>1, <2>2
<1>15. Somewhere(Building)'
  BY <1>2 DEF Somewhere, Building
<1>16. \A a, b \in CRs : request'[a].status # "none" /\ request'[b].status # "none" => a = b
  BY <1>1, <1>3 DEF InOrder
<1>17. status' = "submitted" /\ status' \notin Early
  BY <1>1, <1>4 DEF Early, L!Reading
<1>18. outside' \subseteq person' /\ \A r \in Rows : \E x \in Copies' : x[2] = r
  BY <1>1, <1>3, <1>4, <1>12 DEF InOrder
<1>19. QED
  BY <1>8, <1>11, <1>14, <1>15, <1>16, <1>17, <1>18 DEF InOrder

LEMMA ApplyChunkKeeps == ASSUME Inv, NEW c \in Calls, ApplyChunk(c) PROVE Inv'
<1>1. /\ call[c].pc = "chunk" /\ Busy(c) /\ person' = person \cup NewPersons(c)
      /\ UNCHANGED <<status, queued, parse, staged, request, outside, started, disorder>>
  BY ApplyEffect
<1>2. /\ call' \in [Calls -> CallRecords] /\ Only(c) /\ call'[c].pc = "progress"
      /\ NewPersons(c) \subseteq PersonRows
  BY ApplyFields, NewPersonFacts
<1>3. ImportTypeOK'
  BY <1>1, <1>2 DEF Inv, ImportTypeOK
<1>4. Pristine'
  BY <1>1, Begun DEF Pristine
<1>5. StagedSoFar'
  BY <1>1, <1>2, StagedStays
<1>6. QED
  BY <1>1, <1>3, <1>4, <1>5, ApplyChunkRuns, ApplyChunkInOrder DEF Inv, ImportInv

-----------------------------------------------------------------------------
(* Calls that begin *)

\* A call begins with a run number nobody has, and has created nobody.
LEMMA BeginRuns ==
  ASSUME Inv, NEW c \in Calls, NEW r \in CallRecords, Begin(c, r), UNCHANGED batchVars,
         r.pc # "idle", r.pc = "vote" => r.next \in {"count", "reject", "changes"}
  PROVE  Runs' /\ FathersAreLinked'
<1>1. /\ call' \in [Calls -> CallRecords] /\ \A d \in Calls \ {c} : call'[d] = call[d]
      /\ call'[c].pc = r.pc /\ call'[c].next = r.next /\ call'[c].run = started + 1
      /\ started' = started + 1 /\ started \in Nat /\ person' = person
  BY BeginFields DEF Inv, ImportTypeOK, batchVars
<1>2. /\ \A d \in Calls : Knows(d) /\ (call[d].pc = "idle" => call[d] = NoCall)
      /\ \A d \in Calls : call[d].run <= started /\ call[d].run \in Nat
      /\ \A p \in person : p.run \in 1..started
  BY DEF Inv, ImportInv, Runs, Knows, Busy, ImportTypeOK, CallRecords
<1>3. ASSUME NEW d \in Calls PROVE Knows(d)'
  <2>1. CASE d = c
    <3>1. \A p \in person : p.run # started + 1
      BY <1>1, <1>2
    <3>2. QED
      BY <1>1, <2>1, <3>1 DEF Knows
  <2>2. CASE d # c
    BY <1>1, <1>2, <2>2 DEF Knows
  <2>3. QED
    BY <2>1, <2>2
<1>4. \A d \in Calls : ~Busy(d)' => call'[d] = NoCall
  BY <1>1, <1>2 DEF Busy
<1>5. \A d, e \in Calls : call'[d].run = call'[e].run => d = e \/ call'[d].run = 0
  <2>1. \A d \in Calls \ {c} : call'[d].run # call'[c].run
    BY <1>1, <1>2
  <2>2. \A d, e \in Calls \ {c} : call'[d].run = call'[e].run => d = e \/ call'[d].run = 0
    BY <1>1 DEF Inv, ImportInv, Runs
  <2>3. QED
    BY <2>1, <2>2
<1>6. \A p \in person' : p.run \in 1..started'
  BY <1>1, <1>2
<1>7. FathersAreLinked'
  BY <1>1 DEF Inv, ImportInv, FathersAreLinked
<1>8. QED
  BY <1>3, <1>4, <1>5, <1>6, <1>7 DEF Runs

\* The first statement of a call reads; what it has read holds while nobody else is at work.
LEMMA BeginKeeps ==
  ASSUME Inv, NEW c \in Calls, NEW r \in CallRecords, Begin(c, r), UNCHANGED batchVars,
         status # "none", r.at = 0, r.created = {},
         r.pc \in {"writeRow", "create", "vote", "resubmit", "blockers"},
         r.pc = "vote" => r.next \in {"count", "reject", "changes"},
         r.pc \in {"writeRow", "create"} => status = "preview",
         r.pc = "writeRow" => r.copy \in Copies /\ r.new.status # "absent",
         r.pc \in {"vote", "resubmit"} =>
           r.cr \in CRs /\ request[r.cr].status # "none" /\ Open(r.cr),
         r.pc = "blockers" => status = "published" /\ r.ids = person
  PROVE  Inv'
<1>1. /\ call' \in [Calls -> CallRecords] /\ \A d \in Calls \ {c} : call'[d] = call[d]
      /\ call'[c].pc = r.pc /\ call'[c].cr = r.cr /\ call'[c].copy = r.copy
      /\ call'[c].new = r.new /\ call'[c].at = 0 /\ call'[c].created = {}
      /\ call'[c].ids = r.ids /\ started' = started + 1
      /\ disorder' = 0 => disorder = 0 /\ \A d \in Calls : call[d].pc = "idle"
  BY BeginFields DEF Inv
<1>2. /\ UNCHANGED <<status, queued, parse, staged, request, person, outside>>
      /\ Copies' = Copies
  BY DEF batchVars, Copies
<1>3. ImportTypeOK'
  <2>1. disorder' \in Nat /\ started' \in Nat
    BY <1>1 DEF Begin, Inv, ImportTypeOK
  <2>2. QED
    BY <1>1, <1>2, <2>1 DEF Inv, ImportTypeOK
<1>4. Pristine'
  BY <1>2 DEF Pristine
<1>5. StagedSoFar'
  BY <1>1, <1>2 DEF Inv, ImportInv, StagedSoFar
<1>6. ASSUME disorder' = 0 PROVE InOrder'
  <2>1. InOrder /\ \A d \in Calls : call[d].pc = "idle"
    BY <1>1, <1>6 DEF Inv, ImportInv
  <2>2. \A P : "idle" \notin P => ~Somewhere(P)
    BY <2>1 DEF Somewhere
  <2>3. /\ \A cr \in CRs : Open(cr) => status = "submitted"
        /\ \A cr \in CRs : request[cr].status # "none" => status \notin Early
        /\ person = {} \/ status = "published"
        /\ status = "published" => Settled
    BY <2>1, <2>2 DEF InOrder, Ending, Building
  <2>4. \A d \in Calls \ {c} : Phase(d)' /\ Builds(d)' /\ ~Busy(d)'
    <3>1. SUFFICES ASSUME NEW d \in Calls \ {c} PROVE Phase(d)' /\ Builds(d)' /\ ~Busy(d)'
      OBVIOUS
    <3>2. Phase(d) /\ call'[d] = call[d] /\ call[d].pc = "idle"
      BY <1>1, <2>1 DEF InOrder
    <3>3. QED
      BY <3>2 DEF Phase, Builds, Busy, Preparing, Deciding, Building, Ending, Undoing, Owning
  <2>5. Phase(c)'
    BY <1>1, <1>2, <2>3
       DEF Phase, Preparing, Deciding, Building, Ending, Undoing, Owning
  <2>6. Builds(c)'
    BY <1>1 DEF Builds, Building
  <2>7. Settled' <=> Settled
    BY <1>2 DEF Settled
  <2>8. /\ \A cr \in CRs : request'[cr].status # "none" => status' \notin Early
        /\ \A cr \in CRs : Open(cr)' => status' = "submitted"
        /\ person' = {} \/ status' = "published"
        /\ status' = "published" => Settled'
    BY <1>2, <2>3, <2>7 DEF Open
  <2>9. /\ outside' \subseteq person' /\ \A p, q \in person' : p.copy[2] = q.copy[2] => p = q
        /\ \A a, b \in CRs : request'[a].status # "none" /\ request'[b].status # "none" => a = b
        /\ status' \in {"preview", "submitted", "published"} =>
             \A s \in Rows : \E x \in Copies' : x[2] = s
    BY <1>2, <2>1 DEF InOrder
  <2>10. QED
    BY <2>4, <2>5, <2>6, <2>8, <2>9 DEF InOrder
<1>7. r.pc # "idle"
  OBVIOUS
<1>8. QED
  BY <1>3, <1>4, <1>5, <1>6, <1>7, BeginRuns DEF Inv, ImportInv

LEMMA StartUpdateRowKeeps ==
  ASSUME Inv, NEW c \in Calls, NEW x \in Copies, NEW s \in Edits(x), StartUpdateRow(c, x, s)
  PROVE  Inv'
<1>1. x \in Copy /\ s \in Staged /\ s.status # "absent"
  <2>1. x \in Copy /\ staged[x] \in Staged /\ staged[x].status # "absent"
    BY DEF Inv, ImportTypeOK, Copies, Copy
  <2>2. PICK old \in Staged : old = staged[x]
    BY <2>1
  <2>3. ASSUME NEW d \in Decisions, s = [old EXCEPT !.decision = d]
        PROVE  s \in Staged /\ s.status # "absent"
    <3>1. d \in {"new", "merge", "ignore"}
      BY ImportConstantsOK
    <3>2. QED
      BY <2>1, <2>2, <2>3, <3>1 DEF Staged
  <2>4. ASSUME s = [old EXCEPT !.status = "valid"]
        PROVE  s \in Staged /\ s.status # "absent"
    BY <2>4 DEF Staged
  <2>5. \/ \E d \in Decisions : s = [old EXCEPT !.decision = d]
        \/ s = [old EXCEPT !.status = "valid"]
    BY <2>2 DEF Edits
  <2>6. QED
    BY <2>1, <2>3, <2>4, <2>5
<1>2. PICK r : r = [NoCall EXCEPT !.pc = "writeRow", !.copy = x, !.new = s]
  OBVIOUS
<1>3. /\ r \in CallRecords /\ r.pc = "writeRow" /\ r.copy = x /\ r.new = s
      /\ r.at = 0 /\ r.created = {}
  BY <1>1, <1>2, NoCallFields DEF CallRecords, Places, Preparing
<1>4. Begin(c, r) /\ UNCHANGED batchVars /\ status = "preview"
  BY <1>2, Zenon DEF StartUpdateRow
<1>5. QED
  BY <1>1, <1>3, <1>4, BeginKeeps

LEMMA StartSubmitKeeps ==
  ASSUME Inv, NEW c \in Calls, NEW partial, StartSubmit(c, partial) PROVE Inv'
<1>1. PICK r : r = [NoCall EXCEPT !.pc = "create"]
  OBVIOUS
<1>2. r \in CallRecords /\ r.pc = "create" /\ r.at = 0 /\ r.created = {}
  BY <1>1, NoCallFields DEF CallRecords, Places, Preparing
<1>3. Begin(c, r) /\ UNCHANGED batchVars /\ status = "preview"
  BY <1>1, Zenon DEF StartSubmit
<1>4. QED
  BY <1>2, <1>3, BeginKeeps

\* Before the upload there is no request.
LEMMA RequestsComeLater ==
  ASSUME Inv, NEW cr \in CRs, request[cr].status # "none" PROVE status # "none"
BY DEF Inv, ImportInv, Pristine

LEMMA StartReviewKeeps ==
  ASSUME Inv, NEW c \in Calls, NEW cr \in CRs, NEW v \in Reviewers,
         NEW pc \in {"count", "reject", "changes"}, StartReview(c, cr, v, pc)
  PROVE  Inv'
<1>1. PICK r : r = [NoCall EXCEPT !.pc = "vote", !.by = v, !.cr = cr, !.next = pc]
  OBVIOUS
<1>2. /\ r \in CallRecords /\ r.pc = "vote" /\ r.cr = cr /\ r.next = pc
      /\ r.at = 0 /\ r.created = {}
  BY <1>1, NoCallFields DEF CallRecords, Places, Deciding
<1>3. Begin(c, r) /\ UNCHANGED batchVars /\ InReview(cr)
  BY <1>1, Zenon DEF StartReview
<1>4. request[cr].status # "none" /\ Open(cr)
  BY <1>3 DEF InReview, Open
<1>5. status # "none"
  BY <1>4, RequestsComeLater
<1>6. QED
  BY <1>2, <1>3, <1>4, <1>5, BeginKeeps

LEMMA StartResubmitKeeps ==
  ASSUME Inv, NEW c \in Calls, NEW cr \in CRs, StartResubmit(c, cr) PROVE Inv'
<1>1. PICK r : r = [NoCall EXCEPT !.pc = "resubmit", !.cr = cr]
  OBVIOUS
<1>2. r \in CallRecords /\ r.pc = "resubmit" /\ r.cr = cr /\ r.at = 0 /\ r.created = {}
  BY <1>1, NoCallFields DEF CallRecords, Places, Deciding
<1>3. /\ Begin(c, r) /\ UNCHANGED batchVars
      /\ request[cr].status \in {"draft", "changes_requested"}
  BY <1>1, Zenon DEF StartResubmit
<1>4. request[cr].status # "none" /\ Open(cr)
  BY <1>3 DEF Open
<1>5. status # "none"
  BY <1>4, RequestsComeLater
<1>6. QED
  BY <1>2, <1>3, <1>4, <1>5, BeginKeeps

LEMMA StartRollbackKeeps == ASSUME Inv, NEW c \in Calls, StartRollback(c) PROVE Inv'
<1>1. PICK r : r = [NoCall EXCEPT !.pc = "blockers", !.ids = person]
  OBVIOUS
<1>2. /\ r \in CallRecords /\ r.pc = "blockers" /\ r.ids = person
      /\ r.at = 0 /\ r.created = {}
  BY <1>1, NoCallFields DEF CallRecords, Places, Undoing, Inv, ImportTypeOK
<1>3. Begin(c, r) /\ UNCHANGED batchVars /\ status = "published"
  BY <1>1, Zenon DEF StartRollback
<1>4. QED
  BY <1>2, <1>3, BeginKeeps

LEMMA UploadKeeps == ASSUME Inv, NEW c \in Calls, Upload(c) PROVE Inv'
<1>1. /\ status = "none" /\ status' = "uploaded" /\ Goto(c, "enqueue")
      /\ UNCHANGED <<queued, parse, staged, request, person, outside, started, disorder>>
  BY DEF Upload, Goto, Steps
<1>2. /\ \A d \in Calls : call[d] = NoCall
      /\ \A cr \in CRs : request[cr].status = "none"
  BY <1>1 DEF Inv, ImportInv, Pristine
<1>3. "enqueue" \in Places
  BY DEF Places
<1>4. /\ call' \in [Calls -> CallRecords] /\ Only(c) /\ call'[c].pc = "enqueue"
      /\ call'[c].run = call[c].run /\ call'[c].at = call[c].at
      /\ call'[c].created = call[c].created
  BY <1>1, <1>3, GotoFields DEF Inv, Only
<1>5. ImportTypeOK'
  BY <1>1, <1>4 DEF Inv, ImportTypeOK
<1>6. Runs' /\ FathersAreLinked'
  BY <1>1, <1>4, RunsStay
<1>7. StagedSoFar'
  BY <1>1, <1>4, StagedStays
<1>8. Pristine'
  BY <1>1 DEF Pristine
<1>9. ASSUME disorder = 0 PROVE InOrder'
  <2>1. InOrder /\ \A d \in Calls : call[d].pc = "idle"
    BY <1>2, <1>9, NoCallFields DEF Inv, ImportInv
  <2>2. person = {}
    BY <1>1, <2>1 DEF InOrder, Somewhere, Building
  <2>3. \A d \in Calls \ {c} : Phase(d)' /\ Builds(d)' /\ ~Busy(d)'
    <3>1. SUFFICES ASSUME NEW d \in Calls \ {c} PROVE Phase(d)' /\ Builds(d)' /\ ~Busy(d)'
      OBVIOUS
    <3>2. Phase(d) /\ call'[d] = call[d] /\ call[d].pc = "idle"
      BY <1>4, <2>1 DEF InOrder, Only
    <3>3. QED
      BY <3>2 DEF Phase, Builds, Busy, Preparing, Deciding, Building, Ending, Undoing, Owning
  <2>4. Phase(c)'
    BY <1>2, <1>4, NoCallFields
       DEF Phase, Preparing, Deciding, Building, Ending, Undoing, Owning
  <2>5. Builds(c)'
    BY <1>4 DEF Builds, Building
  <2>6. \A cr \in CRs : request'[cr].status = "none" /\ ~Open(cr)'
    BY <1>1, <1>2 DEF Open
  <2>7. outside' \subseteq person' /\ person' = {}
    BY <1>1, <2>1, <2>2 DEF InOrder
  <2>8. QED
    BY <1>1, <2>3, <2>4, <2>5, <2>6, <2>7 DEF InOrder
<1>10. QED
  BY <1>1, <1>5, <1>6, <1>7, <1>8, <1>9 DEF Inv, ImportInv

-----------------------------------------------------------------------------
(* What happens to a batch from outside *)

LEMMA DieKeeps == ASSUME Inv, NEW c \in Calls, Die(c) PROVE Inv'
<1>1. /\ Finish(c) /\ Busy(c) /\ DisorderIf(TRUE)
      /\ UNCHANGED <<status, queued, parse, staged, request, person, outside, started>>
  BY DEF Die, At, Busy, batchVars
<1>2. /\ call' \in [Calls -> CallRecords] /\ Only(c) /\ call'[c] = NoCall
      /\ call'[c].pc = "idle"
  BY <1>1, FinishFields, NoCallFields DEF Inv, Only
<1>3. disorder' \in Nat /\ disorder' # 0
  BY <1>1 DEF DisorderIf, Inv, ImportTypeOK
<1>4. ImportTypeOK'
  BY <1>1, <1>2, <1>3 DEF Inv, ImportTypeOK
<1>5. Runs' /\ FathersAreLinked'
  BY <1>1, <1>2, RunsStay
<1>6. StagedSoFar'
  BY <1>1, <1>2, StagedStays
<1>7. Pristine'
  BY <1>1, Begun DEF Pristine
<1>8. QED
  BY <1>3, <1>4, <1>5, <1>6, <1>7 DEF Inv, ImportInv

\* No call moves, and no row of the file or person changes.
LEMMA AsideKeeps ==
  ASSUME Inv, UNCHANGED <<status, queued, parse, staged, person, call, started>>,
         ImportTypeOK', Pristine', disorder' = 0 => InOrder'
  PROVE  Inv'
<1>1. Runs' /\ FathersAreLinked'
  BY DEF Inv, ImportInv, Runs, Knows, Busy, FathersAreLinked
<1>2. StagedSoFar'
  BY DEF Inv, ImportInv, StagedSoFar, Copies
<1>3. QED
  BY <1>1, <1>2 DEF Inv, ImportInv

\* The sweep closes a request, and so only what is open.
LEMMA ExpireKeeps == ASSUME Inv, NEW cr \in CRs, Expire(cr) PROVE Inv'
<1>1. /\ Open(cr) /\ SetRequest(cr, "expired")
      /\ UNCHANGED <<status, queued, parse, staged, person, outside, call, started, disorder>>
  BY DEF Expire, Open
<1>2. /\ request' \in [CRs -> Requests] /\ request'[cr].status = "expired"
      /\ \A q \in CRs \ {cr} : request'[q].status = request[q].status
  BY <1>1, SetRequestFields DEF Inv, RequestStatus
<1>3. ImportTypeOK'
  BY <1>1, <1>2 DEF Inv, ImportTypeOK
<1>4. /\ \A q \in CRs : request'[q].status = "none" <=> request[q].status = "none"
      /\ \A q \in CRs : request[q].status = "rejected" => request'[q].status = "rejected"
      /\ \A q \in CRs : Open(q)' => Open(q)
  BY <1>1, <1>2 DEF Open
<1>5. Pristine'
  BY <1>1, <1>4 DEF Pristine, Inv, ImportInv
<1>6. ASSUME disorder = 0 PROVE InOrder'
  <2>1. InOrder
    BY <1>6 DEF Inv, ImportInv
  <2>2. ASSUME NEW c \in Calls PROVE Phase(c)' /\ Builds(c)'
    <3>1. Phase(c) /\ Builds(c)
      BY <2>1 DEF InOrder
    <3>2. Phase(c)'
      <4>1. call[c].cr \in CRs =>
              /\ request'[call[c].cr].status = "none" <=> request[call[c].cr].status = "none"
              /\ request[call[c].cr].status = "rejected" => request'[call[c].cr].status = "rejected"
        BY <1>4
      <4>2. call[c].pc \in {"sync", "syncWrite"} => call[c].pc \in Owning
        BY DEF Owning, Deciding
      <4>3. QED
        BY <1>1, <3>1, <4>1, <4>2 DEF Phase
    <3>3. Builds(c)'
      BY <1>1, <3>1 DEF Builds, Copies
    <3>4. QED
      BY <3>2, <3>3
  <2>3. \A P : Somewhere(P)' <=> Somewhere(P)
    BY <1>1 DEF Somewhere
  <2>4. Copies' = Copies /\ (Settled' <=> Settled)
    BY <1>1 DEF Copies, Settled
  <2>5. /\ \A a, b \in CRs : request'[a].status # "none" /\ request'[b].status # "none" => a = b
        /\ \A q \in CRs : request'[q].status # "none" =>
             status \notin Early \/ Somewhere({"submit", "mark"})
        /\ \A q \in CRs : Open(q)' =>
             status = "submitted" \/ Somewhere({"submit", "mark"} \cup Ending)
    BY <1>4, <2>1 DEF InOrder
  <2>6. /\ \A c, d \in Calls : Busy(c)' /\ Busy(d)' => c = d
        /\ outside' \subseteq person'
        /\ person' = {} \/ status' = "published" \/ Somewhere(Building)'
        /\ \A p, q \in person' : p.copy[2] = q.copy[2] => p = q
    BY <1>1, <2>1, <2>3 DEF InOrder, Busy
  <2>7. /\ status' \in {"preview", "submitted", "published"} =>
             \A r \in Rows : \E x \in Copies' : x[2] = r
        /\ status' = "published" => Somewhere({"rolledBack"})' \/ Settled'
    BY <1>1, <2>1, <2>3, <2>4 DEF InOrder
  <2>8. QED
    BY <1>1, <2>2, <2>3, <2>5, <2>6, <2>7 DEF InOrder
<1>7. QED
  BY <1>1, <1>3, <1>5, <1>6, AsideKeeps

\* Between the two statements of a rollback the blockers are known.
LEMMA AddDependentKeeps == ASSUME Inv, NEW p \in person, AddDependent(p) PROVE Inv'
<1>1. /\ outside' = {p} /\ DisorderIf(\E c \in Calls : At(c, "delete"))
      /\ UNCHANGED <<status, queued, parse, staged, request, person, call, started>>
  BY DEF AddDependent
<1>2. disorder' \in Nat
  BY <1>1 DEF DisorderIf, Inv, ImportTypeOK
<1>3. ImportTypeOK'
  BY <1>1, <1>2 DEF Inv, ImportTypeOK
<1>4. Pristine'
  BY <1>1 DEF Pristine, Inv, ImportInv
<1>5. ASSUME disorder' = 0 PROVE InOrder'
  <2>1. InOrder /\ \A c \in Calls : call[c].pc # "delete"
    BY <1>1, <1>5 DEF DisorderIf, At, Inv, ImportInv, ImportTypeOK
  <2>2. ASSUME NEW c \in Calls PROVE Phase(c)' /\ Builds(c)'
    <3>1. Phase(c) /\ Builds(c) /\ call[c].pc # "delete"
      BY <2>1 DEF InOrder
    <3>2. QED
      BY <1>1, <3>1 DEF Phase, Builds, Copies
  <2>3. \A P : Somewhere(P)' <=> Somewhere(P)
    BY <1>1 DEF Somewhere
  <2>4. Copies' = Copies /\ (Settled' <=> Settled)
    BY <1>1 DEF Copies, Settled
  <2>5. \A cr \in CRs : Open(cr)' <=> Open(cr)
    BY <1>1 DEF Open
  <2>6. /\ \A c, d \in Calls : Busy(c)' /\ Busy(d)' => c = d
        /\ outside' \subseteq person'
        /\ person' = {} \/ status' = "published" \/ Somewhere(Building)'
        /\ \A s, t \in person' : s.copy[2] = t.copy[2] => s = t
    BY <1>1, <2>1, <2>3 DEF InOrder, Busy
  <2>7. /\ status' \in {"preview", "submitted", "published"} =>
             \A r \in Rows : \E x \in Copies' : x[2] = r
        /\ status' = "published" => Somewhere({"rolledBack"})' \/ Settled'
    BY <1>1, <2>1, <2>3, <2>4 DEF InOrder
  <2>8. /\ \A a, b \in CRs : request'[a].status # "none" /\ request'[b].status # "none" => a = b
        /\ \A cr \in CRs : request'[cr].status # "none" =>
             status' \notin Early \/ Somewhere({"submit", "mark"})'
        /\ \A cr \in CRs : Open(cr)' =>
             status' = "submitted" \/ Somewhere({"submit", "mark"} \cup Ending)'
    BY <1>1, <2>1, <2>3, <2>5 DEF InOrder
  <2>9. QED
    BY <2>2, <2>6, <2>7, <2>8 DEF InOrder
<1>6. QED
  BY <1>1, <1>3, <1>4, <1>5, AsideKeeps

-----------------------------------------------------------------------------
(* The parse job *)

\* A report of a delivery, to a batch that is read: nothing else has begun.
LEMMA ReportKeeps ==
  ASSUME Inv, NEW s \in {"parsing", "validating", "resolving", "preview", "failed"}, Report(s),
         UNCHANGED <<staged, request, person, outside, call, started>>, queued' \in Int,
         parse' \in [Attempts -> [pc : {"none", "parse", "validate", "insert", "done"},
                                  at : 0..NumRows]],
         \A a \in Attempts : parse'[a].at = parse[a].at,
         s = "preview" => \A r \in Rows : \E x \in Copies : x[2] = r
  PROVE  Inv'
<1>1. status' = s /\ disorder' \in Nat
  BY DEF Report, DisorderIf, Inv, ImportTypeOK
<1>2. ImportTypeOK'
  BY <1>1 DEF Inv, ImportTypeOK
<1>3. Copies' = Copies
  BY DEF Copies
<1>4. Runs' /\ FathersAreLinked'
  BY DEF Inv, ImportInv, Runs, Knows, Busy, FathersAreLinked
<1>5. StagedSoFar'
  <2>1. \A x \in Copy : x[1] \in Attempts
    BY DEF Copy
  <2>2. QED
    BY <1>3, <2>1 DEF Inv, ImportInv, StagedSoFar
<1>6. Pristine'
  BY <1>1 DEF Pristine
<1>7. ASSUME disorder' = 0 PROVE InOrder'
  <2>1. InOrder /\ status \in L!Reading
    BY <1>7 DEF Report, DisorderIf, L!Reading, Inv, ImportInv, ImportTypeOK
  <2>2. ASSUME NEW c \in Calls PROVE call[c].pc \in {"idle", "enqueue"}
    <3>1. Phase(c) /\ call[c].pc \in Places
      BY <2>1 DEF InOrder, Inv, ImportTypeOK, CallRecords
    <3>2. status \notin {"preview", "submitted", "published"}
      BY <2>1 DEF L!Reading
    <3>3. call[c].pc \notin Preparing \cup Deciding \cup Building \cup Ending \cup Undoing
      BY <3>1, <3>2 DEF Phase
    <3>4. QED
      BY <3>1, <3>3 DEF Places
  <2>3. /\ ~Somewhere(Building) /\ ~Somewhere({"submit", "mark"})
        /\ ~Somewhere({"submit", "mark"} \cup Ending)
    BY <2>2 DEF Somewhere, Building, Ending
  <2>4. /\ \A cr \in CRs : request[cr].status = "none"
        /\ person = {}
    BY <2>1, <2>3 DEF InOrder, Early, L!Reading
  <2>5. ASSUME NEW c \in Calls PROVE Phase(c)' /\ Builds(c)'
    <3>1. Phase(c) /\ call[c].pc \in {"idle", "enqueue"}
      BY <2>1, <2>2 DEF InOrder
    <3>2. QED
      BY <3>1 DEF Phase, Builds, Preparing, Deciding, Building, Ending, Undoing, Owning
  <2>6. \A cr \in CRs : request'[cr].status = "none" /\ ~Open(cr)'
    BY <2>4 DEF Open
  <2>7. /\ \A c, d \in Calls : Busy(c)' /\ Busy(d)' => c = d
        /\ outside' \subseteq person' /\ person' = {}
    BY <2>1, <2>4 DEF InOrder, Busy
  <2>8. QED
    BY <1>1, <1>3, <2>5, <2>6, <2>7 DEF InOrder
<1>8. QED
  BY <1>2, <1>4, <1>5, <1>6, <1>7 DEF Inv, ImportInv

ParsePlaces == {"none", "parse", "validate", "insert", "done"}

LEMMA ParseGotoFields ==
  ASSUME ImportTypeOK, NEW a \in Attempts, NEW pc \in ParsePlaces, ParseGoto(a, pc)
  PROVE  /\ parse' \in [Attempts -> [pc : ParsePlaces, at : 0..NumRows]]
         /\ \A b \in Attempts : parse'[b].at = parse[b].at
<1>1. PICK r : r = [parse[a] EXCEPT !.pc = pc]
  OBVIOUS
<1>2. r \in [pc : ParsePlaces, at : 0..NumRows] /\ r.at = parse[a].at
  BY <1>1 DEF ImportTypeOK, ParsePlaces
<1>3. parse' = [parse EXCEPT ![a] = r]
  BY <1>1 DEF ParseGoto, ImportTypeOK
<1>4. QED
  BY <1>2, <1>3 DEF ImportTypeOK, ParsePlaces

LEMMA ParseStageKeeps ==
  ASSUME Inv, NEW a \in Attempts, NEW pc, NEW next \in ParsePlaces,
         NEW s \in {"parsing", "validating", "resolving", "preview", "failed"},
         ParseStage(a, pc, s, next),
         s = "preview" => parse[a].at = NumRows
  PROVE  Inv'
<1>1. /\ ParseGoto(a, next) /\ Report(s)
      /\ UNCHANGED <<queued, staged, request, person, outside, call, started>>
  BY DEF ParseStage
<1>2. /\ parse' \in [Attempts -> [pc : ParsePlaces, at : 0..NumRows]]
      /\ \A b \in Attempts : parse'[b].at = parse[b].at
  BY <1>1, ParseGotoFields DEF Inv
<1>3. s = "preview" => \A r \in Rows : \E x \in Copies : x[2] = r
  <2>1. ASSUME s = "preview", NEW r \in Rows PROVE <<a, r>> \in Copies
    <3>1. <<a, r>> \in Copy /\ r <= NumRows
      BY ImportConstantsOK DEF Copy, Rows
    <3>2. QED
      BY <2>1, <3>1 DEF Inv, ImportInv, StagedSoFar
  <2>2. QED
    BY <2>1
<1>4. queued' \in Int
  BY <1>1 DEF Inv, ImportTypeOK
<1>5. QED
  BY <1>1, <1>2, <1>3, <1>4, ReportKeeps DEF ParsePlaces

LEMMA DeliverKeeps == ASSUME Inv, NEW a \in Attempts, Deliver(a) PROVE Inv'
<1>1. /\ ParseGoto(a, "parse") /\ Report("parsing") /\ queued' = a
      /\ UNCHANGED <<staged, request, person, outside, call, started>>
  BY DEF Deliver
<1>2. /\ parse' \in [Attempts -> [pc : ParsePlaces, at : 0..NumRows]]
      /\ \A b \in Attempts : parse'[b].at = parse[b].at
  BY <1>1, ParseGotoFields DEF Inv, ParsePlaces
<1>3. queued' \in Int
  BY <1>1, ImportConstantsOK DEF Attempts
<1>4. QED
  BY <1>1, <1>2, <1>3, ReportKeeps DEF ParsePlaces

LEMMA StagesKeep ==
  ASSUME Inv, NEW a \in Attempts, Validate(a) \/ Resolve(a) \/ Present(a) \/ ParseFails(a)
  PROVE  Inv'
<1>1. CASE Validate(a)
  BY <1>1, ParseStageKeeps DEF Validate, ParsePlaces
<1>2. CASE Resolve(a)
  BY <1>2, ParseStageKeeps DEF Resolve, ParsePlaces
<1>3. CASE Present(a)
  BY <1>3, ParseStageKeeps DEF Present, ParsePlaces
<1>4. CASE ParseFails(a)
  BY <1>4, ParseStageKeeps DEF ParseFails, ParsePlaces
<1>5. QED
  BY <1>1, <1>2, <1>3, <1>4

\* A chunk of rows is staged; the rows staged before stay as they are.
LEMMA InsertFacts ==
  ASSUME Inv, NEW a \in Attempts, InsertRows(a)
  PROVE  /\ staged' \in [Copy -> Staged]
         /\ parse' \in [Attempts -> [pc : ParsePlaces, at : 0..NumRows]]
         /\ \A x \in Copy : x \in Copies' <=> x[2] <= parse'[x[1]].at
         /\ \A x \in Copies : x \in Copies' /\ staged'[x] = staged[x]
<1>1. PICK n : n = parse[a].at
  OBVIOUS
<1>2. n \in 0..NumRows /\ n < NumRows /\ NumRows \in Nat /\ ChunkSize \in Nat \ {0}
  BY <1>1, ImportConstantsOK DEF InsertRows, Inv, ImportTypeOK
<1>3. PICK chunk : chunk = {r \in Rows : r > n /\ r <= n + ChunkSize}
  OBVIOUS
<1>4. PICK m : m = (IF n + ChunkSize < NumRows THEN n + ChunkSize ELSE NumRows)
  OBVIOUS
<1>5. m \in 0..NumRows /\ m > n /\ \A r \in Rows : r <= m <=> r <= n \/ r \in chunk
  <2>1. m \in 0..NumRows /\ m > n
    BY <1>2, <1>4
  <2>2. ASSUME NEW r \in Rows PROVE r <= m <=> r <= n \/ r \in chunk
    <3>1. r \in Int /\ r <= NumRows
      BY ImportConstantsOK DEF Rows
    <3>2. r \in chunk <=> r > n /\ r <= n + ChunkSize
      BY <1>3
    <3>3. QED
      BY <1>2, <1>4, <3>1, <3>2
  <2>3. QED
    BY <2>1, <2>2
<1>6. parse' = [parse EXCEPT ![a].at = m]
  BY <1>1, <1>4 DEF InsertRows
<1>7. /\ parse' \in [Attempts -> [pc : ParsePlaces, at : 0..NumRows]]
      /\ parse'[a].at = m /\ \A b \in Attempts \ {a} : parse'[b].at = parse[b].at
  <2>1. PICK r : r = [parse[a] EXCEPT !.at = m]
    OBVIOUS
  <2>2. r \in [pc : ParsePlaces, at : 0..NumRows] /\ r.at = m
    BY <1>5, <2>1 DEF Inv, ImportTypeOK, ParsePlaces
  <2>3. parse' = [parse EXCEPT ![a] = r]
    BY <1>6, <2>1 DEF Inv, ImportTypeOK
  <2>4. QED
    BY <2>2, <2>3 DEF Inv, ImportTypeOK, ParsePlaces
<1>8. PICK N : N = [x \in Copy |-> [status |-> Parsed[x[2]], decision |-> "new"]]
  OBVIOUS
<1>9. \A x \in Copy : x[2] \in Rows /\ x[1] \in Attempts
  BY DEF Copy
<1>10. \A x \in Copy : N[x] \in Staged /\ N[x].status # "absent"
  BY <1>8, <1>9, ImportConstantsOK DEF Staged
<1>11. staged' = [x \in Copy |-> IF x[1] = a /\ x[2] \in chunk THEN N[x] ELSE staged[x]]
  <2>1. staged' = [x \in Copy |-> IF x[1] = a /\ x[2] \in chunk
                      THEN [status |-> Parsed[x[2]], decision |-> "new"] ELSE staged[x]]
    BY <1>1, <1>3, Zenon DEF InsertRows, Copy
  <2>2. QED
    BY <1>8, <2>1
<1>12. staged' \in [Copy -> Staged]
  BY <1>10, <1>11 DEF Inv, ImportTypeOK
<1>13. ASSUME NEW x \in Copies PROVE x \in Copies' /\ staged'[x] = staged[x]
  <2>1. x \in Copy /\ staged[x].status # "absent" /\ x[2] <= parse[x[1]].at
    BY DEF Inv, ImportInv, StagedSoFar, Copies, Copy
  <2>2. x[2] \in chunk /\ x[1] = a => x[2] > n /\ x[2] <= n /\ x[2] \in Int
    BY <1>1, <1>3, <2>1, CopyRows
  <2>3. staged'[x] = staged[x]
    BY <1>2, <1>11, <2>1, <2>2
  <2>4. QED
    BY <2>1, <2>3 DEF Copies, Copy
<1>14. ASSUME NEW x \in Copy PROVE x \in Copies' <=> x[2] <= parse'[x[1]].at
  <2>1. x \in Copies' <=> staged'[x].status # "absent"
    BY DEF Copies, Copy
  <2>2. staged[x].status # "absent" <=> x[2] <= parse[x[1]].at
    BY DEF Inv, ImportInv, StagedSoFar, Copies, Copy
  <2>3. CASE x[1] = a /\ x[2] \in chunk
    BY <1>5, <1>7, <1>9, <1>10, <1>11, <2>1, <2>3
  <2>4. CASE x[1] = a /\ x[2] \notin chunk
    BY <1>1, <1>5, <1>7, <1>9, <1>11, <2>1, <2>2, <2>4
  <2>5. CASE x[1] # a
    BY <1>7, <1>9, <1>11, <2>1, <2>2, <2>5
  <2>6. QED
    BY <2>3, <2>4, <2>5
<1>15. QED
  BY <1>7, <1>12, <1>13, <1>14

LEMMA InsertRowsKeeps == ASSUME Inv, NEW a \in Attempts, InsertRows(a) PROVE Inv'
<1>1. UNCHANGED <<status, queued, request, person, outside, call, started, disorder>>
  BY DEF InsertRows
<1>2. /\ staged' \in [Copy -> Staged]
      /\ parse' \in [Attempts -> [pc : ParsePlaces, at : 0..NumRows]]
      /\ \A x \in Copy : x \in Copies' <=> x[2] <= parse'[x[1]].at
      /\ \A x \in Copies : x \in Copies' /\ staged'[x] = staged[x]
  BY InsertFacts
<1>3. ImportTypeOK'
  BY <1>1, <1>2 DEF Inv, ImportTypeOK, ParsePlaces
<1>4. Runs' /\ FathersAreLinked' /\ Pristine'
  BY <1>1 DEF Inv, ImportInv, Runs, Knows, Busy, FathersAreLinked, Pristine
<1>5. StagedSoFar'
  BY <1>1, <1>2 DEF Inv, ImportInv, StagedSoFar
<1>6. ASSUME disorder = 0 PROVE InOrder'
  <2>1. InOrder
    BY <1>6 DEF Inv, ImportInv
  <2>2. ASSUME NEW c \in Calls PROVE Phase(c)' /\ Builds(c)'
    <3>1. Phase(c) /\ Builds(c)
      BY <2>1 DEF InOrder
    <3>2. Phase(c)'
      BY <1>1, <3>1 DEF Phase
    <3>3. Builds(c)'
      BY <1>1, <1>2, <3>1 DEF Builds
    <3>4. QED
      BY <3>2, <3>3
  <2>3. \A P : Somewhere(P)' <=> Somewhere(P)
    BY <1>1 DEF Somewhere
  <2>4. Settled => Settled'
    BY <1>1, <1>2 DEF Settled
  <2>5. \A cr \in CRs : Open(cr)' <=> Open(cr)
    BY <1>1 DEF Open
  <2>6. /\ \A c, d \in Calls : Busy(c)' /\ Busy(d)' => c = d
        /\ outside' \subseteq person'
        /\ person' = {} \/ status' = "published" \/ Somewhere(Building)'
        /\ \A s, t \in person' : s.copy[2] = t.copy[2] => s = t
    BY <1>1, <2>1, <2>3 DEF InOrder, Busy
  <2>7. /\ status' \in {"preview", "submitted", "published"} =>
             \A r \in Rows : \E x \in Copies' : x[2] = r
        /\ status' = "published" => Somewhere({"rolledBack"})' \/ Settled'
    BY <1>1, <1>2, <2>1, <2>3, <2>4 DEF InOrder
  <2>8. /\ \A b, d \in CRs : request'[b].status # "none" /\ request'[d].status # "none" => b = d
        /\ \A cr \in CRs : request'[cr].status # "none" =>
             status' \notin Early \/ Somewhere({"submit", "mark"})'
        /\ \A cr \in CRs : Open(cr)' =>
             status' = "submitted" \/ Somewhere({"submit", "mark"} \cup Ending)'
    BY <1>1, <2>1, <2>3, <2>5 DEF InOrder
  <2>9. QED
    BY <2>2, <2>6, <2>7, <2>8 DEF InOrder
<1>7. QED
  BY <1>1, <1>3, <1>4, <1>5, <1>6 DEF Inv, ImportInv

LEMMA IdleKeeps == ASSUME Inv, UNCHANGED vars PROVE Inv'
<1>1. /\ UNCHANGED <<status, queued, parse, staged, request, person, outside, call, started>>
      /\ disorder' = disorder
  BY DEF vars, batchVars
<1>2. ImportTypeOK' /\ Runs' /\ FathersAreLinked' /\ Pristine' /\ StagedSoFar'
  BY <1>1 DEF Inv, ImportTypeOK, ImportInv, Runs, Knows, Busy, FathersAreLinked, Pristine,
     StagedSoFar, Copies
<1>3. InOrder => InOrder'
  BY <1>1 DEF InOrder, Busy, Phase, Builds, Somewhere, Open, Settled, Copies
<1>4. QED
  BY <1>1, <1>2, <1>3 DEF Inv, ImportInv

-----------------------------------------------------------------------------
(* The specification *)

LEMMA InitHolds == Init => Inv
<1> SUFFICES ASSUME Init PROVE Inv
  OBVIOUS
<1>1. \A c \in Calls : call[c] = NoCall /\ call[c].pc = "idle"
  BY NoCallFields DEF Init
<1>2. \A cr \in CRs : request[cr].status = "none"
  BY DEF Init
<1>3. ImportTypeOK
  <2>1. call \in [Calls -> CallRecords]
    BY NoCallFields DEF Init
  <2>2. parse \in [Attempts -> [pc : ParsePlaces, at : 0..NumRows]]
    BY ImportConstantsOK DEF Init, ParsePlaces
  <2>3. staged \in [Copy -> Staged]
    BY DEF Init, Copy, Staged, Absent
  <2>4. request \in [CRs -> Requests]
    BY DEF Init, Requests, RequestStatus
  <2>5. person \subseteq PersonRows /\ queued \in Int /\ started \in Nat /\ disorder \in Nat
    BY DEF Init
  <2>6. QED
    BY <2>1, <2>2, <2>3, <2>4, <2>5 DEF ImportTypeOK, ParsePlaces
<1>4. Pristine
  BY <1>1, <1>2 DEF Pristine, Init
<1>5. person = {} /\ outside = {} /\ status = "none" /\ started = 0
  BY DEF Init
<1>6. Runs /\ FathersAreLinked
  BY <1>1, <1>5, NoCallFields DEF Runs, Knows, FathersAreLinked, Busy
<1>7. StagedSoFar
  <2>1. \A x \in Copy : x \notin Copies /\ ~(x[2] <= parse[x[1]].at)
    <3>1. SUFFICES ASSUME NEW x \in Copy PROVE x \notin Copies /\ ~(x[2] <= parse[x[1]].at)
      OBVIOUS
    <3>2. parse[x[1]].at = 0 /\ x \notin Copies
      BY DEF Init, Copy, Copies, Absent
    <3>3. QED
      BY <3>2, CopyRows
  <2>2. QED
    BY <1>1, <2>1 DEF StagedSoFar
<1>8. InOrder
  <2>1. \A c \in Calls : Phase(c) /\ Builds(c) /\ ~Busy(c)
    BY <1>1, NoCallFields
       DEF Phase, Builds, Busy, Preparing, Deciding, Building, Ending, Undoing, Owning
  <2>2. \A cr \in CRs : ~Open(cr)
    BY <1>2 DEF Open
  <2>3. QED
    BY <1>2, <1>5, <2>1, <2>2 DEF InOrder
<1>9. QED
  BY <1>3, <1>4, <1>6, <1>7, <1>8 DEF Inv, ImportInv

LEMMA StepsKeep ==
  ASSUME Inv, NEW c \in Calls, Start(c) \/ Step(c) \/ Die(c)
  PROVE  Inv'
<1>1. CASE Start(c)
  <2>1. CASE \E x \in Copies : \E new \in Edits(x) : StartUpdateRow(c, x, new)
    BY <2>1, StartUpdateRowKeeps
  <2>2. CASE \E partial \in BOOLEAN : StartSubmit(c, partial)
    BY <2>2, StartSubmitKeeps
  <2>3. CASE \E cr \in CRs :
               \/ StartResubmit(c, cr)
               \/ \E v \in Reviewers, pc \in {"count", "reject", "changes"} :
                    StartReview(c, cr, v, pc)
    BY <2>3, StartResubmitKeeps, StartReviewKeeps
  <2>4. QED
    BY <1>1, <2>1, <2>2, <2>3, UploadKeeps, StartRollbackKeeps DEF Start
<1>2. CASE Step(c)
  <2>1. CASE Enqueue(c) \/ UpdateRow(c) \/ (\E cr \in CRs : CreateRequest(c, cr))
             \/ SubmitRequest(c) \/ MarkSubmitted(c)
    BY <2>1, EnqueueKeeps, UpdateRowKeeps, CreateRequestKeeps, SubmitRequestKeeps,
       MarkSubmittedKeeps
  <2>2. CASE StoreVote(c) \/ CountVotes(c) \/ Wait(c) \/ Reject(c) \/ RequestChanges(c)
             \/ Resubmit(c) \/ Close(c) \/ SyncRejected(c) \/ WriteRejected(c)
    BY <2>2, StoreVoteKeeps, CountVotesKeeps, DecisionsKeep, CloseKeeps, SyncRejectedKeeps,
       WriteRejectedKeeps
  <2>3. CASE \E pick : LoadRows(c, pick)
    BY <2>3, LoadRowsKeeps
  <2>4. CASE ApplyChunk(c) \/ FailChunk(c) \/ ReportChunk(c) \/ PublishBatch(c) \/ Announce(c)
    BY <2>4, ApplyChunkKeeps, FailChunkKeeps, PublicationKeeps
  <2>5. CASE FindBlockers(c) \/ DeletePersons(c) \/ MarkRolledBack(c)
    BY <2>5, FindBlockersKeeps, DeletePersonsKeeps, MarkRolledBackKeeps
  <2>6. QED
    BY <1>2, <2>1, <2>2, <2>3, <2>4, <2>5, Zenon DEF Step
<1>3. QED
  BY <1>1, <1>2, DieKeeps

LEMMA NextKeeps == Inv /\ [Next]_vars => Inv'
<1> SUFFICES ASSUME Inv, [Next]_vars PROVE Inv'
  OBVIOUS
<1>1. CASE \E a \in Attempts : Parse(a) \/ ParseFails(a)
  BY <1>1, DeliverKeeps, StagesKeep, InsertRowsKeeps DEF Parse
<1>2. CASE \E c \in Calls : Start(c) \/ Step(c) \/ Die(c)
  BY <1>2, StepsKeep
<1>3. CASE \E cr \in CRs : Expire(cr)
  BY <1>3, ExpireKeeps
<1>4. CASE \E p \in person : AddDependent(p)
  BY <1>4, AddDependentKeeps
<1>5. CASE UNCHANGED vars
  BY <1>5, IdleKeeps
<1>6. QED
  BY <1>1, <1>2, <1>3, <1>4, <1>5 DEF Next

LEMMA InvHolds == Spec => []Inv
BY InitHolds, NextKeeps, PTL DEF Spec

\* ImportApplyService.apply: whatever overlaps, dies or is delivered twice, two persons
\* created by one publication for a row and for the row it names as father are linked.
THEOREM FathersStayLinked == Spec => []FathersAreLinked
<1>1. Inv => FathersAreLinked
  BY DEF Inv, ImportInv
<1>2. QED
  BY <1>1, InvHolds, PTL

\* ImportService.rollback: as long as nothing is out of order, the persons others name
\* as parent or spouse are live, so a rollback took none of them.
THEOREM RollbackSparesOthers == Spec => []NobodyLosesAParent
<1>1. Inv => NobodyLosesAParent
  BY DEF Inv, ImportInv, InOrder, NobodyLosesAParent
<1>2. QED
  BY <1>1, InvHolds, PTL

\* A published batch has exactly one person for each row that was to be created, however
\* often its file was staged.
THEOREM RowsAreImportedOnce == Spec => []ImportedExactlyOnce
<1>1. Inv => ImportedExactlyOnce
  <2>1. SUFFICES ASSUME Inv, disorder = 0, status = "published", \A c \in Calls : At(c, "idle"),
                        NEW r \in Rows
                 PROVE  LET copies == {staged[x] : x \in {y \in Copies : y[2] = r}}
                            made == Cardinality({p \in person : p.copy[2] = r})
                        IN  /\ made <= 1
                            /\ copies # {} /\ copies \subseteq
                                 [status : {"valid", "duplicate"}, decision : {"new"}] => made = 1
    BY DEF ImportedExactlyOnce
  <2>2. PICK S : S = {p \in person : p.copy[2] = r}
    OBVIOUS
  <2>3. InOrder /\ ~Somewhere({"rolledBack"})
    BY <2>1 DEF Inv, ImportInv, Somewhere, At
  <2>4. Settled /\ \A p, q \in S : p = q
    BY <2>1, <2>2, <2>3 DEF InOrder
  <2>5. S = {} => Cardinality(S) = 0
    BY FS_EmptySet
  <2>6. S # {} => Cardinality(S) = 1
    <3>1. ASSUME S # {} PROVE \E q : S = {q}
      BY <2>4, <3>1
    <3>2. QED
      BY <3>1, FS_Singleton
  <2>7. PICK copies : copies = {staged[x] : x \in {y \in Copies : y[2] = r}}
    OBVIOUS
  <2>8. copies \subseteq [status : {"valid", "duplicate"}, decision : {"new"}] => S # {}
    <3>1. ASSUME copies \subseteq [status : {"valid", "duplicate"}, decision : {"new"}],
                 NEW x \in Copies, x[2] = r
          PROVE  ToCreate(staged[x])
      <4>1. staged[x] \in [status : {"valid", "duplicate"}, decision : {"new"}]
        BY <2>7, <3>1
      <4>2. QED
        BY <4>1 DEF ToCreate
    <3>2. QED
      BY <2>1, <2>2, <2>4, <3>1 DEF Settled
  <2>9. QED
    BY <2>2, <2>5, <2>6, <2>7, <2>8
<1>2. QED
  BY <1>1, InvHolds, PTL

\* The statements of a call under way are no disorder.
LEMMA StepsInOrder == ASSUME NEW c \in Calls, Step(c) PROVE disorder' = disorder
<1>1. Steps
  BY Zenon DEF Step, Enqueue, UpdateRow, CreateRequest, SubmitRequest, MarkSubmitted, StoreVote,
     CountVotes, Wait, Reject, RequestChanges, Resubmit, Close, WriteRequest, SyncRejected,
     WriteRejected, LoadRows, ApplyChunk, FailChunk, ReportChunk, PublishBatch, Announce,
     WriteStatus, FindBlockers, DeletePersons, MarkRolledBack
<1>2. QED
  BY <1>1 DEF Steps

-----------------------------------------------------------------------------
(* The batch follows the state machine of batches *)

View == <<status, person # {}>>

\* What is known of the batch where a call is, while nothing is out of order.
LEMMA PlacesOfStatus ==
  ASSUME Inv, disorder = 0, NEW c \in Calls
  PROVE  /\ call[c].pc \in Preparing => status = "preview"
         /\ call[c].pc \in Deciding \cup Building => status = "submitted"
         /\ call[c].pc \in Deciding => person = {}
         /\ call[c].pc \in Ending \cup Undoing => status = "published"
         /\ call[c].pc = "rolledBack" => person = {}
<1>1. CASE Busy(c)
  <2>1. InOrder /\ Phase(c) /\ (Somewhere(Building) <=> call[c].pc \in Building)
    BY <1>1, OthersIdle DEF Building
  <2>2. QED
    BY <2>1 DEF Phase, InOrder, Deciding, Building, Preparing, Ending, Undoing
<1>2. CASE ~Busy(c)
  BY <1>2 DEF Busy, Deciding, Building, Preparing, Ending, Undoing
<1>3. QED
  BY <1>1, <1>2

LEMMA ReportFollows ==
  ASSUME Inv, disorder' = 0, NEW s \in {"parsing", "validating", "resolving", "preview", "failed"},
         Report(s), person' = person
  PROVE  L!Next
<1>1. status \in L!Reading /\ status' = s /\ (person' # {}) = (person # {})
  BY DEF Report, DisorderIf, L!Reading, Inv, ImportTypeOK
<1>2. CASE s \in {"parsing", "validating", "resolving"}
  BY <1>1, <1>2 DEF L!Next, L!Read, L!Move, L!Reading
<1>3. CASE s = "preview"
  BY <1>1, <1>3 DEF L!Next, L!Present, L!Move
<1>4. CASE s = "failed"
  BY <1>1, <1>4 DEF L!Next, L!Fail, L!Move
<1>5. QED
  BY <1>2, <1>3, <1>4

LEMMA CallFollows ==
  ASSUME Inv, disorder = 0, NEW c \in Calls, Step(c)
  PROVE  L!Next \/ UNCHANGED View
<1>0. /\ call[c].pc \in Preparing => status = "preview"
      /\ call[c].pc \in Deciding \cup Building => status = "submitted"
      /\ call[c].pc \in Deciding => person = {}
      /\ call[c].pc \in Ending \cup Undoing => status = "published"
      /\ call[c].pc = "rolledBack" => person = {}
  BY PlacesOfStatus
<1>1. CASE Enqueue(c) \/ UpdateRow(c) \/ (\E cr \in CRs : CreateRequest(c, cr)) \/ SubmitRequest(c)
           \/ StoreVote(c) \/ CountVotes(c) \/ Wait(c) \/ Reject(c) \/ RequestChanges(c)
           \/ Resubmit(c) \/ Close(c)
  <2>1. status' = status /\ person' = person
    BY <1>1 DEF Enqueue, UpdateRow, CreateRequest, SubmitRequest, StoreVote, CountVotes, Wait,
       Reject, RequestChanges, Resubmit, Close, WriteRequest, batchVars
  <2>2. QED
    BY <2>1 DEF View
<1>2. CASE SyncRejected(c) \/ (\E pick : LoadRows(c, pick)) \/ FailChunk(c) \/ FindBlockers(c)
  <2>1. status' = status /\ person' = person
    BY <1>2 DEF SyncRejected, LoadRows, FailChunk, FindBlockers, batchVars
  <2>2. QED
    BY <2>1 DEF View
<1>3. CASE MarkSubmitted(c)
  <2>1. call[c].pc \in Preparing /\ status' = "submitted" /\ (person' # {}) = (person # {})
    BY <1>3 DEF MarkSubmitted, At, Preparing
  <2>2. QED
    BY <1>0, <2>1 DEF L!Next, L!Submit, L!Move
<1>4. CASE WriteRejected(c)
  <2>1. call[c].pc \in Deciding /\ status' = "rejected" /\ person' = person
    BY <1>4 DEF WriteRejected, At, Deciding
  <2>2. QED
    BY <1>0, <2>1 DEF L!Next, L!Reject, L!Move
<1>5. CASE ApplyChunk(c)
  <2>1. status' = status /\ call[c].pc \in Building
    BY <1>5, ApplyEffect
  <2>2. QED
    BY <1>0, <2>1 DEF L!Next, L!Apply
<1>6. CASE ReportChunk(c)
  <2>1. call[c].pc \in Building /\ status' = "submitted" /\ person' = person
    BY <1>6 DEF ReportChunk, WriteStatus, At, Building
  <2>2. QED
    BY <1>0, <2>1 DEF View
<1>7. CASE PublishBatch(c)
  <2>1. call[c].pc \in Building /\ status' = "published" /\ (person' # {}) = (person # {})
    BY <1>7 DEF PublishBatch, WriteStatus, At, Building
  <2>2. QED
    BY <1>0, <2>1 DEF L!Next, L!Publish, L!Move
<1>8. CASE Announce(c)
  <2>1. call[c].pc \in Ending /\ status' = "published" /\ person' = person
    BY <1>8 DEF Announce, WriteStatus, At, Ending
  <2>2. QED
    BY <1>0, <2>1 DEF View
<1>9. CASE DeletePersons(c)
  <2>1. call[c].pc \in Undoing /\ status' = status /\ person' = {}
    BY <1>9 DEF DeletePersons, At, Undoing
  <2>2. QED
    BY <1>0, <2>1 DEF L!Next, L!Withdraw
<1>10. CASE MarkRolledBack(c)
  <2>1. /\ call[c].pc \in Undoing /\ call[c].pc = "rolledBack"
        /\ status' = "rolled_back" /\ person' = person
    BY <1>10 DEF MarkRolledBack, WriteStatus, At, Undoing
  <2>2. QED
    BY <1>0, <2>1 DEF L!Next, L!RollBack, L!Move
<1>11. QED
  BY <1>1, <1>2, <1>3, <1>4, <1>5, <1>6, <1>7, <1>8, <1>9, <1>10, Zenon DEF Step

LEMMA StepFollows ==
  ASSUME Inv, [Next]_vars, disorder' = 0
  PROVE  L!Next \/ UNCHANGED View
<1>1. CASE \E a \in Attempts : Parse(a) \/ ParseFails(a)
  <2>1. PICK a \in Attempts : Parse(a) \/ ParseFails(a)
    BY <1>1
  <2>2. CASE InsertRows(a)
    <3>1. status' = status /\ person' = person
      BY <2>2 DEF InsertRows
    <3>2. QED
      BY <3>1 DEF View
  <2>3. CASE ~InsertRows(a)
    <3>1. /\ person' = person
          /\ \E s \in {"parsing", "validating", "resolving", "preview", "failed"} : Report(s)
      BY <2>1, <2>3 DEF Parse, ParseFails, Deliver, Validate, Resolve, Present, ParseStage
    <3>2. QED
      BY <3>1, ReportFollows
  <2>4. QED
    BY <2>2, <2>3
<1>2. CASE \E c \in Calls : Start(c)
  <2>1. PICK c \in Calls : Start(c)
    BY <1>2
  <2>2. CASE Upload(c)
    <3>1. status = "none" /\ status' = "uploaded" /\ (person' # {}) = (person # {})
      BY <2>2 DEF Upload
    <3>2. QED
      BY <3>1 DEF L!Next, L!Upload, L!Move
  <2>3. CASE ~Upload(c)
    <3>1. UNCHANGED batchVars
      BY <2>1, <2>3, Zenon DEF Start, StartRollback, StartSubmit, StartUpdateRow, StartResubmit,
         StartReview
    <3>2. QED
      BY <3>1 DEF View, batchVars
  <2>4. QED
    BY <2>2, <2>3
<1>3. CASE \E c \in Calls : Step(c)
  <2>1. PICK c \in Calls : Step(c)
    BY <1>3
  <2>2. disorder' = disorder
    BY <2>1, StepsInOrder
  <2>3. QED
    BY <2>1, <2>2, CallFollows
<1>4. CASE \E c \in Calls : Die(c)
  BY <1>4 DEF Die, batchVars, View
<1>5. CASE \E cr \in CRs : Expire(cr)
  BY <1>5 DEF Expire, View
<1>6. CASE \E p \in person : AddDependent(p)
  BY <1>6 DEF AddDependent, View
<1>7. CASE UNCHANGED vars
  BY <1>7 DEF vars, batchVars, View
<1>8. QED
  BY <1>1, <1>2, <1>3, <1>4, <1>5, <1>6, <1>7, Zenon DEF Next

\* ImportService and ImportParseService: as long as nothing is out of order every step takes
\* the batch along the state machine of batches, and its persons come while it is submitted
\* and leave while it is published.
THEOREM BatchesFollowTheirLifecycle == Spec => FollowsLifecycle
<1>1. Inv /\ [Next]_vars => [disorder' = 0 => [L!Next]_<<status, person # {}>>]_vars
  BY StepFollows DEF View
<1>2. QED
  BY <1>1, InvHolds, PTL DEF Spec, FollowsLifecycle
==============================================================================
