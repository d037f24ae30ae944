----------------------------- MODULE ViewRequests -----------------------------
(***************************************************************************)
(* Requests of non-members to see the tree (modules/view-requests): the    *)
(* public form with its identity document, the streaming of the document   *)
(* to the object store, and the administrators' decisions, which read the  *)
(* request, create a viewer and write the status in three statements.      *)
(***************************************************************************)
EXTENDS Integers, Sequences, FiniteSets

CONSTANTS
  Admins,     \* calls of administrators in flight
  MaxUploads,  \* bound: uploads begun
  MaxRequests, \* bound: requests stored
  MaxViewers   \* bound: viewers created

VARIABLES
  needsId,   \* requireIdForViewRequest
  form,      \* the public form
  upload,    \* the request whose body is being streamed
  stored,    \* keys of the object store
  viewReq,   \* view_requests: key |-> row
  viewers,   \* users created, each with a role assignment
  decisions, \* call of each administrator
  disturbed  \* requests decided by two calls at once, or by one that died

viewVars == <<needsId, form, upload, stored, viewReq, viewers, decisions, disturbed>>

NoKey == 0
NoUpload == [pc |-> "none", kind |-> "ok", large |-> FALSE, ended |-> FALSE,
             slugFirst |-> FALSE, slug |-> FALSE, put |-> "no"]
NoCall == [pc |-> "idle", approve |-> FALSE, of |-> 0, viewer |-> 0]

ViewInit ==
  /\ needsId = FALSE
  /\ form = [pc |-> "edit", key |-> NoKey, uploads |-> 0]
  /\ upload = NoUpload
  /\ stored = {}
  /\ viewReq = <<>>
  /\ viewers = {}
  /\ decisions = [a \in Admins |-> NoCall]
  /\ disturbed = {}

\* visibility settings are edited elsewhere
ChangeSettings ==
  /\ needsId' = ~needsId
  /\ UNCHANGED <<form, upload, stored, viewReq, viewers, decisions, disturbed>>

-----------------------------------------------------------------------------
(* public-view-request.component.ts, id-upload.util.ts *)

FormUnchanged == UNCHANGED <<needsId, viewReq, viewers, decisions, disturbed>>

\* submit: a chosen file goes first.  slugFirst: in the multipart body the slug
\* comes before the file, which is not how uploadIdAttachment builds it.
SubmitForm(withFile, kind, large, slugFirst) ==
  /\ form.pc = "edit"
  /\ IF withFile
       THEN /\ form.uploads < MaxUploads
            /\ form' = [form EXCEPT !.pc = "upload", !.uploads = @ + 1]
            /\ upload' = [NoUpload EXCEPT !.pc = "body", !.kind = kind, !.large = large,
                                          !.slugFirst = slugFirst, !.slug = slugFirst]
       ELSE form' = [form EXCEPT !.pc = "create", !.key = NoKey] /\ UNCHANGED upload
  /\ UNCHANGED stored /\ FormUnchanged

\* fail and onError; the first outcome of an upload is the answer.
Refuse ==
  /\ form' = [form EXCEPT !.pc = "edit"]
  /\ upload' = NoUpload

\* detectAttachment on the first chunk; without any data there is no file.
FirstChunk ==
  /\ upload.pc = "body" /\ upload.put = "no" /\ ~upload.ended
  /\ IF upload.kind = "ok"
       THEN upload' = [upload EXCEPT !.put = "going"] /\ UNCHANGED form
       ELSE Refuse
  /\ UNCHANGED stored /\ FormUnchanged

\* Mutant: the stream to the store is left open at the limit.
EndOfFile_KeepsPut ==
  /\ upload.put = "going" /\ ~upload.ended
  /\ upload' = [upload EXCEPT !.ended = TRUE]
  /\ UNCHANGED <<form, stored>> /\ FormUnchanged

\* The end of the file, or the limit, which destroys the stream to the store.
EndOfFile ==
  /\ upload.put = "going" /\ ~upload.ended
  /\ IF upload.large THEN Refuse
     ELSE upload' = [upload EXCEPT !.ended = TRUE] /\ UNCHANGED form
  /\ UNCHANGED stored /\ FormUnchanged

SlugField ==
  /\ upload.ended /\ upload.pc = "body" /\ ~upload.slug
  /\ upload' = [upload EXCEPT !.slug = TRUE]
  /\ UNCHANGED <<form, stored>> /\ FormUnchanged

\* putStream resolves; uploadIdAttachment removes the object without a slug.
PutEnds ==
  /\ upload.put = "going" /\ upload.ended
  /\ IF upload.slug
       THEN /\ stored' = stored \cup {[key |-> form.uploads, kind |-> upload.kind,
                                       large |-> upload.large]}
            /\ form' = [form EXCEPT !.pc = "create", !.key = form.uploads]
            /\ upload' = NoUpload
       ELSE Refuse /\ UNCHANGED stored
  /\ FormUnchanged

PutFails ==
  /\ upload.put = "going" /\ Refuse
  /\ UNCHANGED stored /\ FormUnchanged

\* create; notifyMany runs after the row is written, and when it throws the
\* form shows an error and can be sent again.
Create(notified) ==
  /\ form.pc = "create" /\ Len(viewReq) < MaxRequests
  /\ IF needsId /\ form.key = NoKey
       THEN UNCHANGED viewReq /\ form' = [form EXCEPT !.pc = "edit"]
       ELSE /\ viewReq' = Append(viewReq, [status |-> "pending", key |-> form.key,
                                            viewer |-> 0])
            /\ form' = [form EXCEPT !.pc = IF notified THEN "done" ELSE "edit"]
  /\ UNCHANGED <<needsId, upload, stored, viewers, decisions, disturbed>>
-----------------------------------------------------------------------------
(* view-request.service.ts: approve and reject *)

DecideUnchanged == UNCHANGED <<needsId, form, upload, stored>>
Pending(r) == viewReq[r].status = "pending"
Deciding(r) == {a \in Admins : decisions[a].pc # "idle" /\ decisions[a].of = r}

Start(a, r, approve) ==
  /\ decisions' = [decisions EXCEPT ![a] =
       [pc |-> IF approve THEN "grant" ELSE "write", approve |-> approve,
        of |-> r, viewer |-> 0]]
  /\ disturbed' = IF Deciding(r) # {} THEN disturbed \cup {r} ELSE disturbed
  /\ UNCHANGED <<viewReq, viewers>> /\ DecideUnchanged

\* Mutant: the status is not looked at.
StartDecision_AnyStatus(a, r, approve) ==
  decisions[a].pc = "idle" /\ Start(a, r, approve)

\* getPending
StartDecision(a, r, approve) ==
  decisions[a].pc = "idle" /\ Pending(r) /\ Start(a, r, approve)

\* grantViewer, one transaction.
GrantViewer(a) ==
  LET v == Cardinality(viewers) + 1
  IN /\ decisions[a].pc = "grant" /\ v <= MaxViewers
     /\ viewers' = viewers \cup {[id |-> v, of |-> decisions[a].of]}
     /\ decisions' = [decisions EXCEPT ![a].pc = "write", ![a].viewer = v]
     /\ UNCHANGED <<viewReq, disturbed>> /\ DecideUnchanged

\* The update is by id; reject leaves grantedUserId as it is.
WriteDecision(a) ==
  LET r == decisions[a].of
  IN /\ decisions[a].pc = "write"
     /\ viewReq' = IF decisions[a].approve
                     THEN [viewReq EXCEPT ![r].status = "approved",
                                          ![r].viewer = decisions[a].viewer]
                     ELSE [viewReq EXCEPT ![r].status = "rejected"]
     /\ decisions' = [decisions EXCEPT ![a] = NoCall]
     /\ UNCHANGED <<viewers, disturbed>> /\ DecideUnchanged

\* A statement that fails, or the process stops.
DecisionDies(a) ==
  /\ decisions[a].pc # "idle"
  /\ disturbed' = disturbed \cup {decisions[a].of}
  /\ decisions' = [decisions EXCEPT ![a] = NoCall]
  /\ UNCHANGED <<viewReq, viewers>> /\ DecideUnchanged

ViewNext ==
  \/ ChangeSettings
  \/ \E withFile, large, slugFirst \in BOOLEAN, kind \in {"ok", "refused"} :
       SubmitForm(withFile, kind, large, slugFirst)
  \/ FirstChunk \/ EndOfFile \/ SlugField \/ PutEnds \/ PutFails
  \/ \E notified \in BOOLEAN : Create(notified)
  \/ \E a \in Admins :
       \/ \E r \in DOMAIN viewReq, approve \in BOOLEAN : StartDecision(a, r, approve)
       \/ GrantViewer(a) \/ WriteDecision(a) \/ DecisionDies(a)

ViewSpec == ViewInit /\ [][ViewNext]_viewVars

-----------------------------------------------------------------------------
\* A key on a request names an object that the store holds, of a kind and a
\* size that are allowed, whichever of chunk, limit, slug and end of the put
\* comes first.
KeysNameObjects ==
  \A r \in DOMAIN viewReq : viewReq[r].key # NoKey =>
    \E o \in stored : o.key = viewReq[r].key /\ o.kind = "ok" /\ ~o.large

\* Unless two administrators decided a request at the same time or a decision
\* died half way, it has a viewer exactly if it is approved, the one it names:
\* no second decision changes the first one or leaves a viewer behind.
ViewersFollowDecisions ==
  \A r \in DOMAIN viewReq : r \notin disturbed /\ Deciding(r) = {} =>
    {v.id : v \in {w \in viewers : w.of = r}} =
      IF viewReq[r].status = "approved" THEN {viewReq[r].viewer} ELSE {}
=============================================================================
