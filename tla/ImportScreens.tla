---------------------------- MODULE ImportScreens ----------------------------
(***************************************************************************)
(* The web screens that follow one import batch: the wizard that uploads   *)
(* it and the page of the batch.  Both learn its progress from events of   *)
(* a socket (delivered in order, lost while it is not connected) and then  *)
(* ask the API for the batch; calls are served and answered on their own.  *)
(* The batch itself is modelled in ImportBatch; here it is its status.     *)
(***************************************************************************)
EXTENDS Naturals, Sequences

CONSTANT MaxGets   \* calls that read the batch (bound)

Reading == {"uploaded", "parsing", "validating", "resolving"}   \* IMPORT_PROCESSING_STATUSES
NoBatch == "no_batch"

VARIABLES
  stage,       \* the batch's status in the database, NoBatch before the upload
  socket,      \* "closed", "opening" or "joined"
  events,      \* import_progress events under way to the client
  upload,      \* the upload call: "none", "sent", "served", "lost" or "done"
  submission,  \* a submit or rollback call: "none", "sent", "ok" or "refused"
  view,        \* "wizard", "batch" (the page of the batch) or "left"
  step,        \* of the wizard: "choose", "processing", "preview", "done"
  held,        \* the batch() signal of the view: a status or NoBatch
  failed,      \* the wizard's failed()
  gets,        \* reads of the batch under way: [no, at]; at = NoBatch until served
  asked,       \* number of reads made
  missed       \* history: an event or an answer was lost, or answers crossed

importVars == <<stage, socket, events, upload, submission, view, step, held, failed, gets, asked, missed>>
screenVars == <<view, step, held, failed>>

ImportInit ==
  /\ stage = NoBatch
  /\ socket = "closed"
  /\ events = <<>>
  /\ upload = "none"
  /\ submission = "none"
  /\ view = "wizard"
  /\ step = "choose"
  /\ held = NoBatch
  /\ failed = FALSE
  /\ gets = {}
  /\ asked = 0
  /\ missed = FALSE

-----------------------------------------------------------------------------
\* Progress events.  The status is stored first, then emitted.
Emit(s) ==
  /\ stage' = s
  /\ events' = IF socket = "joined" THEN Append(events, s) ELSE events
  /\ missed' = (missed \/ socket # "joined")

Parse ==
  /\ \E from \in Reading \cup {"preview"} :
       /\ stage = from
       /\ \/ from = "uploaded" /\ Emit("parsing")
          \/ from = "parsing" /\ Emit("validating")
          \/ from = "validating" /\ Emit("resolving")
          \/ from = "resolving" /\ Emit("preview")
          \/ from \in {"parsing", "resolving"} /\ Emit("failed")
  /\ UNCHANGED <<socket, upload, submission, screenVars, gets, asked>>

\* The change request of the batch is approved or rejected by others.
PublishBatch ==
  /\ stage = "submitted"
  /\ \/ Emit("published")
     \/ stage' = "rejected" /\ UNCHANGED <<events, missed>>
  /\ UNCHANGED <<socket, upload, submission, screenVars, gets, asked>>

HandleConnection ==
  /\ socket = "opening"
  /\ socket' = "joined"
  /\ UNCHANGED <<stage, events, upload, submission, screenVars, gets, asked, missed>>

-----------------------------------------------------------------------------
\* service.get(id): asked, served, answered or failed.
Ask ==
  /\ asked < MaxGets
  /\ asked' = asked + 1
  /\ gets' = gets \cup {[no |-> asked + 1, at |-> NoBatch]}

ServeGet(g) ==
  /\ g.at = NoBatch
  /\ gets' = (gets \ {g}) \cup {[g EXCEPT !.at = stage]}
  /\ UNCHANGED <<stage, socket, events, upload, submission, screenVars, asked, missed>>

\* Answers cross when a later read of the batch is under way or was answered.
Take(g) ==
  /\ g.at # NoBatch
  /\ gets' = gets \ {g}
  /\ missed' = (missed \/ g.no # asked)

GetFails(g) ==
  /\ gets' = gets \ {g}
  /\ missed' = TRUE
  /\ held' = IF view = "batch" THEN NoBatch ELSE held
  /\ UNCHANGED <<stage, socket, events, upload, submission, view, step, failed, asked>>

\* connect() is idempotent.
Connect == socket' = IF socket = "closed" THEN "opening" ELSE socket
Disconnect == socket' = "closed" /\ events' = <<>>

-----------------------------------------------------------------------------
\* The wizard.

StartUpload ==
  /\ view = "wizard" /\ step = "choose"
  /\ upload \in {"none", "lost"} /\ stage = NoBatch
  /\ upload' = "sent"
  /\ failed' = FALSE
  /\ Connect
  /\ UNCHANGED <<stage, events, submission, view, step, held, gets, asked, missed>>

\* The batch row is created, the parse job enqueued and the row returned.
ServeUpload ==
  /\ upload = "sent"
  /\ upload' = "served"
  /\ stage' = "uploaded"
  /\ UNCHANGED <<socket, events, submission, screenVars, gets, asked, missed>>

UploadFails ==
  /\ upload = "sent"
  /\ upload' = "lost"
  /\ UNCHANGED <<stage, socket, events, submission, screenVars, gets, asked, missed>>

UploadAnswered ==
  /\ upload = "served"
  /\ upload' = "done"
  /\ IF view = "wizard" THEN held' = "uploaded" /\ step' = "processing" ELSE UNCHANGED <<held, step>>
  /\ UNCHANGED <<stage, socket, events, submission, view, failed, gets, asked, missed>>

\* Bug: a failed parse is not told from its progress.
WizardProgress_FailedUnseen ==
  /\ view = "wizard"
  /\ events # <<>>
  /\ events' = Tail(events)
  /\ missed' = (missed \/ held = NoBatch)
  /\ IF held # NoBatch /\ Head(events) = "preview" THEN Ask ELSE UNCHANGED <<gets, asked>>
  /\ UNCHANGED <<stage, socket, upload, submission, screenVars>>

\* progress$ in the wizard: ignored until the upload's answer has set the batch.
WizardProgress ==
  /\ view = "wizard"
  /\ events # <<>>
  /\ events' = Tail(events)
  /\ missed' = (missed \/ held = NoBatch)
  /\ failed' = (failed \/ (held # NoBatch /\ Head(events) = "failed"))
  /\ IF held # NoBatch /\ Head(events) = "preview" THEN Ask ELSE UNCHANGED <<gets, asked>>
  /\ UNCHANGED <<stage, socket, upload, submission, view, step, held>>

EnterPreview(g) ==
  /\ view = "wizard"
  /\ Take(g)
  /\ held' = g.at
  /\ step' = "preview"
  /\ UNCHANGED <<stage, socket, events, upload, submission, view, failed, asked>>

\* Leaving the wizard for the page of the batch (through the list of batches).
\* The page disconnects the socket of the wizard, the constructor reads the batch.
OpenBatch ==
  /\ view = "wizard"
  /\ stage # NoBatch
  /\ upload \in {"done", "lost"}
  /\ view' = "batch"
  /\ Disconnect
  /\ held' = NoBatch
  /\ gets' = {[no |-> asked + 1, at |-> NoBatch]}
  /\ asked < MaxGets /\ asked' = asked + 1
  /\ submission' = "none"
  /\ missed' = FALSE
  /\ UNCHANGED <<stage, upload, step, failed>>

Leave ==
  /\ view # "left"
  /\ view' = "left"
  /\ Disconnect
  /\ gets' = {}
  /\ UNCHANGED <<stage, upload, submission, step, held, failed, asked, missed>>

-----------------------------------------------------------------------------
\* The page of the batch.

\* An event whose status differs from the one shown makes the page read again.
BatchProgress ==
  /\ view = "batch"
  /\ events # <<>>
  /\ events' = Tail(events)
  /\ missed' = (missed \/ held = NoBatch)
  /\ IF held # NoBatch /\ Head(events) # held THEN Ask ELSE UNCHANGED <<gets, asked>>
  /\ UNCHANGED <<stage, socket, upload, submission, screenVars>>

\* The answer of a read; a batch that is still being read opens the socket.
\* What was emitted between the read and the join is not seen (missed).
Reloaded(g) ==
  /\ view = "batch"
  /\ g.at # NoBatch
  /\ gets' = gets \ {g}
  /\ held' = g.at
  /\ IF g.at \in Reading THEN Connect ELSE UNCHANGED socket
  /\ missed' = (missed \/ g.no # asked \/ (socket # "joined" /\ g.at # stage))
  /\ UNCHANGED <<stage, events, upload, submission, view, step, failed, asked>>

-----------------------------------------------------------------------------
\* Submitting the preview (either view) and rolling back (the page).

Submit ==
  /\ \/ view = "wizard" /\ step = "preview"
     \/ view = "batch" /\ held = "preview"
  /\ submission # "sent"
  /\ submission' = "sent"
  /\ UNCHANGED <<stage, socket, events, upload, screenVars, gets, asked, missed>>

ServeSubmit ==
  /\ submission = "sent" /\ held = "preview"
  /\ \/ stage = "preview" /\ stage' = "submitted" /\ submission' = "ok"
     \/ submission' = "refused" /\ UNCHANGED stage      \* error rows, plan limit, status
  /\ UNCHANGED <<socket, events, upload, screenVars, gets, asked, missed>>

OnSubmitted ==
  /\ submission = "ok" /\ held = "preview" /\ view # "left"
  /\ submission' = "none"
  /\ held' = "submitted"
  /\ IF view = "wizard"
     THEN step' = "done" /\ Disconnect
     ELSE UNCHANGED <<step, socket, events>>
  /\ UNCHANGED <<stage, upload, view, failed, gets, asked, missed>>

\* canRollback(): a published batch; the dialog confirms first.
Rollback ==
  /\ view = "batch" /\ held = "published"
  /\ submission # "sent"
  /\ submission' = "sent"
  /\ UNCHANGED <<stage, socket, events, upload, screenVars, gets, asked, missed>>

ServeRollback ==
  /\ submission = "sent" /\ held = "published"
  /\ \/ stage = "published" /\ stage' = "rolled_back" /\ submission' = "ok"
     \/ submission' = "refused" /\ UNCHANGED stage      \* blocking records, status
  /\ UNCHANGED <<socket, events, upload, screenVars, gets, asked, missed>>

RolledBack ==
  /\ submission = "ok" /\ held = "published" /\ view # "left"
  /\ submission' = "none"
  /\ held' = "rolled_back"
  /\ UNCHANGED <<stage, socket, events, upload, view, step, failed, gets, asked, missed>>

ImportNext ==
  \/ Parse \/ PublishBatch \/ HandleConnection
  \/ StartUpload \/ ServeUpload \/ UploadFails \/ UploadAnswered
  \/ WizardProgress \/ BatchProgress \/ OpenBatch \/ Leave
  \/ \E n \in 1..MaxGets : \E g \in {x \in gets : x.no = n} :
       ServeGet(g) \/ GetFails(g) \/ EnterPreview(g) \/ Reloaded(g)
  \/ Submit \/ ServeSubmit \/ OnSubmitted \/ Rollback \/ ServeRollback \/ RolledBack

ImportSpec == ImportInit /\ [][ImportNext]_importVars

-----------------------------------------------------------------------------
\* Nothing is under way that could still change the screen.
Still == events = <<>> /\ gets = {} /\ upload # "served" /\ asked < MaxGets

\* The wizard's preview and its submit button stand over a batch that was read
\* after its rows were final, never over the one the upload returned.
PreviewIsOfAReadBatch ==
  view = "wizard" /\ step = "preview" => held \notin Reading \cup {NoBatch}

\* The screens do not stop behind the batch: when nothing is under way and
\* nothing was missed, a parse that ended has moved the wizard to the preview
\* or shows as failed, and the page of the batch no longer shows it as being
\* read.  What is missed (an event before the upload's answer, before the join
\* or while disconnected) leaves either screen waiting for ever.
ScreensKeepUp ==
  Still /\ ~missed /\ upload = "done" =>
    /\ view = "wizard" /\ step = "processing" /\ stage = "failed" => failed
    /\ view = "wizard" /\ step = "processing" => stage \in Reading \cup {"failed"}
    /\ view = "batch" /\ held \in Reading => stage \in Reading

\* Both: the screens show the batch as it was read and do not stop behind it.
ImportScreensKeepUp == PreviewIsOfAReadBatch /\ ScreensKeepUp
=============================================================================
