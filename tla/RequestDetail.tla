---------------------------- MODULE RequestDetail ----------------------------
(***************************************************************************)
(* The page of one change request in the web client: its author edits and  *)
(* resubmits the patch there, a reviewer votes.  A page that is left does  *)
(* not cancel its calls, and whoever comes back gets a new page.  Other    *)
(* members, and other tabs, work on the same request.  The workflow itself *)
(* is modelled in ChangeRequests; here it is the patch and a status, in    *)
(* which "submitted" also stands for under_review and "closed" for         *)
(* published, rejected and expired: the page treats them alike.            *)
(***************************************************************************)
EXTENDS Naturals

CONSTANTS
  Texts,    \* contents of a patch that its rows show and give back as they are
  MaxPages  \* bound: times the page is opened

ASSUME RequestConstantsOK ==
  Texts # {} /\ Texts \cap {"foreign", "cleared"} = {} /\ MaxPages \in Nat

NoStatus == "no_status"
OWNER_EDITABLE_STATUSES == {"draft", "changes_requested"}
ACTIVE_STATUSES == {"submitted"}

VARIABLES
  crStatus, crPatch, \* the row
  owner,       \* the page's user is the author
  openPage,    \* number of the open page, 0 when it was left
  pages,       \* number of pages opened
  cr,          \* cr() of the open page: its status, NoStatus before the answer
  editRows,    \* what the editor holds
  pageCalls,   \* per page: the call under way, with what it carries
  interfered   \* history: pages during whose calls somebody else wrote the request

requestVars == <<crStatus, crPatch, owner, openPage, pages, cr, editRows, pageCalls, interfered>>
row == <<crStatus, crPatch>>
pageState == <<owner, openPage, pages, cr, editRows>>

NoPageCall == [op |-> "none"]
First == CHOOSE t \in Texts : TRUE

\* Contents the forms do not make but the API takes, and rows a user can leave:
\* a null or an object becomes a text, a cleared number becomes 0.
Patches == Texts \cup {"foreign"}
Rows    == Texts \cup {"cleared"}
buildEditRows(patch) == IF patch = "foreign" THEN First ELSE patch
rowsToPatch(rows)    == IF rows = "cleared" THEN First ELSE rows
Pages == 1..MaxPages
InFlight == {n \in Pages : pageCalls[n].op # "none"}

RequestInit ==
  /\ crStatus = "draft" /\ crPatch = First
  /\ owner = TRUE /\ openPage = 0 /\ pages = 0
  /\ cr = NoStatus /\ editRows = First
  /\ pageCalls = [n \in Pages |-> NoPageCall]
  /\ interfered = {}

-----------------------------------------------------------------------------
\* The page.  The author of a request that ended in conflict is offered the
\* editor too.
CanOwnerEdit == owner /\ cr \in OWNER_EDITABLE_STATUSES \cup {"conflict"}
CanReviewThis == ~owner /\ cr \in ACTIVE_STATUSES

\* saving(): the buttons are disabled while a call of this page is under way.
Idle(n) == n = openPage /\ n # 0 /\ pageCalls[n].op = "none"

Request(n, op, text, resubmit) ==
  pageCalls' = [pageCalls EXCEPT ![n] =
    [op |-> op, at |-> "sent", text |-> text, resubmit |-> resubmit, status |-> NoStatus]]

OpenRequest(mine) ==
  /\ openPage = 0 /\ pages < MaxPages
  /\ owner' = mine
  /\ pages' = pages + 1
  /\ openPage' = pages + 1
  /\ cr' = NoStatus
  /\ Request(pages + 1, "get", First, FALSE)
  /\ UNCHANGED <<row, editRows, interfered>>

LeaveRequest ==
  /\ openPage # 0
  /\ openPage' = 0 /\ cr' = NoStatus /\ editRows' = First
  /\ UNCHANGED <<row, owner, pages, pageCalls, interfered>>

\* The fields stay open while the page saves.
TypePatch(rows) ==
  /\ openPage # 0 /\ CanOwnerEdit
  /\ editRows' = rows
  /\ UNCHANGED <<row, owner, openPage, pages, cr, pageCalls, interfered>>

SaveDraft(n) ==
  /\ Idle(n) /\ CanOwnerEdit
  /\ Request(n, "update", rowsToPatch(editRows), FALSE)
  /\ UNCHANGED <<row, pageState, interfered>>

Resubmit_AtOnce(n) ==
  /\ Idle(n) /\ CanOwnerEdit
  /\ Request(n, "submit", rowsToPatch(editRows), TRUE)
  /\ UNCHANGED <<row, pageState, interfered>>

\* resubmit(): the edits are stored first.
Resubmit(n) ==
  /\ Idle(n) /\ CanOwnerEdit
  /\ Request(n, "update", rowsToPatch(editRows), TRUE)
  /\ UNCHANGED <<row, pageState, interfered>>

SubmitReview(n) ==
  /\ Idle(n) /\ CanReviewThis
  /\ Request(n, "review", First, FALSE)
  /\ UNCHANGED <<row, pageState, interfered>>

-----------------------------------------------------------------------------
\* The API serves a call of a page.
Served(n, ok) ==
  /\ pageCalls' = [pageCalls EXCEPT ![n].at = IF ok THEN "ok" ELSE "refused",
                                    ![n].status = crStatus',
                                    ![n].text = IF pageCalls[n].op = "get" THEN crPatch ELSE @]
  /\ UNCHANGED pageState

Sent(n, op) == pageCalls[n].op = op /\ pageCalls[n].at = "sent"

ServeRequestGet(n) ==
  /\ Sent(n, "get")
  /\ UNCHANGED <<row, interfered>>
  /\ Served(n, TRUE)

ServeUpdateCall(n) ==
  LET ok == crStatus \in OWNER_EDITABLE_STATUSES
  IN  /\ Sent(n, "update")
      /\ crPatch' = IF ok THEN pageCalls[n].text ELSE crPatch
      /\ interfered' = IF ok THEN interfered \cup (InFlight \ {n}) ELSE interfered
      /\ UNCHANGED crStatus
      /\ Served(n, ok)

ServeSubmitCall(n) ==
  LET ok == crStatus \in OWNER_EDITABLE_STATUSES
  IN  /\ Sent(n, "submit")
      /\ crStatus' = IF ok THEN "submitted" ELSE crStatus
      /\ UNCHANGED <<crPatch, interfered>>
      /\ Served(n, ok)

Outcomes == {"submitted", "conflict", "changes_requested", "closed"}

ServeReviewCall(n) ==
  /\ Sent(n, "review")
  /\ IF crStatus \in ACTIVE_STATUSES
     THEN crStatus' \in Outcomes /\ Served(n, TRUE)
     ELSE crStatus' = crStatus /\ Served(n, FALSE)
  /\ UNCHANGED <<crPatch, interfered>>

\* Other members, the author in another tab, a reviewer who may edit, the sweep.
OthersWrite(patch) ==
  /\ crStatus \in OWNER_EDITABLE_STATUSES \cup ACTIVE_STATUSES
  /\ crPatch' = patch
  /\ interfered' = interfered \cup InFlight
  /\ UNCHANGED <<crStatus, pageState, pageCalls>>

OthersMove ==
  /\ \/ crStatus \in OWNER_EDITABLE_STATUSES /\ crStatus' \in {"submitted", "closed"}
     \/ crStatus \in ACTIVE_STATUSES /\ crStatus' \in Outcomes
  /\ UNCHANGED <<crPatch, pageState, pageCalls, interfered>>

-----------------------------------------------------------------------------
\* Answers.  A page that was left still runs its callbacks.
Finished(n) ==
  /\ pageCalls' = [pageCalls EXCEPT ![n] = NoPageCall]
  /\ interfered' = interfered \ {n}

Ended(n, op, how) == pageCalls[n].op = op /\ pageCalls[n].at = how

RequestLoaded(n) ==
  /\ Ended(n, "get", "ok")
  /\ IF n = openPage
     THEN cr' = pageCalls[n].status /\ editRows' = buildEditRows(pageCalls[n].text)
     ELSE UNCHANGED <<cr, editRows>>
  /\ Finished(n)
  /\ UNCHANGED <<row, owner, openPage, pages>>

\* The row answered to an update or a review carries no reviews: the page shows
\* its status, and the list of reviews below it fails to render.
Stored(n) ==
  /\ \/ Ended(n, "update", "ok") /\ ~pageCalls[n].resubmit
     \/ Ended(n, "review", "ok")
  /\ cr' = IF n = openPage THEN pageCalls[n].status ELSE cr
  /\ Finished(n)
  /\ UNCHANGED <<row, owner, openPage, pages, editRows>>

SavedThenSubmit(n) ==
  /\ Ended(n, "update", "ok") /\ pageCalls[n].resubmit
  /\ Request(n, "submit", pageCalls[n].text, TRUE)
  /\ UNCHANGED <<row, pageState, interfered>>

\* The router leaves for /my-requests, from whatever page is open by then.
Resubmitted(n) ==
  /\ Ended(n, "submit", "ok")
  /\ openPage' = 0 /\ cr' = NoStatus /\ editRows' = First
  /\ Finished(n)
  /\ UNCHANGED <<row, owner, pages>>

\* onError, or the call or its answer is lost.
RequestFails(n) ==
  /\ pageCalls[n].op # "none"
  /\ Finished(n)
  /\ UNCHANGED <<row, pageState>>

RequestNext ==
  \/ \E mine \in BOOLEAN : OpenRequest(mine)
  \/ LeaveRequest
  \/ \E rows \in Rows : TypePatch(rows)
  \/ \E patch \in Patches : OthersWrite(patch)
  \/ OthersMove
  \/ \E n \in Pages :
       \/ SaveDraft(n) \/ Resubmit(n) \/ SubmitReview(n)
       \/ ServeRequestGet(n) \/ ServeUpdateCall(n) \/ ServeSubmitCall(n) \/ ServeReviewCall(n)
       \/ RequestLoaded(n) \/ Stored(n) \/ SavedThenSubmit(n) \/ Resubmitted(n)
       \/ RequestFails(n)

RequestSpec == RequestInit /\ [][RequestNext]_requestVars

-----------------------------------------------------------------------------
\* What is submitted from the page is what its editor held at the click, as
\* rowsToPatch makes a patch of it, unless somebody else (another tab, a page
\* left behind) wrote the request meanwhile.
SubmitsWhatWasTyped ==
  [][\A n \in Pages :
       ServeSubmitCall(n) /\ pageCalls'[n].at = "ok" /\ n \notin interfered
         => crPatch' = pageCalls[n].text]_requestVars
=============================================================================
