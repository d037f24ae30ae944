------------------------------- MODULE PersonForm -------------------------------
(***************************************************************************)
(* The person form of the admin client                                     *)
(* (features/persons/person-form.component.ts, core/util/person-patch.ts)  *)
(* against PersonsService: it loads a person and, in calls of their own,   *)
(* the parents it shows; it is filled in meanwhile; it saves directly with *)
(* the version it loaded, or, for members who may not write, as a change   *)
(* request that is created and then submitted.                             *)
(***************************************************************************)
EXTENDS Integers, FiniteSets

CONSTANTS
  MaxVersion,   \* bound: updates of the person
  MaxCreated,   \* bound: persons created
  MaxProposals, \* bound: change requests created
  MaxTyped,     \* bound: values typed
  MaxSaves      \* bound: saves under way at once

VARIABLES
  personRow,   \* the person being edited, with its version
  similar,     \* persons the form has created, or a similar one it did not
  unconfirmed, \* of these, created without confirmDuplicate
  crossed,     \* history: two creations without it have searched before either inserted
  proposals,   \* change requests created by the form
  screen,      \* mode, canWrite, loading, saving, showDuplicates
  original, versionHeld,
  form,        \* values of the form; Empty for a blank one
  typed,       \* fields whose value was typed and not replaced since
  keys,        \* counter behind MaxTyped
  parentCall,  \* hydrateParent: "none", "sent", "done" or "failed", and whom
  saves,       \* calls that save, under way at the client or at the API
  waiting      \* the one the form waits for; 0 is none

formVars == <<personRow, similar, unconfirmed, crossed, proposals, screen, original,
              versionHeld, form, typed, keys, parentCall, saves, waiting>>
serverSide == <<personRow, similar, unconfirmed, crossed, proposals>>
calling == <<saves, waiting>>

\* One field per way a field behaves: required, optional text, a choice with a
\* preset value, a field that counts only under such a choice, a parent.
Fields == {"firstName", "biography", "isDeceased", "deathDate", "fatherId"}
Empty == 0
Unticked == 1
Ticked == 2
Values(f) == CASE f = "isDeceased" -> {Unticked, Ticked}
               [] f \in {"biography", "deathDate"} -> 0..1
               [] OTHER -> 0..2
Blank == [f \in Fields |-> IF f = "isDeceased" THEN Unticked ELSE Empty]
NoDto == [f \in {} |-> Empty]
SaveIds == 1..MaxSaves
NoSave == [pc |-> "none", kind |-> "none", mode |-> "closed", dto |-> NoDto, version |-> 0,
           patch |-> {}, typed |-> {}, ticked |-> FALSE, sure |-> FALSE, confirm |-> FALSE,
           answer |-> "none"]

FormInit ==
  /\ personRow = [firstName |-> 1, biography |-> 1, isDeceased |-> Ticked, deathDate |-> 1,
                   fatherId |-> 1, version |-> 1]
  /\ similar = 0 /\ unconfirmed = 0 /\ crossed = FALSE /\ proposals = {}
  /\ screen = [mode |-> "closed", canWrite |-> FALSE, loading |-> "none",
               saving |-> FALSE, showDuplicates |-> FALSE]
  /\ original = NoDto /\ versionHeld = 0
  /\ form = Blank /\ typed = {} /\ keys = 0
  /\ parentCall = [pc |-> "none", id |-> Empty]
  /\ saves = [n \in SaveIds |-> NoSave] /\ waiting = 0

\* Somebody else updates the person, or creates one like the one typed here.
OthersUpdate(f, v) ==
  /\ screen.mode = "edit" /\ personRow.version < MaxVersion /\ personRow[f] # v
  /\ f = "firstName" => v # Empty
  /\ personRow' = [personRow EXCEPT ![f] = v, !.version = @ + 1]
  /\ UNCHANGED <<similar, unconfirmed, crossed, proposals, screen, original, versionHeld,
                 form, typed, keys, parentCall, calling>>

\* A creation whose search has found nobody and that has not inserted yet.
Searched(n) == saves[n].pc = "insert" /\ ~saves[n].confirm

OthersCreate ==
  /\ screen.mode = "new" /\ similar = 0 /\ similar' = 1 /\ unconfirmed' = 1
  /\ crossed' = (crossed \/ \E n \in SaveIds : Searched(n))
  /\ UNCHANGED <<personRow, proposals, screen, original, versionHeld,
                 form, typed, keys, parentCall, calling>>

-----------------------------------------------------------------------------
(* Opening, loading, typing *)

OpenForm(mode, canWrite) ==
  /\ screen.mode = "closed"
  /\ screen' = [screen EXCEPT !.mode = mode, !.canWrite = canWrite,
                              !.loading = IF mode = "edit" THEN "sent" ELSE "none"]
  /\ UNCHANGED <<serverSide, original, versionHeld, form, typed, keys, parentCall, calling>>

\* loadPerson: patchValue replaces what was typed before, but for the parents.
PersonLoaded ==
  /\ screen.loading = "sent" /\ screen.mode = "edit"
  /\ screen' = [screen EXCEPT !.loading = "done"]
  /\ versionHeld' = personRow.version
  /\ original' = [f \in Fields |-> personRow[f]]
  /\ form' = [f \in Fields |-> IF f = "fatherId" THEN form[f] ELSE personRow[f]]
  /\ typed' = typed \cap {"fatherId"}
  /\ parentCall' = IF personRow.fatherId = Empty THEN [parentCall EXCEPT !.pc = "done"]
                   ELSE [pc |-> "sent", id |-> personRow.fatherId]
  /\ UNCHANGED <<serverSide, keys, calling>>

LoadFails ==
  /\ screen.loading = "sent" /\ screen.mode = "edit"
  /\ screen' = [screen EXCEPT !.loading = "failed"]
  /\ UNCHANGED <<serverSide, original, versionHeld, form, typed, keys, parentCall, calling>>

\* hydrateParent: the answer replaces a parent chosen meanwhile; a failure, such
\* as a father the caller may not see, leaves the field blank.
ParentAnswers(found) ==
  /\ parentCall.pc = "sent" /\ screen.mode = "edit"
  /\ parentCall' = [parentCall EXCEPT !.pc = IF found THEN "done" ELSE "failed"]
  /\ IF found THEN /\ form' = [form EXCEPT !.fatherId = parentCall.id]
                   /\ typed' = typed \ {"fatherId"}
              ELSE UNCHANGED <<form, typed>>
  /\ UNCHANGED <<serverSide, screen, original, versionHeld, keys, calling>>

TypeInto(f, v) ==
  /\ screen.mode \in {"new", "edit"} /\ ~screen.showDuplicates /\ form[f] # v
  /\ f = "deathDate" => form["isDeceased"] = Ticked
  /\ keys < MaxTyped /\ keys' = keys + 1
  /\ form' = [form EXCEPT ![f] = v] /\ typed' = typed \cup {f}
  /\ UNCHANGED <<serverSide, screen, original, versionHeld, parentCall, calling>>

-----------------------------------------------------------------------------
(* Saving *)

\* Mutant: blank fields are sent as blank instead of left out.
buildDto_SendsBlanks == form

\* Blank fields are undefined, and so are not sent; nor is the date of death of
\* somebody whose box is not ticked.
buildDto ==
  [f \in {g \in Fields : form[g] # Empty /\ (g = "deathDate" => form["isDeceased"] = Ticked)}
     |-> form[f]]

\* The fields that differ: a value that is new, or a removal.
buildUpdatePatch(before, dto) ==
  LET prev(f) == IF f \in DOMAIN before THEN before[f] ELSE Empty
      next(f) == IF f \in DOMAIN dto THEN dto[f] ELSE Empty
  IN {[op |-> IF next(f) = Empty THEN "remove" ELSE "replace", field |-> f] :
        f \in {g \in Fields : prev(g) # next(g)}}

buildCreatePatch(dto) == {[op |-> "add", field |-> f] : f \in DOMAIN dto}

Send(c) ==
  /\ \E n \in SaveIds : /\ saves[n].pc = "none" /\ \A m \in 1..n-1 : saves[m].pc # "none"
                       /\ saves' = [saves EXCEPT ![n] = c] /\ waiting' = n
  /\ screen' = [screen EXCEPT !.saving = TRUE, !.showDuplicates = FALSE]
  /\ UNCHANGED <<serverSide, original, versionHeld, form, typed, keys, parentCall>>

\* The submit button is disabled while the form is invalid or saving; a dialog
\* that is open covers it.
CanSubmit == /\ screen.mode \in {"new", "edit"} /\ ~screen.saving /\ ~screen.showDuplicates
             /\ form["firstName"] # Empty

doUpdate ==
  /\ CanSubmit /\ screen.canWrite /\ screen.mode = "edit"
  /\ Send([NoSave EXCEPT !.pc = "sent", !.kind = "update", !.dto = buildDto,
                         !.version = versionHeld, !.typed = typed])

Creating(confirm) == [NoSave EXCEPT !.pc = "sent", !.kind = "create", !.confirm = confirm]
doCreate == CanSubmit /\ screen.canWrite /\ screen.mode = "new" /\ Send(Creating(FALSE))
confirmDuplicateCreate == screen.showDuplicates /\ Send(Creating(TRUE))

submitAsChangeRequest ==
  LET patch == IF screen.mode = "edit" THEN buildUpdatePatch(original, buildDto)
               ELSE buildCreatePatch(buildDto)
  IN /\ CanSubmit /\ ~screen.canWrite /\ patch # {}
     /\ Send([NoSave EXCEPT !.pc = "sent", !.kind = "propose", !.mode = screen.mode,
                            !.patch = patch, !.typed = typed,
                            !.ticked = form["isDeceased"] = Ticked,
                            !.sure = screen.loading = "done" /\ parentCall.pc = "done"])

cancelDuplicates ==
  /\ screen.showDuplicates /\ screen' = [screen EXCEPT !.showDuplicates = FALSE]
  /\ UNCHANGED <<serverSide, original, versionHeld, form, typed, keys, parentCall, calling>>

ClientWaits == UNCHANGED <<screen, original, versionHeld, form, typed, keys, parentCall, waiting>>

\* Nobody hears the answer to a call the form has given up.
Answering(n, a) ==
  saves' = [saves EXCEPT ![n] = IF waiting = n THEN [@ EXCEPT !.pc = "answered", !.answer = a]
                                ELSE NoSave]

\* PersonsService.update: the fields sent, if the version is still the same.
ServeUpdate(n) ==
  LET d == saves[n].dto IN
  /\ saves[n].pc = "sent" /\ saves[n].kind = "update"
  /\ IF saves[n].version = personRow.version /\ personRow.version < MaxVersion
       THEN /\ personRow' = [f \in DOMAIN personRow |->
                 IF f = "version" THEN personRow.version + 1
                 ELSE IF f \in DOMAIN d THEN d[f] ELSE personRow[f]]
            /\ Answering(n, "ok")
       ELSE UNCHANGED personRow /\ Answering(n, "refused")
  /\ UNCHANGED <<similar, unconfirmed, crossed, proposals>> /\ ClientWaits

\* createInTx: similar persons are an answer, unless creation was confirmed.  What
\* other transactions insert after the search is not seen.
FindDuplicates(n) ==
  /\ saves[n].pc = "sent" /\ saves[n].kind = "create"
  /\ IF similar > 0 /\ ~saves[n].confirm
       THEN Answering(n, "duplicates") /\ UNCHANGED crossed
       ELSE /\ saves' = [saves EXCEPT ![n].pc = "insert"]
            /\ crossed' = (crossed \/ (~saves[n].confirm /\ \E m \in SaveIds : Searched(m)))
  /\ UNCHANGED <<personRow, similar, unconfirmed, proposals>> /\ ClientWaits

InsertPerson(n) ==
  /\ saves[n].pc = "insert" /\ similar < MaxCreated /\ similar' = similar + 1
  /\ unconfirmed' = unconfirmed + (IF saves[n].confirm THEN 0 ELSE 1)
  /\ Answering(n, "ok")
  /\ UNCHANGED <<personRow, crossed, proposals>> /\ ClientWaits

ServePropose(n) ==
  LET c == saves[n] IN
  /\ c.pc = "sent" /\ c.kind = "propose" /\ Cardinality(proposals) < MaxProposals
  /\ proposals' = proposals \cup {[id |-> Cardinality(proposals) + 1, mode |-> c.mode,
                                   patch |-> c.patch, typed |-> c.typed,
                                   ticked |-> c.ticked, sure |-> c.sure]}
  /\ Answering(n, "created")
  /\ UNCHANGED <<personRow, similar, unconfirmed, crossed>> /\ ClientWaits

\* What the form waits for has been answered.
Heard(n, a) == waiting = n /\ saves[n].pc = "answered" /\ saves[n].answer = a

\* The answer to create, upon which the request is submitted: a second call,
\* which may fail and leave the draft behind.
ProposalCreated(n) ==
  /\ Heard(n, "created")
  /\ saves' = [saves EXCEPT ![n].kind = "submit", ![n].answer = "ok"]
  /\ UNCHANGED serverSide /\ ClientWaits

\* onSaved leaves the form; it is looked at once.
Saved(n) ==
  /\ Heard(n, "ok") /\ saves' = [saves EXCEPT ![n] = NoSave] /\ waiting' = 0
  /\ screen' = [screen EXCEPT !.saving = FALSE, !.mode = "left"]
  /\ form' = Blank /\ typed' = {} /\ original' = NoDto /\ versionHeld' = 0
  /\ parentCall' = [pc |-> "none", id |-> Empty]
  /\ UNCHANGED <<serverSide, keys>>

\* A refusal, an answer that is lost, or a connection that breaks while the API
\* still works on the call: the form stays as it is and can be submitted again.
SaveFails(n) ==
  /\ waiting = n /\ waiting' = 0
  /\ saves' = IF saves[n].pc = "answered" THEN [saves EXCEPT ![n] = NoSave] ELSE saves
  /\ screen' = [screen EXCEPT !.saving = FALSE]
  /\ UNCHANGED <<serverSide, original, versionHeld, form, typed, keys, parentCall>>

DuplicatesFound(n) ==
  /\ Heard(n, "duplicates") /\ saves' = [saves EXCEPT ![n] = NoSave] /\ waiting' = 0
  /\ screen' = [screen EXCEPT !.saving = FALSE, !.showDuplicates = TRUE]
  /\ UNCHANGED <<serverSide, original, versionHeld, form, typed, keys, parentCall>>

SaveNext(n) ==
  \/ ServeUpdate(n) \/ FindDuplicates(n) \/ InsertPerson(n) \/ ServePropose(n)
  \/ ProposalCreated(n) \/ Saved(n) \/ SaveFails(n) \/ DuplicatesFound(n)

FormNext ==
  \/ \E f \in Fields : \E v \in Values(f) : OthersUpdate(f, v) \/ TypeInto(f, v)
  \/ OthersCreate
  \/ \E mode \in {"new", "edit"}, w \in BOOLEAN : OpenForm(mode, w)
  \/ PersonLoaded \/ LoadFails
  \/ \E found \in BOOLEAN : ParentAnswers(found)
  \/ doUpdate \/ doCreate \/ confirmDuplicateCreate \/ submitAsChangeRequest
  \/ cancelDuplicates
  \/ \E n \in SaveIds : SaveNext(n)

FormSpec == FormInit /\ [][FormNext]_formVars

-----------------------------------------------------------------------------
\* What a save does was meant:
\*   - an update changes only fields its user typed, whatever was still being
\*     loaded, had failed to load or was changed by others meanwhile, and even if
\*     the form had given it up;
\*   - once the person and its parents have been loaded, a proposal touches only
\*     fields its author typed, but for one: while the box "deceased" is not ticked
\*     it removes a stored date of death that nobody looked at;
\*   - answers may be lost and creations repeated, but a second person like the
\*     first exists only if somebody confirmed it, or if two creations searched
\*     before either had inserted.
SavesAreMeant ==
  [][/\ \A f \in Fields, n \in SaveIds :
         ServeUpdate(n) /\ personRow'[f] # personRow[f] => f \in saves[n].typed
     /\ \A p \in proposals' : p.mode = "edit" /\ p.sure =>
          \A op \in p.patch : \/ op.field \in p.typed
                              \/ ~p.ticked /\ op = [op |-> "remove", field |-> "deathDate"]
     /\ (crossed' \/ unconfirmed' <= 1)]_formVars
=============================================================================
