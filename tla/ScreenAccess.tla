---------------------------- MODULE ScreenAccess ----------------------------
(***************************************************************************)
(* What the admin web application shows a user and what the API then       *)
(* answers.  The screens are gated by the roles the client knows, the API  *)
(* by the roles that are granted; the client learns its roles from         *)
(* /auth/me only, which the route guard asks when a page is loaded with a  *)
(* stored session and no user (a reload), never after a sign-in.           *)
(* A call is <<controller, handler>> and its answer is "ok" or "refused".  *)
(* It is refused to who may not make it, when the web client never sends   *)
(* it as the API's DTOs ask for it, and when it does not go with the       *)
(* request on the screen.  What else the data of a call decides is left to *)
(* other modules: fields that are not valid, quotas, versions, and what    *)
(* others have done to the object since it was shown.                      *)
(***************************************************************************)
EXTENDS FiniteSets

CONSTANT Grants   \* the sets of roles a user may be granted in the tribe

VARIABLES
  granted,    \* roles of the user's active assignments (the server's truth)
  lapsed,     \* the session's tribe has only assignments whose validTo passed
  knownRoles,      \* AuthService._roleAssignments of the web client
  signed,     \* the client holds a user and tokens
  page,       \* the activated route
  viewed,     \* the request of the page "change-request": is it the user's own, and its status
  reached,    \* how it was reached: through the sidebar ("nav") or by its URL ("url")
  answer      \* of the last load or act: "none", "ok", "refused"

accessVars == <<granted, lapsed, knownRoles, signed, page, viewed, reached, answer>>

\* "editable" is draft or changes_requested, "active" submitted or under_review,
\* "closed" any other status but conflict.
Statuses == {"editable", "conflict", "active", "closed"}
ViewedRequests == [own : BOOLEAN, status : Statuses]
NoRequest == [own |-> TRUE, status |-> "closed"]

-----------------------------------------------------------------------------
\* The permission catalogue of the API.

Admins   == {"tribe_admin", "deputy_admin"}
WriteRoles == Admins \cup {"branch_admin"}
ReadRoles  == WriteRoles \cup {"reviewer", "contributor", "viewer"}
ContributorRoles == ReadRoles \ {"viewer"}

PermissionMatrix ==
  [person_read |-> ReadRoles, person_create |-> WriteRoles, person_update |-> WriteRoles,
   person_delete |-> Admins, union_read |-> ReadRoles, union_write |-> WriteRoles,
   tribalUnit_read |-> ReadRoles, tribalUnit_write |-> Admins, tree_read |-> ReadRoles,
   tenant_read |-> Admins, tenant_update |-> Admins, changeRequest_create |-> ReadRoles,
   changeRequest_read |-> ReadRoles, changeRequest_review |-> Admins \cup {"reviewer"},
   workflowSettings_read |-> Admins, workflowSettings_update |-> Admins,
   notification_read |-> ReadRoles, import_read |-> WriteRoles, import_create |-> WriteRoles,
   import_rollback |-> Admins, visibilitySettings_read |-> Admins,
   visibilitySettings_update |-> Admins, viewRequest_manage |-> Admins,
   document_read |-> ReadRoles, document_write |-> WriteRoles, export_read |-> ReadRoles,
   stats_read |-> Admins, reputation_read |-> ReadRoles, reputation_manage |-> Admins,
   device_manage |-> ReadRoles]

\* The controllers: the permission each handler requires.
PersonsController ==
  [list |-> "person_read", findOne |-> "person_read", ancestors |-> "person_read",
   descendants |-> "person_read", create |-> "person_create", update |-> "person_update",
   remove |-> "person_delete"]
TribalUnitsController ==
  [findAll |-> "tribalUnit_read", findOne |-> "tribalUnit_read", create |-> "tribalUnit_write",
   update |-> "tribalUnit_write", remove |-> "tribalUnit_write"]
ChangeRequestController ==
  [create |-> "changeRequest_create", list |-> "changeRequest_read",
   findOne |-> "changeRequest_read", update |-> "changeRequest_create",
   submit |-> "changeRequest_create", review |-> "changeRequest_review"]
UnionsController ==
  [findAll |-> "union_read", findOne |-> "union_read", create |-> "union_write",
   divorce |-> "union_write", widow |-> "union_write", remarry |-> "union_write"]
WorkflowSettingsController ==
  [get |-> "workflowSettings_read", update |-> "workflowSettings_update"]
VisibilitySettingsController ==
  [get |-> "visibilitySettings_read", update |-> "visibilitySettings_update"]
TenantSettingsController ==
  [get |-> "tenant_read", update |-> "tenant_update", logoUpload |-> "tenant_update"]
StatsController  == [tribe |-> "stats_read", refresh |-> "stats_read"]
ExportController ==
  [treePdf |-> "export_read", treePng |-> "export_read",
   personsXlsx |-> "export_read", personsCsv |-> "export_read"]
ReputationController ==
  [me |-> "reputation_read", list |-> "reputation_manage",
   getThresholds |-> "reputation_manage", updateThresholds |-> "reputation_manage"]
NotificationController ==
  [list |-> "notification_read", markRead |-> "notification_read",
   markAllRead |-> "notification_read"]
ImportController ==
  [template |-> "import_read", upload |-> "import_create", list |-> "import_read",
   get |-> "import_read", rows |-> "import_read", updateRow |-> "import_create",
   submit |-> "import_create", rollback |-> "import_rollback"]
ViewRequestController ==
  [list |-> "viewRequest_manage", approve |-> "viewRequest_manage",
   reject |-> "viewRequest_manage"]
DocumentController ==
  [presign |-> "document_write", confirm |-> "document_write",
   list |-> "document_read", remove |-> "document_write"]
LineageController == [getTree |-> "tree_read"]
DeviceController  == [register |-> "device_manage", deregister |-> "device_manage"]

Api == [persons |-> PersonsController, tribalUnits |-> TribalUnitsController,
        changeRequests |-> ChangeRequestController, unions |-> UnionsController,
        workflow |-> WorkflowSettingsController, visibility |-> VisibilitySettingsController,
        tenant |-> TenantSettingsController, stats |-> StatsController,
        exports |-> ExportController, reputation |-> ReputationController,
        notifications |-> NotificationController, imports |-> ImportController,
        viewRequests |-> ViewRequestController, documents |-> DocumentController,
        tree |-> LineageController, devices |-> DeviceController]

\* PolicyGuard without the unit scope, and the contribution rule of
\* ChangeRequestService.create (viewers' contributions off, as by default).
Permits(roles, call) ==
  /\ roles \cap PermissionMatrix[Api[call[1]][call[2]]] # {}
  /\ call = <<"changeRequests", "create">> => roles \cap ContributorRoles # {}

-----------------------------------------------------------------------------
\* The client: gates over the roles it knows, and the screens.

CanWrite(roles)     == roles \cap WriteRoles # {}
IsTribeAdmin(roles) == "tribe_admin" \in roles
CanReview(roles)    == "reviewer" \in roles \/ CanWrite(roles)

On(controller, handlers) == {controller} \X handlers
When(gate, calls) == IF gate THEN calls ELSE {}
Screen(loads, offers) == [loads |-> loads, offers |-> offers]

\* Bug: the delete button without its gate.
PersonsList_Ungated(r) ==
  Screen(On("persons", {"list"}), On("exports", {"personsXlsx"}) \cup On("persons", {"remove"}))

PersonsList(r) ==
  Screen(On("persons", {"list"}),
         On("exports", {"personsXlsx", "personsCsv"}) \cup When(CanWrite(r), On("persons", {"remove"})))
PersonFormScreen(r) ==
  Screen(On("persons", {"list", "findOne"}) \cup On("tribalUnits", {"findAll"}),
         IF CanWrite(r)
         THEN On("persons", {"create", "update"})
              \cup On("documents", {"list", "presign", "confirm", "remove"})
         ELSE On("changeRequests", {"create", "submit"}))
TribalUnitsScreen(r) ==
  Screen(On("tribalUnits", {"findAll"}),
         When(CanWrite(r), On("tribalUnits", {"create", "update", "remove"})))
TreeScreen(r)    == Screen(On("tree", {"getTree"}), On("exports", {"treePdf", "treePng"}))
QueueScreen(r)   == Screen(On("changeRequests", {"list"}), {})
MineScreen(r)    == Screen(On("changeRequests", {"list"}), {})
\* canOwnerEdit, which has the status conflict too, and canReviewThis.
RequestScreen(r) ==
  Screen(On("changeRequests", {"findOne"}) \cup On("persons", {"findOne"}),
         When(viewed.own /\ viewed.status \in {"editable", "conflict"},
              On("changeRequests", {"update", "submit"}))
         \cup When(CanReview(r) /\ ~viewed.own /\ viewed.status = "active",
                  On("changeRequests", {"review"})))
ImportsScreen(r) == Screen(On("imports", {"list"}), {})
WizardScreen(r)  == Screen({}, On("imports", {"template", "upload", "rows", "updateRow", "submit"}))
BatchScreen(r)   ==
  Screen(On("imports", {"get"}),
         On("imports", {"rows", "updateRow", "submit"})
         \cup When(IsTribeAdmin(r), On("imports", {"rollback"})))
SettingsScreen(r)   == Screen(On("tenant", {"get"}), When(CanWrite(r), On("tenant", {"update", "logoUpload"})))
WorkflowScreen(r)   == Screen(On("workflow", {"get"}), On("workflow", {"update"}))
VisibilityScreen(r) == Screen(On("visibility", {"get"}), On("visibility", {"update"}))
ViewersScreen(r)    == Screen(On("viewRequests", {"list"}), On("viewRequests", {"approve", "reject"}))
DashboardScreen(r)  == Screen(On("stats", {"tribe"}), {})
ContributorsScreen(r) ==
  Screen(On("reputation", {"list", "getThresholds"}), On("reputation", {"updateThresholds"}))
MyReputationScreen(r) == Screen(On("reputation", {"me"}), {})

\* The child routes of the shell; every one is behind authGuard alone.
Routes == {"persons", "person", "tribal-units", "tree", "change-requests", "change-request",
           "my-requests", "imports", "import-new", "import", "settings", "workflow-settings",
           "visibility-settings", "view-requests", "dashboard", "reputation", "my-reputation"}

ScreenOf(route, r) ==
  CASE route = "persons" -> PersonsList(r)            [] route = "person" -> PersonFormScreen(r)
    [] route = "tribal-units" -> TribalUnitsScreen(r) [] route = "tree" -> TreeScreen(r)
    [] route = "change-requests" -> QueueScreen(r)    [] route = "change-request" -> RequestScreen(r)
    [] route = "my-requests" -> MineScreen(r)         [] route = "imports" -> ImportsScreen(r)
    [] route = "import-new" -> WizardScreen(r)        [] route = "import" -> BatchScreen(r)
    [] route = "settings" -> SettingsScreen(r)        [] route = "workflow-settings" -> WorkflowScreen(r)
    [] route = "visibility-settings" -> VisibilityScreen(r)
    [] route = "view-requests" -> ViewersScreen(r)    [] route = "dashboard" -> DashboardScreen(r)
    [] route = "reputation" -> ContributorsScreen(r)  [] route = "my-reputation" -> MyReputationScreen(r)

\* The sidebar.
NavItems(r) ==
  {"persons", "tribal-units", "tree", "my-requests", "my-reputation", "settings"}
  \cup When(IsTribeAdmin(r), {"dashboard", "workflow-settings", "visibility-settings",
                              "reputation", "view-requests"})
  \cup When(CanReview(r), {"change-requests"})
  \cup When(CanWrite(r), {"imports"})

\* What the shell itself asks when it is built, and what its bell offers.
ShellLoads(r) == On("notifications", {"list"}) \cup When(IsTribeAdmin(r), On("viewRequests", {"list"}))
ShellOffers   == On("notifications", {"markRead", "markAllRead"})

\* The links from a screen to one that is not in the sidebar.
Links(route) ==
  CASE route = "persons" -> {"person"}
    [] route \in {"change-requests", "my-requests"} -> {"change-request"}
    [] route = "imports" -> {"import", "import-new"}
    [] route = "import-new" -> {"import"}
    [] OTHER -> {}

LoadsOf(route, r) == ScreenOf(route, r).loads
Offered(r) == IF page \in Routes THEN ShellOffers \cup ScreenOf(page, r).offers ELSE {}

-----------------------------------------------------------------------------
AccessInit ==
  /\ granted = {"tribe_admin"}
  /\ lapsed = FALSE
  /\ knownRoles = {}
  /\ signed = FALSE
  /\ page = "login"
  /\ viewed = NoRequest
  /\ reached = "url"
  /\ answer = "none"

\* clearSession and the way to /login.
DropSession ==
  /\ signed' = FALSE
  /\ knownRoles' = {}
  /\ page' = "login"
  /\ reached' = "url"
  /\ answer' = "none"
  /\ viewed' = NoRequest

\* The client never sends these as the ValidationPipe wants them: the tree and its
\* exports go without a rootId, the settings of the tribe with a secondaryColor.
IllFormed == On("tree", {"getTree"}) \cup On("exports", {"treePdf", "treePng"})
             \cup On("tenant", {"update"})

\* The owner's call on the request of its page, and a reviewer's.
Edits  == On("changeRequests", {"update", "submit"})
Review == <<"changeRequests", "review">>

\* ChangeRequestService: which of them go with the request.
Suits(call) ==
  page = "change-request" =>
    /\ call \in Edits => viewed.own /\ viewed.status = "editable"
    /\ call = Review => ~viewed.own /\ viewed.status = "active"

Serves(call) == Permits(granted, call) /\ call \notin IllFormed

Respond(calls) == answer' = IF \A call \in calls : Serves(call) THEN "ok" ELSE "refused"

\* A screen comes up and loads.  When the session's grant has lapsed the guard
\* answers 401, the refresh succeeds, the retry is refused again and the
\* interceptor signs out.
Land(route, how, r, calls) ==
  IF lapsed THEN DropSession
  ELSE /\ page' = route
       /\ viewed' \in (IF route = "change-request" THEN ViewedRequests ELSE {NoRequest})
       /\ reached' = how
       /\ knownRoles' = r
       /\ signed' = TRUE
       /\ Respond(calls)

\* LoginComponent.submit: the login answer sets the user and leaves the roles.
SignIn ==
  /\ ~signed
  /\ lapsed' = FALSE
  /\ page' = "persons"
  /\ reached' = "nav"
  /\ signed' = TRUE
  /\ Respond(LoadsOf("persons", knownRoles) \cup ShellLoads(knownRoles))
  /\ viewed' = NoRequest
  /\ UNCHANGED <<granted, knownRoles>>

\* A page load with stored tokens: authGuard rehydrates the roles from /auth/me.
Reload(route) ==
  /\ signed
  /\ Land(route, "url", granted, LoadsOf(route, granted) \cup ShellLoads(granted))
  /\ UNCHANGED <<granted, lapsed>>

FollowNav(route) ==
  /\ signed
  /\ route \in NavItems(knownRoles)
  /\ Land(route, "nav", knownRoles, LoadsOf(route, knownRoles))
  /\ UNCHANGED <<granted, lapsed>>

FollowLink(route) ==
  /\ signed
  /\ route \in Links(page)
  /\ Land(route, reached, knownRoles, LoadsOf(route, knownRoles))
  /\ UNCHANGED <<granted, lapsed>>

\* The request as the page shows it next: a submission leaves it with the
\* reviewers, a review may be the one that decides.
ViewedAfter(call) ==
  IF answer' = "refused" \/ page # "change-request" THEN viewed' = viewed
  ELSE CASE call = <<"changeRequests", "submit">> -> viewed' = [viewed EXCEPT !.status = "active"]
         [] call = Review -> \E s \in Statuses : viewed' = [viewed EXCEPT !.status = s]
         [] OTHER -> viewed' = viewed

\* The user presses a button the screen offers.
Act(call) ==
  /\ signed
  /\ call \in Offered(knownRoles)
  /\ IF lapsed THEN DropSession
     ELSE /\ answer' = IF Serves(call) /\ Suits(call) THEN "ok" ELSE "refused"
          /\ ViewedAfter(call)
          /\ UNCHANGED <<knownRoles, signed, page, reached>>
  /\ UNCHANGED <<granted, lapsed>>

SignOut ==
  /\ signed
  /\ DropSession
  /\ UNCHANGED <<granted, lapsed>>

\* An administrator changes the user's assignments.
ChangeGrants(roles) ==
  /\ granted' = roles
  /\ lapsed' = FALSE
  /\ UNCHANGED <<knownRoles, signed, page, viewed, reached, answer>>

\* The validTo of the user's only assignments passes.
GrantLapses ==
  /\ signed
  /\ granted # {}
  /\ granted' = {}
  /\ lapsed' = TRUE
  /\ UNCHANGED <<knownRoles, signed, page, viewed, reached, answer>>

AccessNext ==
  \/ SignIn \/ SignOut \/ GrantLapses
  \/ \E route \in Routes : Reload(route) \/ FollowNav(route) \/ FollowLink(route)
  \/ \E call \in Offered(knownRoles) : Act(call)
  \/ \E roles \in Grants : ChangeGrants(roles)

AccessSpec == AccessInit /\ [][AccessNext]_accessVars

-----------------------------------------------------------------------------
\* As long as the roles the client knows are still granted,
\*   - a screen the sidebar leads to is one the API serves: navItems agrees with
\*     the permission matrix and with every call a screen makes on its way up.
\*     /settings is an exception: the sidebar offers it to everybody, the API
\*     to two roles.  /tree is one: its load is refused to everybody.  So is who
\*     is only a guest of the tribe: the sidebar offers that role six screens,
\*     the matrix permits it nothing;
\*   - what such a screen offers is accepted (a URL opens any screen).  Left out:
\*     the calls that are ill-formed whoever makes them; the owner's calls on a
\*     request in conflict, which the screen offers and the API refuses; a branch
\*     admin, whom the client's canWrite and canReview count as an admin although
\*     the matrix does not let it delete persons, write units, review or change
\*     the tribe; and the proposals of a viewer.
OffersWork ==
  [][knownRoles \subseteq granted =>
       /\ \A route \in Routes \ {"settings", "tree"} :
            FollowNav(route) /\ granted \cap ReadRoles # {} /\ ~lapsed => answer' = "ok"
       /\ reached = "nav" /\ granted \cap ContributorRoles # {} =>
            \A call \in Offered(knownRoles) \ IllFormed :
              /\ Act(call)
              /\ ~(page = "change-request" /\ viewed.status = "conflict" /\ call \in Edits)
              /\ "branch_admin" \in knownRoles => knownRoles \cap Admins # {}
              => answer' = "ok"]_accessVars

=============================================================================
