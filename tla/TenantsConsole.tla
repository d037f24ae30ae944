--------------------------- MODULE TenantsConsole ---------------------------
(***************************************************************************)
(* The platform console: the list of tribes (create, suspend, activate)    *)
(* and the dialog that reads and sets the plan of one of them, over the    *)
(* API of PlatformService and SubscriptionService.                         *)
(* One dialog serves every tribe: the parent swaps its tenantId and it     *)
(* loads again when shown.  Calls are served and answered independently,   *)
(* so answers may come late, out of order or not at all.  Other super      *)
(* admins work beside it.                                                  *)
(***************************************************************************)
EXTENDS Naturals

CONSTANTS Tenants,    \* slugs of tribes
          Emails,     \* of first administrators
          Tiers,      \* plans; "free" is one of them
          Dates,      \* days on which a plan may expire
          MaxConsoleCalls,   \* calls the console makes (bound)
          OtherPlans,        \* plans other super admins set
          MaxOthers          \* tribes they create and plans they set (bound)

NoTribe == "no_tenant"
NoEmail  == "no_email"
NoDate   == "no_date"
NoTier   == "no_tier"

\* expiresAt is an instant, for which a time other than midnight stands "later".
Never    == [day |-> NoDate, time |-> "midnight"]
Instants == [day : Dates, time : {"midnight", "later"}] \cup {Never}

FreePlan == [tier |-> "free", expires |-> Never]
Plans    == [tier : Tiers, expires : Instants]

ASSUME ConsoleConstantsOK ==
  /\ Tenants # {} /\ Emails # {} /\ "free" \in Tiers
  /\ OtherPlans \subseteq Plans

\* The dialog's fields: its date has no time.
Picks == [tier : Tiers \cup {NoTier}, expires : Dates \cup {NoDate}]
toDateInput(instant) == instant.day
Date(day) == [day |-> day, time |-> "midnight"]
FieldsOf(p) == [tier |-> p.tier, expires |-> toDateInput(p.expires)]
PlanOf(f)   == [tier |-> f.tier, expires |-> Date(f.expires)]

VARIABLES
  status,      \* Tenant.status, "absent" when there is no row
  firstAdmin,  \* Tenants -> e-mail of the tribe_admin created with it
  users,       \* e-mails of users
  plan,        \* TenantSubscription, FreePlan when there is none
  rows,        \* TenantsListComponent.tenants: tenant -> shown status
  busyId,      \* its row whose buttons are disabled
  creating,    \* its saving(): a creation was sent
  managed,     \* manageTenant()
  open,        \* the dialog is visible
  picked,      \* selectedTier and expiresInput of the dialog
  saving,      \* its saving()
  calls,       \* calls under way
  made,        \* number of calls made
  otherSteps,  \* number of tribes and plans others have created or set
  current,     \* history: number of the dialog's last load(), 0 once answered
  touched,     \* history: the administrator changed a field since then
  overtaken,   \* history: another super admin set the tribe's plan since then
  disturbed    \* history: an answer met another tenant's dialog, or was lost

consoleVars == <<status, firstAdmin, users, plan, rows, busyId, creating, managed, open,
                 picked, saving, calls, made, otherSteps, current, touched, overtaken,
                 disturbed>>
server == <<status, firstAdmin, users, plan>>
list   == <<rows, busyId, creating>>
dialog == <<managed, open, picked, saving, current, touched>>
others == <<otherSteps, overtaken>>

OtherStep == otherSteps < MaxOthers /\ otherSteps' = otherSteps + 1

\* A call; p is the plan it carries or brings back, shown the list it brings back.
NewCall(op, tenant, email, p) ==
  [no |-> made + 1, op |-> op, tenant |-> tenant, email |-> email, plan |-> p,
   shown |-> [t \in Tenants |-> "absent"], stage |-> "sent"]
MakeCall(op, tenant, email, p) ==
  /\ made < MaxConsoleCalls
  /\ made' = made + 1
  /\ calls' = calls \cup {NewCall(op, tenant, email, p)}

-----------------------------------------------------------------------------
\* One tribe is there; the console has shown it.
ConsoleInit ==
  LET first == CHOOSE t \in Tenants : TRUE
      admin == CHOOSE email \in Emails : TRUE
  IN
    /\ status = [t \in Tenants |-> IF t = first THEN "active" ELSE "absent"]
    /\ firstAdmin = [t \in Tenants |-> IF t = first THEN admin ELSE NoEmail]
    /\ users = {admin}
    /\ plan = [t \in Tenants |-> FreePlan]
    /\ rows = status
    /\ busyId = NoTribe
    /\ creating = FALSE
    /\ managed = NoTribe
    /\ open = FALSE
    /\ picked = [tier |-> NoTier, expires |-> NoDate]
    /\ saving = FALSE
    /\ calls = {}
    /\ made = 0
    /\ otherSteps = 0
    /\ current = 0
    /\ touched = FALSE
    /\ overtaken = FALSE
    /\ disturbed = FALSE

-----------------------------------------------------------------------------
\* The list.

Shown(t) == rows[t] # "absent"

Save(t, email) ==                       \* the "new tribe" dialog
  /\ ~creating
  /\ creating' = TRUE
  /\ MakeCall("create", t, email, FreePlan)
  /\ UNCHANGED <<server, rows, busyId, dialog, disturbed, others>>

Suspend(t) ==
  /\ rows[t] = "active"
  /\ busyId # t
  /\ busyId' = t
  /\ MakeCall("suspend", t, NoEmail, FreePlan)
  /\ UNCHANGED <<server, rows, creating, dialog, disturbed, others>>

Activate(t) ==
  /\ rows[t] = "suspended"
  /\ busyId # t
  /\ busyId' = t
  /\ MakeCall("activate", t, NoEmail, FreePlan)
  /\ UNCHANGED <<server, rows, creating, dialog, disturbed, others>>

\* The dialog shows a tenant and asks for its plan (onShow -> load()).
OpenManage(t) ==
  /\ ~open
  /\ Shown(t)
  /\ open' = TRUE
  /\ managed' = t
  /\ current' = made + 1
  /\ touched' = FALSE
  /\ overtaken' = FALSE
  /\ MakeCall("get", t, NoEmail, FreePlan)
  /\ UNCHANGED <<server, list, picked, saving, disturbed, otherSteps>>

CloseManage ==
  /\ open
  /\ open' = FALSE
  /\ UNCHANGED <<server, list, managed, picked, saving, calls, made, current, touched, disturbed, others>>

Pick(f) ==
  /\ open
  /\ f.tier # NoTier
  /\ f # picked
  /\ picked' = f
  /\ touched' = TRUE
  /\ UNCHANGED <<server, list, managed, open, saving, calls, made, current, disturbed, others>>

\* The button needs a selected tier and no save under way; it does not wait
\* for the plan to be loaded.
SavePlan ==
  /\ open
  /\ ~saving
  /\ picked.tier # NoTier
  /\ saving' = TRUE
  /\ MakeCall("set", managed, NoEmail, PlanOf(picked))
  /\ UNCHANGED <<server, list, managed, open, picked, current, touched, disturbed, others>>

-----------------------------------------------------------------------------
\* The API.

BringBack(c, answered) == calls' = (calls \ {c}) \cup {answered}
Serve(c, stage) == BringBack(c, [c EXCEPT !.stage = stage])

\* createTenant: slug and e-mail are looked up before the password is hashed.
CheckTenant(c) ==
  /\ c.op = "create" /\ c.stage = "sent"
  /\ IF status[c.tenant] # "absent" \/ c.email \in users THEN Serve(c, "refused")
     ELSE Serve(c, "checked")
  /\ UNCHANGED <<server, list, dialog, made, disturbed, others>>

\* The transaction; the unique slug and e-mail refuse a second one.
CreateTenantWithAdmin(c) ==
  /\ c.stage = "checked"
  /\ IF status[c.tenant] # "absent" \/ c.email \in users
     THEN Serve(c, "refused") /\ UNCHANGED server
     ELSE /\ status' = [status EXCEPT ![c.tenant] = "active"]
          /\ users' = users \cup {c.email}
          /\ firstAdmin' = [firstAdmin EXCEPT ![c.tenant] = c.email]
          /\ Serve(c, "served")
          /\ UNCHANGED plan
  /\ UNCHANGED <<list, dialog, made, disturbed, others>>

SetTenantStatus(c) ==
  /\ c.op \in {"suspend", "activate"} /\ c.stage = "sent"
  /\ status' = [status EXCEPT ![c.tenant] = IF c.op = "suspend" THEN "suspended" ELSE "active"]
  /\ Serve(c, "served")
  /\ UNCHANGED <<firstAdmin, users, plan, list, dialog, made, disturbed, others>>

ListTenants(c) ==
  /\ c.op = "list" /\ c.stage = "sent"
  /\ BringBack(c, [c EXCEPT !.stage = "served", !.shown = status])
  /\ UNCHANGED <<server, list, dialog, made, disturbed, others>>

GetSubscription(c) ==
  /\ c.op = "get" /\ c.stage = "sent"
  /\ BringBack(c, [c EXCEPT !.stage = "served", !.plan = plan[c.tenant]])
  /\ UNCHANGED <<server, list, dialog, made, disturbed, others>>

\* A date that is left out is stored as null, whatever was there.
SetSubscription(c) ==
  /\ c.op = "set" /\ c.stage = "sent"
  /\ plan' = [plan EXCEPT ![c.tenant] = c.plan]
  /\ Serve(c, "served")
  /\ UNCHANGED <<status, firstAdmin, users, list, dialog, made, disturbed, others>>

\* Another super admin creates a tribe meanwhile.
OtherCreates(t, email) ==
  /\ OtherStep
  /\ status[t] = "absent"
  /\ email \notin users
  /\ status' = [status EXCEPT ![t] = "active"]
  /\ users' = users \cup {email}
  /\ firstAdmin' = [firstAdmin EXCEPT ![t] = email]
  /\ UNCHANGED <<plan, list, dialog, calls, made, overtaken, disturbed>>

\* Another super admin, or this one in another tab, sets a tribe's plan: the
\* upsert knows no version.
OtherSets(t, p) ==
  /\ OtherStep
  /\ status[t] # "absent"
  /\ plan' = [plan EXCEPT ![t] = p]
  /\ overtaken' = (overtaken \/ t = managed)
  /\ UNCHANGED <<status, firstAdmin, users, list, dialog, calls, made, disturbed>>

-----------------------------------------------------------------------------
\* The answers.

Answered(c) == c.stage \in {"served", "refused"}

\* load() after a creation: the list is asked again.
Created(c) ==
  /\ c.op = "create" /\ Answered(c)
  /\ creating' = FALSE
  /\ IF c.stage = "served"
     THEN /\ made < MaxConsoleCalls
          /\ made' = made + 1
          /\ calls' = (calls \ {c}) \cup {NewCall("list", c.tenant, NoEmail, FreePlan)}
     ELSE calls' = calls \ {c} /\ UNCHANGED made
  /\ UNCHANGED <<server, rows, busyId, dialog, disturbed, others>>

Listed(c) ==
  /\ c.op = "list" /\ Answered(c)
  /\ rows' = c.shown
  /\ calls' = calls \ {c}
  /\ UNCHANGED <<server, busyId, creating, dialog, made, disturbed, others>>

AfterStatusChange(c) ==
  /\ c.op \in {"suspend", "activate"} /\ Answered(c)
  /\ rows' = [rows EXCEPT ![c.tenant] =
                IF @ = "absent" THEN @ ELSE IF c.op = "suspend" THEN "suspended" ELSE "active"]
  /\ busyId' = NoTribe
  /\ calls' = calls \ {c}
  /\ UNCHANGED <<server, creating, dialog, made, disturbed, others>>

\* Bug: the dialog takes the tier of the answer and keeps the date it showed.
Loaded_KeepsDate(c) ==
  /\ c.op = "get" /\ Answered(c)
  /\ picked' = [picked EXCEPT !.tier = FieldsOf(c.plan).tier]
  /\ current' = IF c.no = current THEN 0 ELSE current
  /\ disturbed' = (disturbed \/ c.no # current)
  /\ calls' = calls \ {c}
  /\ UNCHANGED <<server, list, managed, open, saving, made, touched, others>>

\* The answer fills the dialog, whichever tenant it shows by now.
Loaded(c) ==
  /\ c.op = "get" /\ Answered(c)
  /\ picked' = FieldsOf(c.plan)
  /\ current' = IF c.no = current THEN 0 ELSE current
  /\ disturbed' = (disturbed \/ c.no # current)
  /\ calls' = calls \ {c}
  /\ UNCHANGED <<server, list, managed, open, saving, made, touched, others>>

\* After a save the dialog loads the plan of the tenant it shows now.
PlanSaved(c) ==
  /\ c.op = "set" /\ Answered(c)
  /\ saving' = FALSE
  /\ made < MaxConsoleCalls
  /\ made' = made + 1
  /\ calls' = (calls \ {c}) \cup {NewCall("get", managed, NoEmail, FreePlan)}
  /\ current' = made + 1
  /\ touched' = FALSE
  /\ overtaken' = FALSE
  /\ UNCHANGED <<server, list, managed, open, picked, disturbed, otherSteps>>

\* The call fails, or its answer is lost.  A failed load leaves "free" selected
\* and the date of the tenant shown before.
CallFails(c) ==
  /\ calls' = calls \ {c}
  /\ disturbed' = (disturbed \/ c.op \in {"get", "set"})
  /\ busyId' = IF c.op \in {"suspend", "activate"} THEN NoTribe ELSE busyId
  /\ creating' = (creating /\ c.op # "create")
  /\ saving' = (saving /\ c.op # "set")
  /\ picked' = IF c.op = "get" THEN [picked EXCEPT !.tier = "free"] ELSE picked
  /\ UNCHANGED <<server, rows, managed, open, made, current, touched, others>>

Console ==
  \/ \E t \in Tenants : \/ Suspend(t) \/ Activate(t) \/ OpenManage(t)
                        \/ \E email \in Emails : Save(t, email)
  \/ CloseManage \/ SavePlan
  \/ \E f \in Picks : Pick(f)

PlatformApi ==
  \/ \E c \in calls : \/ CheckTenant(c) \/ CreateTenantWithAdmin(c) \/ SetTenantStatus(c)
                      \/ ListTenants(c) \/ GetSubscription(c) \/ SetSubscription(c)
  \/ \E t \in Tenants : \/ \E email \in Emails : OtherCreates(t, email)
                        \/ \E p \in OtherPlans : OtherSets(t, p)

Answers ==
  \E c \in calls : \/ Created(c) \/ Listed(c) \/ AfterStatusChange(c)
                   \/ Loaded(c) \/ PlanSaved(c) \/ CallFails(c)

ConsoleNext == Console \/ PlatformApi \/ Answers

ConsoleSpec == ConsoleInit /\ [][ConsoleNext]_consoleVars

-----------------------------------------------------------------------------
\* What is sent from a dialog whose plan has been loaded and in which nothing
\* was changed is the tier the tribe has at the click and the day its plan
\* expires (a time of day is lost).  Unless an answer met another tribe's dialog
\* or was lost (both then send one tribe's plan, or "free" with the date of
\* another, for the tribe that is shown), or another super admin has set the plan
\* since the dialog asked for it: the save takes that back, as it does one that
\* is set between the click and the save.
UntouchedSaveKeepsPlan ==
  [][SavePlan /\ current = 0 /\ ~touched /\ ~overtaken /\ ~disturbed =>
       picked = FieldsOf(plan[managed])]_consoleVars
=============================================================================
