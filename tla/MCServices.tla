------------------------------ MODULE MCServices ------------------------------
(***************************************************************************)
(* The services of the API that share no state with each other, each alone *)
(* under its own bounds: a run explores several side by side, and every    *)
(* behaviour belongs to the one named by "active".                         *)
(***************************************************************************)
EXTENDS MCFamily, ViewRequests, NotificationBell, PushDevices, PlanQuota,
        Reputation, TreeReading, TenantContext, Documents

VARIABLE active

-----------------------------------------------------------------------------
TreeReaders ==
  {{},
   {Grant("admin", nowhere, "default", nobody)},
   {Grant("branch_admin", clan, "default", nobody)},
   {Grant("member", nowhere, "default", eve)},
   {Grant("member", clan, "branch", nobody), Grant("member", nowhere, "direct", son)}}

Policy(women, deceased, scope) ==
  [level |-> "members", women |-> women, photos |-> TRUE, birthDates |-> TRUE,
   deceased |-> deceased, minors |-> TRUE, defaultScope |-> scope]

TreePolicies ==
  {Policy("shown", TRUE, "tribe"), Policy("hidden", TRUE, "tribe"),
   Policy("shown", FALSE, "direct"), Policy("shown", TRUE, "branch")}

\* Two members of one tribe, one of them in another tribe too.
DeviceAccounts == {<<"u1", "A">>, <<"u2", "A">>, <<"u1", "B">>}
NoDeviceAccount == <<"none", "none">>

-----------------------------------------------------------------------------
serviceVars == <<active, viewVars, bellVars, deviceVars, planVars, repVars,
                 treeVars, tenantVars, documentVars>>

ServicesInit ==
  /\ active \in {"view", "bell", "device", "plan", "reputation", "tree", "tenant", "document"}
  /\ ViewInit /\ BellInit /\ DeviceInit /\ PlanInit /\ RepInit /\ TreeInit
  /\ TenantInit /\ DocumentInit

\* Nothing but the named component moves.
Only(name) ==
  /\ active = name /\ UNCHANGED active
  /\ name # "view" => UNCHANGED viewVars
  /\ name # "bell" => UNCHANGED bellVars
  /\ name # "device" => UNCHANGED deviceVars
  /\ name # "plan" => UNCHANGED planVars
  /\ name # "reputation" => UNCHANGED repVars
  /\ name # "tree" => UNCHANGED treeVars
  /\ name # "tenant" => UNCHANGED tenantVars
  /\ name # "document" => UNCHANGED documentVars

ServicesNext ==
  \/ Only("view") /\ ViewNext
  \/ Only("bell") /\ BellNext
  \/ Only("device") /\ DeviceNext
  \/ Only("plan") /\ PlanNext
  \/ Only("reputation") /\ RepNext
  \/ Only("tree") /\ TreeNext
  \/ Only("tenant") /\ TenantNext
  \/ Only("document") /\ DocumentNext

ServicesSpec == ServicesInit /\ [][ServicesNext]_serviceVars

\* A component that is not active stays in its first state, so that the run
\* checks the components' own properties.
=============================================================================
