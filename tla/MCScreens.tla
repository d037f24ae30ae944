------------------------------ MODULE MCScreens ------------------------------
(***************************************************************************)
(* The login service and the screens, each alone under its own bounds, as  *)
(* MCServices does it for the services: every behaviour belongs to the     *)
(* component named by "active".  The others stay in their first states, so *)
(* that the run checks the components' own properties.                     *)
(***************************************************************************)
EXTENDS AuthService, PersonForm, MobileCache, ScreenAccess, TenantsConsole,
        ImportScreens, RequestDetail

VARIABLE active

-----------------------------------------------------------------------------
\* Two members of one tribe, one of them in another tribe too.
DeviceMembers == {<<"u1", "A">>, <<"u2", "A">>, <<"u1", "B">>}
NoDeviceMember == <<"none", "none">>

\* Nobody's, every single role, and two sets a tribe grants together.
GrantedRoles ==
  {{}, {"guest"}, {"reviewer", "contributor"}, {"deputy_admin", "branch_admin"}}
    \cup {{role} : role \in {"tribe_admin", "deputy_admin", "branch_admin",
                             "reviewer", "contributor", "viewer"}}

\* A plan that ends within a day, and one that does not end.
PlansElsewhere ==
  {FreePlan, [tier |-> "gold", expires |-> [day |-> "d1", time |-> "later"]]}

-----------------------------------------------------------------------------
screensVars == <<active, authVars, formVars, cacheVars, accessVars, consoleVars,
                 importVars, requestVars>>

ScreensInit ==
  /\ active \in {"auth", "form", "cache", "access", "console", "import", "request"}
  /\ AuthInit /\ FormInit /\ CacheInit /\ AccessInit /\ ConsoleInit
  /\ ImportInit /\ RequestInit

\* Nothing but the named component moves.
Only(name) ==
  /\ active = name /\ UNCHANGED active
  /\ name # "auth" => UNCHANGED authVars
  /\ name # "form" => UNCHANGED formVars
  /\ name # "cache" => UNCHANGED cacheVars
  /\ name # "access" => UNCHANGED accessVars
  /\ name # "console" => UNCHANGED consoleVars
  /\ name # "import" => UNCHANGED importVars
  /\ name # "request" => UNCHANGED requestVars

ScreensNext ==
  \/ Only("auth") /\ AuthNext
  \/ Only("form") /\ FormNext
  \/ Only("cache") /\ CacheNext
  \/ Only("access") /\ AccessNext
  \/ Only("console") /\ ConsoleNext
  \/ Only("import") /\ ImportNext
  \/ Only("request") /\ RequestNext

ScreensSpec == ScreensInit /\ [][ScreensNext]_screensVars

=============================================================================
