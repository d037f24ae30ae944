SPECIFICATION ScreensSpec
CONSTANTS
  \* AuthService
  Users = {u1}
  Tokens = {t1, t2, t3, t4}
  Calls = {c1, c2}
  None = None
  Operations = {"login", "refresh", "logout"}
  MaxFailed = 2
  MaxCalls = 5
  MaxFailures = 1
  \* PersonForm
  MaxVersion = 2
  MaxCreated = 2
  MaxProposals = 1
  MaxTyped = 2
  MaxSaves = 2
  \* MobileCache
  Members <- DeviceMembers
  NoMember <- NoDeviceMember
  MaxLoads = 2
  MaxSwaps = 4
  \* ScreenAccess
  Grants <- GrantedRoles
  \* TenantsConsole
  Tenants = {"a", "b"}
  Emails = {"e", "f"}
  Tiers = {"free", "gold"}
  Dates = {"d1"}
  MaxConsoleCalls = 3
  OtherPlans <- PlansElsewhere
  MaxOthers = 1
  \* ImportScreens
  MaxGets = 5
  \* RequestDetail
  Texts = {"t0", "t1"}
  MaxPages = 2
INVARIANTS OneTokenPerFamily AttemptsAreCounted CacheIsOwn
INVARIANTS ImportScreensKeepUp
PROPERTIES SavesAreMeant OffersWork UntouchedSaveKeepsPlan SubmitsWhatWasTyped
CHECK_DEADLOCK FALSE
