SPECIFICATION ServicesSpec
CONSTANTS
  \* ViewRequests
  Admins = {a, b}
  MaxUploads = 1
  MaxRequests = 2
  MaxViewers = 2
  \* NotificationBell
  MaxNotes = 2
  MaxPages = 2
  \* PushDevices
  Accounts <- DeviceAccounts
  NoAccount <- NoDeviceAccount
  MaxTokens = 2
  MaxCalls = 2
  \* PlanQuota
  Callers = {c1, c2}
  MaxPersons = 4
  \* Reputation
  Reviewers = {c1, c2}
  MaxDecisions = 3
  \* Visibility, TreeReading
  adam = adam
  eve = eve
  son = son
  aunt = aunt
  nobody = nobody
  clan = clan
  house = house
  nowhere = nowhere
  People <- Family
  NoPerson = nobody
  MotherIs <- Mothers
  Units <- FamilyUnits
  UnitIs <- UnitOf
  Women <- Wives
  Deceased <- Dead
  Minors <- Children
  NoUnit = nowhere
  Viewers <- TreeReaders
  Policies <- TreePolicies
  UnitParent <- HouseInClan
  Adults <- GrownMen
  MaxEdits = 3
  \* TenantContext
  Requests = {q1, q2}
  Tenants = {A, B}
  Tasks = {k1, k2, k3}
  Connections = {n1, n2}
  NoTenant = NoTenant
  NoRequest = NoRequest
  NoConnection = NoConnection
  \* Documents
  MaxFiles = 1
  MaxConfirms = 2
  MaxPuts = 1
  MaxLists = 2
INVARIANTS DocumentsAreWhatTheySay KeysNameObjects ViewersFollowDecisions BadgeCoversShown
INVARIANTS RowFollowsSession EveryDecisionCounts ScopedToItsTenant
INVARIANTS TreesAreComplete TighterSettingsShowLess
PROPERTIES AloneStaysWithinPlan
CHECK_DEADLOCK FALSE
