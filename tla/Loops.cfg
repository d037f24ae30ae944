SPECIFICATION LoopsSpec
CONSTANTS
  \* AuthService, ClientSession
  Users = {u1}
  Tokens = {t1, t2, t3, t4}
  Calls = {c1, c2}
  None = None
  Operations = {"login", "refresh", "logout"}
  MaxFailed = 2
  MaxCalls = 4
  MaxFailures = 1
  Kinds = {"web", "mobile"}
  Requests = {r1, r2}
  MaxSessions = 2
  \* ImportFile
  Labels = {1, 2, 3}
  Nobody = Nobody
  Man = Man
  Woman = Woman
  Files <- AllFiles
  \* Visibility, AccessScope
  adam = adam
  eve = eve
  son = son
  aunt = aunt
  nobody = nobody
  clan = clan
  house = house
  nowhere = nowhere
  People <- Family
  NoPerson = nobody
  MotherIs <- Mothers
  UnitIs <- UnitOf
  Women <- Wives
  Deceased <- Dead
  Minors <- Children
  Units <- FamilyUnits
  NoUnit = nowhere
  Assignments <- GuardGrants
  MaxMoves = 2
INVARIANTS FilesAreLinked GuardAgreesWithResolver
PROPERTIES LoopsEnd NeverReuses RequestsEnd
CHECK_DEADLOCK FALSE
