SPECIFICATION Spec
CONSTANTS
  Persons = {p1, p2, i1}
  Imported = {i1}
  None = None
  InitialFathers <- Forests
  Operations = {"create", "refather", "gender", "delete", "rollback"}
  Handlers = {h1, h2}
  MaxVersion = 2
  MaxRequests = 3
SYMMETRY Symmetry
INVARIANTS EveryoneHasASelfRow CreatesNeedNoLock
CHECK_DEADLOCK FALSE
