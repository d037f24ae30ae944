SPECIFICATION Spec
CONSTANTS
  Persons = {p1, p2, p3, i1}
  Imported = {i1}
  None = None
  InitialFathers <- Roots
  Operations = {"create", "refather", "delete", "rollback"}
  Handlers = {h1}
  MaxVersion = 2
  MaxRequests = 6
SYMMETRY Symmetry
INVARIANTS Consistent
PROPERTIES ImplementsTable
CHECK_DEADLOCK FALSE
