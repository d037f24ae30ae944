SPECIFICATION Spec
CONSTANTS
  Persons = {p1, p2}
  Imported = {}
  None = None
  InitialFathers <- Roots
  Operations = {"refather"}
  Handlers = {h1, h2}
  MaxVersion = 2
  MaxRequests = 2
SYMMETRY Symmetry
INVARIANT NobodyIsHisOwnAncestor
CHECK_DEADLOCK FALSE
