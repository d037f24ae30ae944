SPECIFICATION Spec
CONSTANTS
  CRs = {c1}
  Contributions = {c1}
  Expiring = {c1}
  Users = {u1, u2, u3}
  Reviewers = {u1, u2, u3}
  Persons = {person}
  Units = {union}
  Patches = {rename, refather}
  FatherPatches = {refather}
  Operations = {"create", "update", "delete"}
  Handlers = {h1}
  None = None
  Quorums = {1, 2}
  MaxRequests = 6
  MaxFailures = 0
  MaxVersion = 2
SYMMETRY Symmetry
INVARIANTS TypeOK ClosureAgrees CountedOnce
PROPERTIES ImplementsLifecycle
CHECK_DEADLOCK FALSE
