SPECIFICATION Spec
CONSTANTS
  CRs = {c1}
  Contributions = {c1}
  Expiring = {c1}
  Users = {u1, u2, u3}
  Reviewers = {u1, u2, u3}
  Persons = {person}
  Units = {union}
  Patches = {refather}
  FatherPatches = {refather}
  Operations = {"create", "update", "delete"}
  Handlers = {h1, h2}
  None = None
  Quorums = {1, 2}
  MaxRequests = 4
  MaxFailures = 1
  MaxVersion = 2
SYMMETRY Symmetry
INVARIANTS UpdateAppliedOnce PublishedWasApplied AppliedByQuorum
CHECK_DEADLOCK FALSE
