SPECIFICATION FairSpec
CONSTANTS
  CRs = {c1}
  Contributions = {}
  Expiring = {}
  Users = {u1, u2, u3}
  Reviewers = {u2, u3}
  Persons = {person}
  Units = {}
  Patches = {refather}
  FatherPatches = {refather}
  Operations = {"update"}
  Handlers = {h1, h2}
  None = None
  Quorums = {2}
  MaxRequests = 5
  MaxFailures = 0
  MaxVersion = 2
PROPERTIES AppliedToBaseVersion QuorumIsActedOn
CHECK_DEADLOCK FALSE
