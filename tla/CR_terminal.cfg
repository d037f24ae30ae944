SPECIFICATION Spec
CONSTANTS
  CRs = {c1}
  Contributions = {}
  Expiring = {}
  Users = {u1, u2, u3}
  Reviewers = {u1, u2, u3}
  Persons = {person}
  Units = {}
  Patches = {refather}
  FatherPatches = {refather}
  Operations = {"update"}
  Handlers = {h1, h2}
  None = None
  Quorums = {1}
  MaxRequests = 4
  MaxFailures = 0
  MaxVersion = 2
PROPERTIES TerminalIsFinal
CHECK_DEADLOCK FALSE
