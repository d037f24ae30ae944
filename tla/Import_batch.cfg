SPECIFICATION Spec
CONSTANTS
  NumRows = 2
  Father <- SecondIsChild
  Parsed <- SecondDuplicate
  ChunkSize = 1
  Decisions = {"ignore"}
  CRs = {q1}
  Reviewers = {v1}
  Calls = {c1, c2}
  None = None
  Quorum = 1
  MaxCalls = 4
  MaxFailures = 1
  MaxAfter = 2
  MaxDeliveries = 2
SYMMETRY Symmetry
INVARIANTS ImportedExactlyOnce NobodyLosesAParent FathersAreLinked
PROPERTIES FollowsLifecycle
CHECK_DEADLOCK FALSE
