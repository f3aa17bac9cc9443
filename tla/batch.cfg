SPECIFICATION FairSpec
CONSTANTS
  NumCases = 2
  Jobs = 2
  None = None
INVARIANTS
  OkMeansAll
  Reported
  ExitLeavesNothing
PROPERTIES
  RunEnds
