SPECIFICATION FairSpec
CONSTANTS
  Args <- MCArgs
  WEIGHT_STRATEGIES <- MCStrategies
INVARIANTS
  ZeroMeansAll
  InterruptOutcome
PROPERTIES
  SweepEnds
CHECK_DEADLOCK FALSE
