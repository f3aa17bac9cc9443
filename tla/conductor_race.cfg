SPECIFICATION FairSpec
CONSTANTS
  p0 = p0
  p1 = p1
  skip = skip
  Props <- MCProps
  StepOf <- MCStepOf
  LastStep = 1
  Skipped = {skip}
  Covers <- MCCovers
  Args <- AllArgs
  Jobs <- MCJobs
  Peak <- MCPeak
  Est <- MCEst
  Codes <- MCCodes
  Total = 14
  MAX_RUNNING = 2
  no_kill = FALSE
  max_mem = 0
INVARIANTS
  RaceClean
CHECK_DEADLOCK FALSE
