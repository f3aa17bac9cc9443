SPECIFICATION FairSpec
CONSTANTS
  NumWords = 2
  Ops <- EdgeOps
  MemECC = TRUE
  None = None
INVARIANTS
  LoadResult
  StoreWrites
  FaultReported
  RequestsRight
  BusMatchesFsm
PROPERTIES
  AccessAnswered
