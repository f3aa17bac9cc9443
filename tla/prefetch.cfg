SPECIFICATION FairSpec
CONSTANTS
  NumWords = 3
  NUM_REQS = 2
  None = None
INVARIANTS
  OfferedInstr
  RequestsTracked
PROPERTIES
  StreamSpec
  KeepsFetching
