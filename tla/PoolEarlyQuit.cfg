SPECIFICATION FairSpec
CONSTANTS
  NumThreads = 2
  MaxCalls = 1
PROPERTIES
  DtorReturns
CHECK_DEADLOCK FALSE
