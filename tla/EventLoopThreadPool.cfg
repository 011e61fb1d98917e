SPECIFICATION FairSpec
CONSTANTS
  NumThreads = 3
  MaxCalls = 2
INVARIANTS
  TypeOK
  LoopsValid
  Balanced
PROPERTIES
  StartReturns
  CalmDtorReturns
CHECK_DEADLOCK FALSE
