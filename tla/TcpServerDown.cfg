SPECIFICATION Spec
CONSTANTS
  Conns = {c1}
  Users = {}
  ForeignCalls = {}
  NumThreads = 1
  Destroy = FALSE
  MaxCalls = 0
  MaxReports = 3
INVARIANTS
  DownOnce
CHECK_DEADLOCK FALSE
