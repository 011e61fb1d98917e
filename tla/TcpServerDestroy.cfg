SPECIFICATION Spec
CONSTANTS
  Conns = {c1}
  Users = {}
  ForeignCalls = {}
  NumThreads = 1
  Destroy = TRUE
  MaxCalls = 0
  MaxReports = 3
INVARIANTS
  RegisteredAlive
CHECK_DEADLOCK FALSE
