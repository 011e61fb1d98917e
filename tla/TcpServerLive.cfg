SPECIFICATION FairSpec
CONSTANTS
  Conns = {c1}
  Users = {u1}
  ForeignCalls = {"shutdown"}
  NumThreads = 1
  Destroy = TRUE
  MaxCalls = 2
  MaxReports = 3
INVARIANTS
  NoDataAfterFin
PROPERTIES
  PeerCloseFrees
  DtorTerminates
CHECK_DEADLOCK FALSE
