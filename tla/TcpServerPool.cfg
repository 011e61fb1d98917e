SPECIFICATION Spec
CONSTANTS
  Conns = {c1}
  Users = {u1, u2}
  ForeignCalls = {"send"}
  NumThreads = 1
  Destroy = FALSE
  MaxCalls = 1
  MaxReports = 3
INVARIANTS
  TypeOK
  RegisteredAlive
  ActiveAlive
  OwnThread
  CloseInFlight
PROPERTIES
  LivesInOrder
CHECK_DEADLOCK FALSE
