SPECIFICATION Spec
CONSTANTS
  Conns = {c1, c2}
  Users = {u1}
  ForeignCalls = {"send"}
  NumThreads = 0
  Destroy = TRUE
  MaxCalls = 1
  MaxReports = 3
SYMMETRY Symmetry
INVARIANTS
  RegisteredAlive
  NoFatal
  DownOnce
CHECK_DEADLOCK FALSE
