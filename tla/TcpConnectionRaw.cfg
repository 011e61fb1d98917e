SPECIFICATION Spec
CONSTANTS
  Users = {u1}
  Careful = FALSE
  MsgLen = 2
  SendBuffer = 1
  high_water_mark_ = 2
  MaxCalls = 1
  MaxEchoes = 1
  MaxCloses = 1
INVARIANTS
  AliveWhenRun
CHECK_DEADLOCK FALSE
