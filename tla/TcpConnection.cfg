SPECIFICATION FairSpec
CONSTANTS
  Users = {u1}
  Careful = TRUE
  MsgLen = 2
  SendBuffer = 1
  high_water_mark_ = 2
  MaxCalls = 2
  MaxEchoes = 1
  MaxCloses = 1
INVARIANTS
  TypeOK
  WritingIffOutput
  CompletionTold
PROPERTIES
  HighWaterOnCrossing
  StreamInOrder
  QueuedLeaves
  ShutdownSends
CHECK_DEADLOCK FALSE
