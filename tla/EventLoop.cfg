SPECIFICATION FairSpec
CONSTANTS
  Owner = owner
  Others = {o1, o2}
  Tasks = {t1, t2}
  MaxQuits = 2
INVARIANTS
  TypeOK
  NoLostWakeup
  WakeInv
PROPERTIES
  RunsInOrder
  QueuedRuns
  QuitStops
