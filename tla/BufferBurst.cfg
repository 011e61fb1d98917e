SPECIFICATION Spec
CONSTANTS
  SizeT = 64
  k_cheap_prepend = 2
  k_initial_size = 6
  extrabuf_size = 5
  Burst = TRUE
  MaxChunk = 6
  MaxBytes = 10
INVARIANTS
  NoCorruption
CHECK_DEADLOCK FALSE
