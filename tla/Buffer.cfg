SPECIFICATION Spec
CONSTANTS
  SizeT = 64
  k_cheap_prepend = 2
  k_initial_size = 6
  extrabuf_size = 5
  Burst = FALSE
  MaxChunk = 7
  MaxBytes = 14
INVARIANTS
  TypeOK
  IndicesInOrder
  NoCorruption
PROPERTIES
  StreamIntact
