SPECIFICATION FairSpec
CONSTANTS
  Reads = {r1}
  Writes = {w1, w2}
  MaxChunk = 2
  MaxBytes = 3
  Modulus = 4
  Faults = FALSE
  Overlap = TRUE
CHECK_DEADLOCK FALSE
INVARIANT
  EveryByteAcked
PROPERTY
  OpenSettles
