SPECIFICATION FairSpec
CONSTANTS
  Reads = {}
  Writes = {w1}
  MaxChunk = 1
  MaxBytes = 1
  Modulus = 4
  Faults = TRUE
  Overlap = FALSE
CHECK_DEADLOCK FALSE
PROPERTY
  OpenSettles
