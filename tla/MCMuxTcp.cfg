SPECIFICATION Spec
CONSTANTS
  Reads = {r1, r2, r3}
  Writes = {w1, w2}
  MaxChunk = 2
  MaxBytes = 3
  Modulus = 3
  Faults = TRUE
  Overlap = FALSE
SYMMETRY Symmetry
CHECK_DEADLOCK FALSE
INVARIANTS
  TypeOK
  NoLostWakeup
  NoOrphanedWaiters
  AckExact
  WritesAccepted
  ReadsPartition
PROPERTY
