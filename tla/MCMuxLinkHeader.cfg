SPECIFICATION Spec
CONSTANTS
  Muxes = {m1}
  MaxAttempts = 2
  MaxReplies = 1
  Faults = TRUE
  Reuse = FALSE
CHECK_DEADLOCK FALSE
INVARIANT
  VersionIsLegacy
