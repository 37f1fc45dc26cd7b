SPECIFICATION Spec
CONSTANTS
  Muxes = {m1}
  MaxAttempts = 2
  MaxReplies = 1
  Faults = TRUE
  Reuse = TRUE
CHECK_DEADLOCK FALSE
ACTION_CONSTRAINT
  CloseDuringSetup
INVARIANT
  SessionNegotiated
