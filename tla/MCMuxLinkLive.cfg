SPECIFICATION FairSpec
CONSTANTS
  Muxes = {m1}
  MaxAttempts = 3
  MaxReplies = 2
  Faults = TRUE
  Reuse = TRUE
CHECK_DEADLOCK FALSE
PROPERTY
  HandshakeSettles
