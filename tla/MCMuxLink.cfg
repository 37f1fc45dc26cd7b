SPECIFICATION Spec
CONSTANTS
  Muxes = {m1, m2}
  MaxAttempts = 2
  MaxReplies = 1
  Faults = TRUE
  Reuse = TRUE
SYMMETRY Symmetry
CHECK_DEADLOCK FALSE
INVARIANTS
  TypeOK
  HandshakeAwaited
  LiveWhenConnectable
  ReleasedWhenClosed
  OneLoop
