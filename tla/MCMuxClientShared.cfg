SPECIFICATION Spec
CONSTANTS
  Clients = {c1}
  Callers = {q1, q2}
  MaxLinks = 1
  MaxStreams = 2
  Shared = TRUE
CHECK_DEADLOCK FALSE
INVARIANT
  TlsOnLockdown
