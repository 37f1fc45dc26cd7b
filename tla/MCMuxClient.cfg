SPECIFICATION Spec
CONSTANTS
  Clients = {c1, c2}
  Callers = {q1, q2}
  MaxLinks = 2
  MaxStreams = 3
  Shared = FALSE
SYMMETRY Symmetry
CHECK_DEADLOCK FALSE
INVARIANTS
  TypeOK
  SessionOnStream
  TlsOnLockdown
  LockdownOverMux
  ServiceEncrypted
