SPECIFICATION Spec
CONSTANTS
  Clients = {c1}
  Callers = {q1}
  MaxLinks = 2
  MaxStreams = 1
  Shared = FALSE
CHECK_DEADLOCK FALSE
INVARIANT
  SoleReader
