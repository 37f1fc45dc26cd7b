\* Is a stored pairing that of its device?
SPECIFICATION FlowSpec
CONSTANTS
  Devices = {"d1", "d2"}
  TaskSets <- MCTaskSets
  Kept <- MCKept
  MaxClients = 3
  MaxCerts = 1
  MaxStarts = 2
  MaxUnplugs = 1
INVARIANT
  RecordsOfDevice
CHECK_DEADLOCK FALSE
