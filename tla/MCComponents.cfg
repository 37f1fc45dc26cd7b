\* Each component of its own, on a small instance.
SPECIFICATION Spec
CONSTANTS
  Components = {"relay", "worker", "pairing", "rp", "tunnel", "tls", "flow",
                "lockdown", "services", "formats", "connect", "framing", "node",
                "session", "signing"}
  \* WISP backend
  Readers = {r1, r2}
  MaxChunks = 3
  MaxSends = 1
  AnisetteSources = 4
  MaxMessages = 3
  \* remote pairing
  Sessions = 2
  Exchanges = 2
  Magic = 2
  LenBytes = 1
  Writes = 1
  Offsets <- MCOffsets
  Writers = {w1, w2}
  Chunks = 2
  Reply = 3
  RecordHeader = 2
  Extra = 2
  MaxRecords = 6
  \* TLS client
  TlsWriters = {w1, w2}
  TlsFragments = 2
  Cuts = {3, 99}
  MaxData = 1
  \* user flows
  Devices = {"d1", "d2"}
  TaskSets <- MCTaskSets
  Kept <- MCKept
  MaxClients = 3
  MaxCerts = 2
  MaxStarts = 2
  MaxUnplugs = 1
  \* lockdown and services
  MaxCalls = 4
  PairAttempts = 2
  Attempts = 2
  PackageChunks = 2
  MaxProxyMessages = 3
  \* formats
  PrimeN = 23
  Generator = 5
  ByteBase = 3
  Modulus <- MCModulus
  OpackValues <- MCOpackValues
  TlvValues <- MCTlvValues
  Texts <- MCTexts
  HostNames <- MCHostNames
  PlistValues <- MCPlistValues
  SrpExchanges <- MCSrpExchanges
  Days <- MCDays
  Records <- MCRecords
  RemoteFiles <- MCRemoteFiles
  \* mux: connecting, framing; TCP transport
  Callers = {c1, c2}
  Ports = 4
  ConnAttempts = 2
  MaxConns = 3
  MaxFrames = 1
  LegacyHeader = 2
  V2Header = 3
  Payloads = {0, 2}
  TransferSize = 8
  SeqLimit = 2
  MaxDevice = 3
  MaxHost = 3
  Clients = {c1, c2}
  Sizes = {1, 2}
  MaxBytes = 3
  MaxDials = 2
  MaxOps = 2
  \* accounts and signing
  Accounts <- MCAccounts
  MaxSaved = 2
  MaxLogins = 2
  MaxAttempts = 3
  MaxRequests = 2
  Apps <- MCApps
  Foreign = 1
  Limit = 2
  MaxMade = 3
  MaxRuns = 2
INVARIANTS
  TypesOK
  TokensOnlyToApple
  SessionSound
  FramesReassembled
  TunnelBytesKept
  AgreedWhenOpen
  SealedInTurn
  InstalledOnTarget
  ReplyOfRequest
  PackageWhole
  StreamsKept
  FramesInTurn
  ClosedForGood
  FormatsKept
  ActiveIsStored
  PackageInstallable
PROPERTIES
  PumpIsChannel
  RecvEnds
  HandshakeEnds
  InstallEnds
  CancelEnds
CHECK_DEADLOCK FALSE
