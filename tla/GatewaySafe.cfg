SPECIFICATION FairSpec
CONSTANTS
  Local = Local
  NoClient = NoClient
  UnitAddress = UnitAddress
  TcpClients = {c1, c2}
  Reads = {rd}
  Writes = {}
  TIMEOUT = 1
  LIB_TIMEOUT = 2
  PSU_LATENCY = 3
  PSU_SILENT = TRUE
  PSU_REFUSES = TRUE
  SEND_FAILS = TRUE
  CLOCK = 4
  MaxReq = 3
INVARIANTS
  TypeOK
  ForwardedOnce
PROPERTY HandlersReturn
