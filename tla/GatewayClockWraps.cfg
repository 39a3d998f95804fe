SPECIFICATION Spec
CONSTANTS
  Local = Local
  NoClient = NoClient
  UnitAddress = UnitAddress
  TcpClients = {c1}
  Reads = {rd}
  Writes = {wr}
  TIMEOUT = 1
  LIB_TIMEOUT = 2
  PSU_LATENCY = 2
  PSU_SILENT = FALSE
  PSU_REFUSES = FALSE
  SEND_FAILS = FALSE
  CLOCK = 5
  MaxReq = 2
PROPERTY GivesUpOnlyAfterTimeout
