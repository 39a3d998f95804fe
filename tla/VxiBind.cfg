SPECIFICATION FairSpec
CONSTANTS
  UdpClients = {u1}
  TcpClients = {t1, t2}
  NoClient = NoClient
  VXI_PORT_START = 9011
  VXI_PORT_END = 9010
  MaxMishaps = 2
  UPLOADS = TRUE
INVARIANTS
  TypeOK
  AnswersOwnRequest
  ToldPortListened
PROPERTY ClientsServed
