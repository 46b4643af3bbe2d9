\* Three clients, two slots: a refused client and a slot that is used again,
\* while handlers search, broadcast and leave and pthread_create may fail.
SPECIFICATION Spec
CONSTANTS
  c1 = c1
  c2 = c2
  c3 = c3
  Conn <- ThreeConns
  NoConn = NoConn
  MaxFd = 3
  Backlog = 2
  SockBuf = 2
  RecvMax = 1
  MaxSend = 1
  MaxClients = 2
  Faults = {"spawn"}
\* The server may stop here: it waits for clients that never come, or
\* its process has ended.
CHECK_DEADLOCK FALSE
SYMMETRY Clients
INVARIANTS
  TypeOK
  DescriptorsOwned
  ExactDelivery
  LabelIsSet
  SlotsServed
