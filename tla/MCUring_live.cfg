\* The server and the programs of two clients, who type, go silent, leave or are
\* interrupted, and of a third, who is turned away; accept fails and the server
\* dies: what must happen in the end.
SPECIFICATION MCSpec
CONSTANTS
  c1 = c1
  c2 = c2
  c3 = c3
  Conn <- ThreeConns
  NoConn = NoConn
  MaxFd = 3
  Backlog = 2
  SockBuf = 1
  RecvMax = 1
  MaxSend = 1
  MaxClients = 2
  Faults = {"accept", "wait"}
  Mishaps = {"thread", "interrupt"}
\* The system may stop here: the server waits for clients that never come, and
\* clients for their users.
CHECK_DEADLOCK FALSE
PROPERTIES
  ClientsAsAssumed
  ClientEnds
  EveryByteBroadcast
  DeparturesCleaned
