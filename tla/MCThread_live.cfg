\* Two clients that come, send and go while accept and pthread_create may fail:
\* one room, and what must happen in the end.
SPECIFICATION FairSpec
CONSTANTS
  c1 = c1
  c2 = c2
  c3 = c3
  Conn <- TwoConns
  NoConn = NoConn
  MaxFd = 2
  Backlog = 2
  SockBuf = 1
  RecvMax = 1
  MaxSend = 1
  MaxClients = 2
  Faults = {"accept", "spawn"}
\* The server may stop here: it waits for clients that never come, or
\* its process has ended.
CHECK_DEADLOCK FALSE
PROPERTIES
  EveryByteBroadcast
  DeparturesCleaned
  IsChatRoom
