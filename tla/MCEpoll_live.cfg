\* Two clients, every call failing: events that wait in a batch while earlier ones
\* are served, and what must happen in the end, also when accept keeps failing.
SPECIFICATION FairSpec
CONSTANTS
  c1 = c1
  c2 = c2
  c3 = c3
  Conn <- TwoConns
  NoConn = NoConn
  MaxFd = 2
  Backlog = 2
  SockBuf = 1
  RecvMax = 2
  MaxSend = 2
  MaxClients = 2
  Faults = {"accept", "epoll_ctl", "wait"}
  MaxEvents = 2
\* The server may stop here: it waits for clients that never come, or
\* its process has ended.
CHECK_DEADLOCK FALSE
INVARIANTS
  EventsCurrent
PROPERTIES
  EveryByteBroadcast
  DeparturesCleaned
