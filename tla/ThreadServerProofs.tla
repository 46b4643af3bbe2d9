-------------------------- MODULE ThreadServerProofs --------------------------
(***************************************************************************)
(* Theorems about server_thread.c, for any number of connections, slots    *)
(* and descriptors, any buffer sizes and whatever calls may fail.          *)
(***************************************************************************)
EXTENDS ThreadServer, ChatServerProofs

-----------------------------------------------------------------------------
(* Types *)

\* the loop counter of a handler is a slot while it searches or broadcasts
IndexOK ==
  \A c \in Conn :
    /\ hpc[c] \in {"scan", "id"} => hi[c] \in Slot
    /\ hpc[c] = "send" => hi[c] \in 1 .. MaxClients + 1

TypeInv == TypeOK /\ IndexOK

\* The initial state has the types the declarations give.
LEMMA InitTypes == Init => TypeInv
BY SocketsAssumption, ChatServerAssumption
DEF Init, SocketsInit, TableInit, TypeInv, TypeOK, ThreadTypeOK, SocketsTypeOK,
    TableTypeOK, IndexOK, HandlerPc, PeerState, Slot, Fd, Message

\* The type invariant has these four parts.
LEMMA TypeParts ==
  TypeInv <=> SocketsTypeOK /\ TableTypeOK /\ ThreadTypeOK /\ IndexOK
BY DEF TypeInv, TypeOK

\* Every step of main and of a handler keeps the types.
LEMMA StepTypes == TypeInv /\ [Next]_vars => TypeInv'
<1>. SUFFICES ASSUME SocketsTypeOK, TableTypeOK, ThreadTypeOK, IndexOK, [Next]_vars
              PROVE  SocketsTypeOK' /\ TableTypeOK' /\ ThreadTypeOK' /\ IndexOK'
  BY TypeParts DEF TypeInv, TypeOK
<1>. USE SocketsAssumption, ChatServerAssumption DEF At, HandlerAt, HandlerPc
<1>1. CASE AcceptCall
  <2>1. ThreadTypeOK' /\ IndexOK'
    BY <1>1 DEF AcceptCall, LowestFree, ThreadTypeOK, IndexOK
  <2>. QED BY <1>1, <2>1 DEF AcceptCall, sockVars, tableVars, SocketsTypeOK, TableTypeOK
<1>2. CASE AcceptReturn
  <2>1. ThreadTypeOK' /\ IndexOK'
    BY <1>2 DEF AcceptReturn, ThreadTypeOK, IndexOK
  <2>. QED BY <1>2, <2>1 DEF AcceptReturn, AcceptConn, tableVars, SocketsTypeOK,
              TableTypeOK
<1>3. CASE AcceptFail
  BY <1>3 DEF AcceptFail, tableVars, threadVars, SocketsTypeOK, TableTypeOK,
              ThreadTypeOK, IndexOK
<1>4. CASE RegisterClient
  <2>1. ThreadTypeOK' /\ IndexOK'
    BY <1>4 DEF RegisterClient, ThreadTypeOK, IndexOK
  <2>2. TableTypeOK'
    <3>1. mfd \in Fd \cup {0}
      BY DEF ThreadTypeOK
    <3>2. CASE UNCHANGED tableVars
      BY <3>2 DEF tableVars, TableTypeOK
    <3>. QED BY <1>4, <3>1, <3>2, RegisterTypes DEF RegisterClient
  <2>. QED BY <1>4, <2>1, <2>2 DEF RegisterClient, sockVars, SocketsTypeOK
<1>5. CASE Reject
  <2>1. ThreadTypeOK' /\ IndexOK'
    BY <1>5 DEF Reject, ThreadTypeOK, IndexOK
  <2>. QED BY <1>5, <2>1, CloseTypes DEF Reject, tableVars, TableTypeOK
<1>6. CASE Spawn
  <2>1. ThreadTypeOK'
    <3>1. hpc' \in [Conn -> HandlerPc] /\ hfd' \in [Conn -> Fd \cup {0}]
      BY <1>6 DEF Spawn, ThreadTypeOK
    <3>2. hi' \in [Conn -> 0 .. MaxClients + 1]
      <4>1. hi' = [hi EXCEPT ![fdt[mfd]] = 1] /\ 1 \in 0 .. MaxClients + 1
        BY <1>6 DEF Spawn
      <4>2. hi \in [Conn -> 0 .. MaxClients + 1]
        BY DEF ThreadTypeOK
      <4>. QED BY <4>1, <4>2
    <3>. QED BY <1>6, <3>1, <3>2 DEF Spawn, ThreadTypeOK
  <2>2. IndexOK'
    BY <1>6 DEF Spawn, ThreadTypeOK, IndexOK, Slot
  <2>. QED BY <1>6, <2>1, <2>2 DEF Spawn, sockVars, tableVars, SocketsTypeOK, TableTypeOK
<1>7. CASE SpawnFail
  BY <1>7 DEF SpawnFail, tableVars, SocketsTypeOK, TableTypeOK, ThreadTypeOK, IndexOK
<1>8. ASSUME NEW c \in Conn, Handler(c)
      PROVE  SocketsTypeOK' /\ TableTypeOK' /\ ThreadTypeOK' /\ IndexOK'
  <2>1. ASSUME hpc[c] \in {"scan", "id"}, Advance(c),
               UNCHANGED <<mpc, mfd, client_mutex, hfd, hmsg>>,
               client_id' \in [Conn -> Nat]
        PROVE  ThreadTypeOK' /\ IndexOK'
    <3>1. hi[c] \in Slot
      BY <2>1 DEF IndexOK
    <3>2. hi' \in [Conn -> 0 .. MaxClients + 1]
      BY <2>1, <3>1 DEF Advance, ThreadTypeOK, Slot
    <3>3. hpc' \in [Conn -> HandlerPc]
      BY <2>1 DEF Advance, ThreadTypeOK
    <3>4. ThreadTypeOK'
      BY <2>1, <3>2, <3>3 DEF ThreadTypeOK
    <3>5. ASSUME NEW d \in Conn
          PROVE  /\ hpc'[d] \in {"scan", "id"} => hi'[d] \in Slot
                 /\ hpc'[d] = "send" => hi'[d] \in 1 .. MaxClients + 1
      <4>1. CASE d = c
        BY <2>1, <3>1, <4>1 DEF Advance, ThreadTypeOK, Slot
      <4>2. CASE d # c
        BY <2>1, <4>2 DEF Advance, ThreadTypeOK, IndexOK
      <4>. QED BY <4>1, <4>2
    <3>. QED BY <3>4, <3>5 DEF IndexOK
  <2>2. CASE ScanSlot(c)
    <3>1. CASE hpc' = [hpc EXCEPT ![c] = "id"] /\ UNCHANGED hi
      BY <2>2, <3>1 DEF ScanSlot, sockVars, tableVars, SocketsTypeOK, TableTypeOK,
                        ThreadTypeOK, IndexOK
    <3>2. CASE Advance(c)
      <4>1. ThreadTypeOK' /\ IndexOK'
        BY <2>1, <2>2, <3>2 DEF ScanSlot, ThreadTypeOK
      <4>. QED BY <2>2, <4>1 DEF ScanSlot, sockVars, tableVars, SocketsTypeOK, TableTypeOK
    <3>. QED BY <2>2, <3>1, <3>2 DEF ScanSlot
  <2>3. CASE ReadId(c)
    <3>1. hi[c] \in Slot
      BY <2>3 DEF ReadId, IndexOK
    <3>2. clients[hi[c]].id \in Nat
      BY <3>1 DEF TableTypeOK
    <3>3. client_id' \in [Conn -> Nat]
      BY <2>3, <3>2 DEF ReadId, ThreadTypeOK
    <3>4. ThreadTypeOK' /\ IndexOK'
      BY <2>1, <2>3, <3>3 DEF ReadId
    <3>. QED BY <2>3, <3>4 DEF ReadId, sockVars, tableVars, SocketsTypeOK, TableTypeOK
  <2>4. CASE Recv(c)
    <3>1. SocketsTypeOK'
      BY <2>4, RecvTypes DEF Recv
    <3>2. hmsg' \in [Conn -> Nat]
      <4>1. taken'[c] \in Nat
        BY <3>1 DEF SocketsTypeOK
      <4>. QED BY <2>4, <4>1 DEF Recv, ThreadTypeOK
    <3>3. hpc' \in [Conn -> HandlerPc] /\ IndexOK'
      BY <2>4 DEF Recv, ThreadTypeOK, IndexOK
    <3>. QED BY <2>4, <3>1, <3>2, <3>3 DEF Recv, tableVars, TableTypeOK, ThreadTypeOK
  <2>5. CASE BroadcastLock(c)
    <3>1. TableTypeOK'
      <4>1. client_id[c] \in Int /\ hmsg[c] \in Nat
        BY DEF ThreadTypeOK
      <4>. QED BY <2>5, <4>1, StartTypes DEF BroadcastLock
    <3>2. ThreadTypeOK' /\ IndexOK'
      BY <2>5 DEF BroadcastLock, ThreadTypeOK, IndexOK, Slot
    <3>. QED BY <2>5, <3>1, <3>2 DEF BroadcastLock, sockVars, SocketsTypeOK
  <2>6. CASE BroadcastSend(c)
    <3>1. hi[c] \in Slot
      BY <2>6 DEF BroadcastSend, IndexOK, Slot
    <3>2. SocketsTypeOK'
      BY <2>6, <3>1, BroadcastTypes DEF BroadcastSend
    <3>3. ThreadTypeOK'
      BY <2>6, <3>1 DEF BroadcastSend, ThreadTypeOK, Slot
    <3>4. IndexOK'
      BY <2>6, <3>1 DEF BroadcastSend, ThreadTypeOK, IndexOK, Slot
    <3>. QED BY <2>6, <3>2, <3>3, <3>4 DEF BroadcastSend, tableVars, TableTypeOK
  <2>7. CASE BroadcastUnlock(c)
    <3>1. ThreadTypeOK' /\ IndexOK'
      BY <2>7 DEF BroadcastUnlock, ThreadTypeOK, IndexOK
    <3>. QED BY <2>7, <3>1 DEF BroadcastUnlock, sockVars, tableVars, SocketsTypeOK,
                               TableTypeOK
  <2>8. CASE Unlist(c)
    <3>1. clients' \in [Slot -> [fd : Fd \cup {0}, id : Nat, is_active : BOOLEAN]]
      BY <2>8 DEF Unlist, Unregister, TableTypeOK
    <3>2. ThreadTypeOK' /\ IndexOK'
      BY <2>8 DEF Unlist, ThreadTypeOK, IndexOK
    <3>. QED BY <2>8, <3>1, <3>2 DEF Unlist, Unregister, sockVars, SocketsTypeOK,
                                     TableTypeOK
  <2>9. CASE Close(c)
    <3>1. ThreadTypeOK' /\ IndexOK'
      BY <2>9 DEF Close, ThreadTypeOK, IndexOK
    <3>. QED BY <2>9, <3>1, CloseTypes DEF Close, tableVars, TableTypeOK
  <2>. QED BY <1>8, <2>2, <2>3, <2>4, <2>5, <2>6, <2>7, <2>8, <2>9 DEF Handler
<1>9. CASE Client
  BY <1>9, ClientTypes DEF Client, tableVars, threadVars, TableTypeOK, ThreadTypeOK,
     IndexOK
<1>10. CASE UNCHANGED vars
  BY <1>10 DEF vars, sockVars, tableVars, threadVars, SocketsTypeOK, TableTypeOK,
               ThreadTypeOK, IndexOK
<1>. QED BY <1>1, <1>2, <1>3, <1>4, <1>5, <1>6, <1>7, <1>8, <1>9, <1>10 DEF Next, Main

\* Every reachable state of the threaded server is well typed.
THEOREM TypeCorrect == Spec => []TypeOK
<1>1. TypeInv => TypeOK
  BY DEF TypeInv
<1>. QED BY InitTypes, StepTypes, <1>1, PTL DEF Spec

-----------------------------------------------------------------------------
(***************************************************************************)
(* Who owns which descriptor: main until it has started the handler, then  *)
(* the handler until it closes it, while a slot of the table lists the     *)
(* descriptor for part of that time.                                       *)
(***************************************************************************)
Active(i) == clients[i].is_active
Fresh(c) == hpc[c] = "none" /\ idOf[c] = 0 /\ inbox[c] = <<>>

\* a connection that accept() has not returned is unknown to the process
Unaccepted ==
  \A c \in Conn :
    /\ c \in backlog => peer[c] # "idle"
    /\ c \in backlog \/ peer[c] = "idle" => Fresh(c) /\ \A f \in Fd : fdt[f] # c

MainOwns ==
  /\ mpc = "accept" => mfd \in Fd /\ fdt[mfd] = NoConn
  /\ mpc \in {"register", "reject", "spawn"} =>
       mfd \in Fd /\ fdt[mfd] \in Conn /\ hpc[fdt[mfd]] = "none"
  /\ mpc \in {"register", "reject"} =>
       Fresh(fdt[mfd]) /\ \A i \in Slot : Active(i) => clients[i].fd # mfd
  /\ mpc = "spawn" => \E i \in Slot : Active(i) /\ clients[i].fd = mfd

HandlersOwn == \A c \in Conn : Alive(c) => hfd[c] \in Fd /\ fdt[hfd[c]] = c

SlotsOwn ==
  \A i \in Slot : Active(i) =>
    /\ clients[i].fd \in Fd /\ ConnIn(i) \in Conn
    /\ idOf[ConnIn(i)] = clients[i].id /\ clients[i].id > 0
    /\ hpc[ConnIn(i)] \notin {"close", "done"}

OneSlot ==
  \A i, j \in Slot :
    Active(i) /\ Active(j) /\ clients[i].fd = clients[j].fd => i = j

OwnInv ==
  /\ Unaccepted /\ MainOwns /\ HandlersOwn /\ OneFd /\ SlotsOwn /\ OneSlot

\* The critical sections: only the holder is inside broadcast_msg.
MutexOwn == \A c \in Conn : hpc[c] = "send" <=> client_mutex = c

-----------------------------------------------------------------------------
\* Nothing is owned at the start.
LEMMA InitOwn == Init => OwnInv
BY SocketsAssumption, ChatServerAssumption
DEF Init, SocketsInit, TableInit, OwnInv, Unaccepted, MainOwns, HandlersOwn, OneFd,
    SlotsOwn, OneSlot, Active, Alive, Fresh, Slot, Fd

\* A handler that goes on without touching the table or its descriptor changes
\* nobody's ownership.
LEMMA HandlerFrame ==
  ASSUME OwnInv, NEW c \in Conn,
         hpc[c] \in {"scan", "id", "recv", "lock", "send"},
         hpc'[c] \notin {"none", "close", "done"},
         \A d \in Conn : d # c => hpc'[d] = hpc[d],
         \A d \in Conn : peer'[d] = "idle" <=> peer[d] = "idle",
         \A d \in Conn : idOf[d] = 0 => inbox'[d] = inbox[d],
         UNCHANGED <<fdt, backlog, clients, idOf, mpc, mfd, hfd>>
  PROVE  OwnInv'
<1>. USE DEF OwnInv, Active, Alive, Fresh, ConnIn
<1>1. Unaccepted'
  BY DEF Unaccepted
<1>2. MainOwns'
  BY DEF MainOwns
<1>3. HandlersOwn'
  BY DEF HandlersOwn
<1>4. SlotsOwn'
  BY DEF SlotsOwn
<1>. QED BY <1>1, <1>2, <1>3, <1>4 DEF OneFd, OneSlot

\* What send() does to the streams and to the state of the connections.
LEMMA SendFrame ==
  ASSUME SocketsTypeOK, OwnInv, NEW i \in Slot, NEW f, BroadcastTo(i, f)
  PROVE  /\ UNCHANGED <<fdt, backlog>>
         /\ \A d \in Conn : peer'[d] = "idle" <=> peer[d] = "idle"
         /\ \A d \in Conn : idOf[d] = 0 => inbox'[d] = inbox[d]
<1>1. CASE UNCHANGED <<inbox, unread, peer, proc>>
  BY <1>1 DEF BroadcastTo
<1>2. CASE Active(i) /\ Send(clients[i].fd, Len(log))
  <2>. DEFINE c == ConnIn(i)
  <2>1. c \in Conn /\ clients[i].fd \in Fd
    BY <1>2 DEF OwnInv, SlotsOwn
  <2>2. idOf[c] = clients[i].id
    BY <1>2 DEF OwnInv, SlotsOwn
  <2>3. \A d \in Conn : peer'[d] = "idle" <=> peer[d] = "idle"
    BY <1>2, <2>1 DEF Send, SocketsTypeOK, ConnIn
  <2>4. idOf[c] # 0
    BY <1>2, <2>2 DEF OwnInv, SlotsOwn
  <2>5. inbox' = inbox \/ inbox' = [inbox EXCEPT ![c] = Append(@, Len(log))]
    BY <1>2 DEF Send, ConnIn
  <2>6. \A d \in Conn : idOf[d] = 0 => inbox'[d] = inbox[d]
    BY <2>1, <2>4, <2>5 DEF SocketsTypeOK
  <2>. QED BY <2>3, <2>6 DEF BroadcastTo
<1>. QED BY <1>1, <1>2 DEF BroadcastTo, Active

\* Every step keeps who owns what.
LEMMA OwnStep == TypeInv /\ OwnInv /\ [Next]_vars => OwnInv'
<1>. SUFFICES ASSUME SocketsTypeOK, TableTypeOK, ThreadTypeOK, IndexOK, OwnInv, [Next]_vars
              PROVE  OwnInv'
  BY TypeParts
<1>. USE SocketsAssumption, ChatServerAssumption DEF At, HandlerAt, OwnInv, Active,
           Alive, Fresh, ConnIn
<1>1. CASE AcceptCall
    BY <1>1 DEF AcceptCall, LowestFree, sockVars, tableVars, Unaccepted, MainOwns,
       HandlersOwn, OneFd, SlotsOwn, OneSlot
<1>2. CASE AcceptReturn
  <2>0. PICK c \in backlog : AcceptConn(c, mfd)
    BY <1>2 DEF AcceptReturn
  <2>1. Unaccepted'
    BY <1>2 DEF AcceptReturn, AcceptConn, tableVars, Unaccepted, MainOwns, SocketsTypeOK
  <2>2. MainOwns'
    BY <1>2 DEF AcceptReturn, AcceptConn, tableVars, Unaccepted, MainOwns, SlotsOwn,
       SocketsTypeOK
  <2>3. HandlersOwn'
    BY <1>2 DEF AcceptReturn, AcceptConn, tableVars, Unaccepted, HandlersOwn, MainOwns,
       SocketsTypeOK
  <2>4. OneFd'
    BY <1>2 DEF AcceptReturn, AcceptConn, Unaccepted, OneFd, MainOwns, SocketsTypeOK
  <2>5. SlotsOwn' /\ OneSlot'
    <3>1. fdt[mfd] = NoConn /\ \A f \in Fd : f # mfd => fdt'[f] = fdt[f]
      BY <1>2, <2>0 DEF AcceptReturn, AcceptConn, MainOwns, SocketsTypeOK
    <3>2. \A i \in Slot : Active(i) => clients[i].fd # mfd
      BY <3>1 DEF SlotsOwn
    <3>. QED BY <1>2, <3>1, <3>2 DEF AcceptReturn, tableVars, SlotsOwn, OneSlot
  <2>. QED BY <2>1, <2>2, <2>3, <2>4, <2>5
<1>3. CASE AcceptFail
    BY <1>3 DEF AcceptFail, tableVars, threadVars, Unaccepted, MainOwns, HandlersOwn,
       OneFd, SlotsOwn, OneSlot
<1>4. CASE RegisterClient
  <2>1. CASE TableFull
    BY <1>4, <2>1 DEF RegisterClient, tableVars, sockVars, Unaccepted, MainOwns,
                      HandlersOwn, OneFd, SlotsOwn, OneSlot
  <2>2. CASE ~TableFull
    <3>. DEFINE c == fdt[mfd]
    <3>1. PICK i \in Slot :
            /\ ~Active(i)
            /\ clients' = [clients EXCEPT ![i] =
                 [fd |-> mfd, id |-> total_connections + 1, is_active |-> TRUE]]
      BY <1>4, <2>2 DEF RegisterClient, Register
    <3>2. /\ mpc = "register" /\ mpc' = "spawn"
          /\ idOf' = [idOf EXCEPT ![c] = total_connections + 1]
          /\ UNCHANGED <<proc, fdt, backlog, peer, inbox, mfd, hpc, hfd>>
      BY <1>4, <2>2 DEF RegisterClient, Register, sockVars
    <3>3. /\ mfd \in Fd /\ c \in Conn /\ Fresh(c)
          /\ \A j \in Slot : Active(j) => clients[j].fd # mfd
      BY <3>2 DEF MainOwns
    <3>4. /\ clients'[i] = [fd |-> mfd, id |-> total_connections + 1, is_active |-> TRUE]
          /\ \A j \in Slot : j # i => clients'[j] = clients[j]
      BY <3>1 DEF TableTypeOK
    <3>5. /\ idOf'[c] = total_connections + 1 /\ total_connections + 1 > 0
          /\ \A d \in Conn : d # c => idOf'[d] = idOf[d]
      BY <3>2, <3>3 DEF TableTypeOK
    <3>6. Unaccepted'
      BY <3>2, <3>3, <3>5 DEF Unaccepted
    <3>7. MainOwns'
      BY <3>2, <3>3, <3>4, <3>5 DEF MainOwns
    <3>8. HandlersOwn' /\ OneFd'
      BY <3>2 DEF HandlersOwn, OneFd
    <3>9. SlotsOwn'
      <4>. SUFFICES ASSUME NEW j \in Slot, Active(j)'
                    PROVE  /\ clients'[j].fd \in Fd /\ fdt[clients'[j].fd] \in Conn
                           /\ idOf'[fdt[clients'[j].fd]] = clients'[j].id
                           /\ clients'[j].id > 0
                           /\ hpc[fdt[clients'[j].fd]] \notin {"close", "done"}
        BY <3>2 DEF SlotsOwn
      <4>1. CASE j = i
        BY <3>3, <3>4, <3>5, <4>1
      <4>2. CASE j # i
        BY <3>3, <3>4, <3>5, <4>2 DEF SlotsOwn, OneFd
      <4>. QED BY <4>1, <4>2
    <3>10. OneSlot'
      BY <3>3, <3>4 DEF OneSlot
    <3>. QED BY <3>6, <3>7, <3>8, <3>9, <3>10
  <2>. QED BY <2>1, <2>2
<1>5. CASE Reject
  BY <1>5 DEF Reject, CloseFd, tableVars, Unaccepted, MainOwns, HandlersOwn, OneFd,
     SlotsOwn, OneSlot, SocketsTypeOK
<1>6. CASE Spawn
  BY <1>6 DEF Spawn, tableVars, sockVars, Unaccepted, MainOwns, HandlersOwn, OneFd,
     SlotsOwn, OneSlot, ThreadTypeOK
<1>7. CASE SpawnFail
  BY <1>7 DEF SpawnFail, tableVars, Unaccepted, MainOwns, HandlersOwn, OneFd, SlotsOwn,
     OneSlot
<1>8. ASSUME NEW c \in Conn, Handler(c) PROVE OwnInv'
  <2>1. CASE ScanSlot(c)
    BY <2>1, HandlerFrame DEF ScanSlot, Advance, sockVars, tableVars, ThreadTypeOK
  <2>2. CASE ReadId(c)
    BY <2>2, HandlerFrame DEF ReadId, Advance, sockVars, tableVars, ThreadTypeOK
  <2>3. CASE Recv(c)
    <3>1. \A d \in Conn : peer'[d] = "idle" <=> peer[d] = "idle"
      BY <2>3 DEF Recv, RecvData, RecvEof, RecvError, sockVars, SocketsTypeOK
    <3>2. UNCHANGED <<fdt, backlog, inbox>>
      BY <2>3 DEF Recv, RecvData, RecvEof, RecvError, sockVars
    <3>3. hpc' = [hpc EXCEPT ![c] = "lock"] \/ hpc' = [hpc EXCEPT ![c] = "unlist"]
      BY <2>3 DEF Recv
    <3>. QED BY <2>3, <3>1, <3>2, <3>3, HandlerFrame DEF Recv, tableVars, ThreadTypeOK
  <2>4. CASE BroadcastLock(c)
    BY <2>4, HandlerFrame
    DEF BroadcastLock, StartBroadcast, sockVars, ThreadTypeOK
  <2>5. CASE BroadcastSend(c)
    <3>1. hi[c] \in Slot
      BY <2>5 DEF BroadcastSend, IndexOK, Slot
    <3>. QED BY <2>5, <3>1, SendFrame, HandlerFrame DEF BroadcastSend, tableVars
  <2>6. CASE BroadcastUnlock(c)
    BY <2>6, HandlerFrame DEF BroadcastUnlock, sockVars, tableVars, ThreadTypeOK
  <2>7. CASE Unlist(c)
    <3>1. /\ hpc[c] = "unlist" /\ hpc' = [hpc EXCEPT ![c] = "close"]
          /\ UNCHANGED <<fdt, backlog, peer, inbox, mpc, mfd, hfd, idOf>>
      BY <2>7 DEF Unlist, Unregister, sockVars
    <3>2. hfd[c] \in Fd /\ fdt[hfd[c]] = c
      BY <3>1 DEF HandlersOwn
    <3>3. ASSUME NEW j \in Slot
          PROVE  /\ clients'[j].fd = clients[j].fd /\ clients'[j].id = clients[j].id
                 /\ Active(j)' <=> Active(j) /\ clients[j].fd # hfd[c]
      <4>1. clients'[j] = IF FirstWithFd(j, hfd[c])
                          THEN [clients[j] EXCEPT !.is_active = FALSE] ELSE clients[j]
        BY <2>7 DEF Unlist, Unregister
      <4>2. FirstWithFd(j, hfd[c]) <=> Active(j) /\ clients[j].fd = hfd[c]
        BY DEF FirstWithFd, OneSlot, Slot
      <4>3. clients[j] \in [fd : Fd \cup {0}, id : Nat, is_active : BOOLEAN]
        BY DEF TableTypeOK
      <4>. QED BY <4>1, <4>2, <4>3
    <3>4. Unaccepted'
      BY <3>1 DEF Unaccepted, ThreadTypeOK
    <3>5. MainOwns'
      BY <3>1, <3>2, <3>3 DEF MainOwns, ThreadTypeOK
    <3>6. HandlersOwn' /\ OneFd'
      BY <3>1 DEF HandlersOwn, OneFd, ThreadTypeOK
    <3>7. SlotsOwn'
      <4>. SUFFICES ASSUME NEW j \in Slot, Active(j), clients[j].fd # hfd[c]
                    PROVE  hpc'[fdt[clients[j].fd]] \notin {"close", "done"}
        BY <3>1, <3>3 DEF SlotsOwn
      <4>1. fdt[clients[j].fd] # c
        BY <3>2 DEF SlotsOwn, OneFd
      <4>. QED BY <3>1, <4>1 DEF SlotsOwn, ThreadTypeOK
    <3>8. OneSlot'
      BY <3>3 DEF OneSlot
    <3>. QED BY <3>4, <3>5, <3>6, <3>7, <3>8
  <2>8. CASE Close(c)
    <3>1. /\ hpc[c] = "close" /\ hpc' = [hpc EXCEPT ![c] = "done"]
          /\ hfd' = [hfd EXCEPT ![c] = 0]
          /\ UNCHANGED <<backlog, inbox, mpc, mfd, clients, idOf>>
      BY <2>8 DEF Close, CloseFd, tableVars
    <3>2. hfd[c] \in Fd /\ fdt[hfd[c]] = c
      BY <3>1 DEF HandlersOwn
    <3>3. /\ fdt'[hfd[c]] = NoConn
          /\ \A f \in Fd : f # hfd[c] => fdt'[f] = fdt[f]
          /\ peer' = [d \in Conn |-> IF d = c THEN "shut" ELSE peer[d]]
      BY <2>8, <3>2 DEF Close, CloseFd, SocketsTypeOK
    <3>4. \A i \in Slot : Active(i) => clients[i].fd # hfd[c]
      BY <3>1, <3>2 DEF SlotsOwn
    <3>5. Unaccepted'
      <4>. SUFFICES ASSUME NEW d \in Conn, d \in backlog \/ peer'[d] = "idle"
                    PROVE  /\ d \in backlog => peer'[d] # "idle"
                           /\ hpc'[d] = "none" /\ idOf[d] = 0 /\ inbox[d] = <<>>
                           /\ \A f \in Fd : fdt'[f] # d
        BY <3>1 DEF Unaccepted
      <4>1. c \notin backlog /\ d # c
        BY <3>2, <3>3 DEF Unaccepted
      <4>2. d \in backlog \/ peer[d] = "idle"
        BY <3>3, <4>1
      <4>3. hpc'[d] = hpc[d]
        BY <3>1, <4>1 DEF ThreadTypeOK
      <4>. QED BY <3>3, <4>1, <4>2, <4>3 DEF Unaccepted
    <3>6. MainOwns'
      BY <3>1, <3>2, <3>3 DEF MainOwns, ThreadTypeOK
    <3>7. HandlersOwn' /\ OneFd'
      BY <3>1, <3>2, <3>3 DEF HandlersOwn, OneFd, ThreadTypeOK
    <3>8. SlotsOwn' /\ OneSlot'
      BY <3>1, <3>2, <3>3, <3>4 DEF SlotsOwn, OneSlot, ThreadTypeOK
    <3>. QED BY <3>5, <3>6, <3>7, <3>8
  <2>. QED BY <1>8, <2>1, <2>2, <2>3, <2>4, <2>5, <2>6, <2>7, <2>8 DEF Handler
<1>9. CASE Client
  <2>1. UNCHANGED <<fdt, inbox>> /\ UNCHANGED <<tableVars, threadVars>>
    BY <1>9 DEF Client, ClientNext, Connect, ClientSend, ClientReads, ClientRead, ClientExit
  <2>2. \A c \in Conn :
          /\ c \in backlog' /\ c \notin backlog => peer[c] = "idle"
          /\ c \in backlog' => peer'[c] # "idle"
          /\ peer'[c] = "idle" => peer[c] = "idle"
    BY <1>9 DEF Client, ClientNext, Connect, ClientSend, ClientReads, ClientRead,
       ClientExit, SocketsTypeOK, Unaccepted
  <2>3. Unaccepted'
    BY <2>1, <2>2 DEF tableVars, threadVars, Unaccepted
  <2>4. MainOwns' /\ HandlersOwn' /\ OneFd'
    BY <2>1 DEF tableVars, threadVars, MainOwns, HandlersOwn, OneFd
  <2>5. SlotsOwn' /\ OneSlot'
    BY <2>1 DEF tableVars, threadVars, SlotsOwn, OneSlot
  <2>. QED BY <2>3, <2>4, <2>5
<1>10. CASE UNCHANGED vars
  BY <1>10 DEF vars, sockVars, tableVars, threadVars, Unaccepted, MainOwns, HandlersOwn,
     OneFd, SlotsOwn, OneSlot
<1>. QED BY <1>1, <1>2, <1>3, <1>4, <1>5, <1>6, <1>7, <1>8, <1>9, <1>10 DEF Next, Main

-----------------------------------------------------------------------------
(* What the clients see: descriptors, numbers, messages *)

\* Types and ownership hold in every reachable state.
LEMMA Owned == Spec => [](TypeInv /\ OwnInv)
<1>1. Init => TypeInv /\ OwnInv
  BY InitTypes, InitOwn
<1>2. (TypeInv /\ OwnInv) /\ [Next]_vars => (TypeInv /\ OwnInv)'
  BY StepTypes, OwnStep
<1>. QED BY <1>1, <1>2, PTL DEF Spec

\* A handler's descriptor is its own until it closes it, and a listed slot holds
\* the open descriptor and the number of one connection: no broadcast of
\* server_thread.c:28-34 goes to a descriptor that was closed or given away.
THEOREM DescriptorsAreOwned == Spec => []DescriptorsOwned
<1>1. TypeInv /\ OwnInv => DescriptorsOwned
  BY SocketsAssumption
  DEF OwnInv, HandlersOwn, SlotsOwn, DescriptorsOwned, Active
<1>. QED BY <1>1, Owned, PTL

\* Whatever way a handler leaves its loop, its slot is free before it ends; only
\* a slot whose pthread_create failed has no handler.
THEOREM SlotsAreServed == Spec => []SlotsServed
<1>1. TypeInv /\ OwnInv => SlotsServed
  BY DEF OwnInv, SlotsOwn, SlotsServed, Active, Alive
<1>. QED BY <1>1, Owned, PTL

-----------------------------------------------------------------------------
(* The unlocked search of a new handler *)

\* A number goes with the descriptor of a slot, and stays when the slot is free.
NumbersSet == \A i \in Slot : clients[i].fd # 0 => clients[i].id > 0

\* the slot that main filled for c is still ahead of its search
Ahead(c) == \E i \in Slot : i >= hi[c] /\ Active(i) /\ clients[i].fd = hfd[c]

SearchInv ==
  /\ NumbersSet
  /\ \A c \in Conn :
       /\ hpc[c] = "scan" => client_id[c] > 0 \/ Ahead(c)
       /\ hpc[c] = "id" => clients[hi[c]].id > 0
       /\ hpc[c] \in {"recv", "lock", "send", "unlist", "close"} => client_id[c] > 0

\* What the table may do under a search: numbers stay set, and no slot of another
\* handler's descriptor goes.
LEMMA SearchFrame ==
  ASSUME SearchInv, TypeInv, NumbersSet',
         NEW d,
         \A i \in Slot : clients[i].id > 0 => clients'[i].id > 0,
         \A c \in Conn : \A i \in Slot :
           c # d /\ hpc[c] = "scan" /\ Active(i) /\ clients[i].fd = hfd[c]
             => Active(i)' /\ clients'[i].fd = clients[i].fd,
         \A c \in Conn : c # d =>
           /\ hpc'[c] = hpc[c] /\ hi'[c] = hi[c] /\ hfd'[c] = hfd[c]
           /\ client_id'[c] = client_id[c],
         d \in Conn =>
           /\ hpc'[d] = "scan" => client_id'[d] > 0 \/ Ahead(d)'
           /\ hpc'[d] = "id" => clients'[hi'[d]].id > 0
           /\ hpc'[d] \in {"recv", "lock", "send", "unlist", "close"} => client_id'[d] > 0
  PROVE  SearchInv'
<1>1. ASSUME NEW c \in Conn, c # d
      PROVE  /\ hpc'[c] = "scan" => client_id'[c] > 0 \/ Ahead(c)'
             /\ hpc'[c] = "id" => clients'[hi'[c]].id > 0
             /\ hpc'[c] \in {"recv", "lock", "send", "unlist", "close"} => client_id'[c] > 0
  <2>1. CASE hpc[c] = "scan"
    BY <1>1, <2>1 DEF SearchInv, Ahead
  <2>2. CASE hpc[c] = "id"
    <3>1. hi[c] \in Slot
      BY <2>2 DEF TypeInv, IndexOK
    <3>. QED BY <1>1, <2>2, <3>1 DEF SearchInv
  <2>. QED BY <1>1, <2>1, <2>2 DEF SearchInv
<1>. QED BY <1>1 DEF SearchInv

\* No step takes the slot away from a search, or leaves a number unset.
LEMMA SearchStep ==
  ASSUME TypeInv, OwnInv, SearchInv, [Next]_vars
  PROVE  SearchInv'
<1>. USE SocketsAssumption, ChatServerAssumption DEF At, HandlerAt
<1>1. ThreadTypeOK /\ TableTypeOK /\ IndexOK
  BY TypeParts
<1>2. CASE UNCHANGED <<clients, hpc, hi, hfd, client_id>>
  BY <1>2 DEF SearchInv, NumbersSet, Ahead, Active
<1>3. CASE RegisterClient
  <2>1. CASE UNCHANGED tableVars
    BY <1>2, <1>3, <2>1 DEF RegisterClient, tableVars
  <2>2. CASE Register(fdt[mfd], mfd)
    <3>1. PICK i \in Slot :
            /\ ~Active(i)
            /\ clients' = [clients EXCEPT ![i] =
                 [fd |-> mfd, id |-> total_connections + 1, is_active |-> TRUE]]
      BY <2>2 DEF Register, Active
    <3>2. /\ clients'[i].id = total_connections + 1 /\ total_connections + 1 > 0
          /\ \A j \in Slot : j # i => clients'[j] = clients[j]
      BY <1>1, <3>1 DEF TableTypeOK
    <3>3. NumbersSet'
      BY <3>2 DEF SearchInv, NumbersSet
    <3>4. UNCHANGED <<hpc, hi, hfd, client_id>> /\ NoConn \notin Conn
      BY <1>3 DEF RegisterClient
    <3>5. \A j \in Slot : clients[j].id > 0 => clients'[j].id > 0
      BY <3>2
    <3>6. \A j \in Slot : Active(j) => Active(j)' /\ clients'[j].fd = clients[j].fd
      BY <3>1, <3>2 DEF Active
    <3>. QED BY <3>3, <3>4, <3>5, <3>6, SearchFrame
  <2>. QED BY <1>3, <2>1, <2>2 DEF RegisterClient
<1>4. CASE Spawn
  <2>0. PICK c \in Conn : c = fdt[mfd]
    BY <1>4 DEF Spawn, OwnInv, MainOwns
  <2>1. \E i \in Slot : Active(i) /\ clients[i].fd = mfd
    BY <1>4 DEF Spawn, OwnInv, MainOwns
  <2>2. /\ hpc' = [hpc EXCEPT ![c] = "scan"] /\ hfd' = [hfd EXCEPT ![c] = mfd]
        /\ hi' = [hi EXCEPT ![c] = 1] /\ UNCHANGED <<clients, client_id>>
    BY <1>4, <2>0 DEF Spawn, tableVars
  <2>3. hpc'[c] = "scan" /\ hfd'[c] = mfd /\ hi'[c] = 1
    BY <1>1, <2>1, <2>2 DEF ThreadTypeOK
  <2>4. Ahead(c)'
    BY <2>1, <2>2, <2>3 DEF Ahead, Active, Slot
  <2>5. \A d \in Conn : d # c => hpc'[d] = hpc[d] /\ hi'[d] = hi[d] /\ hfd'[d] = hfd[d]
    BY <1>1, <2>2 DEF ThreadTypeOK
  <2>6. \A i \in Slot : Active(i)' <=> Active(i)
    BY <2>2 DEF Active
  <2>7. NumbersSet'
    BY <2>2 DEF SearchInv, NumbersSet
  <2>. QED BY <2>2, <2>3, <2>4, <2>5, <2>6, <2>7, SearchFrame
<1>5. CASE Main /\ ~RegisterClient /\ ~Spawn
  BY <1>2, <1>5 DEF Main, AcceptCall, AcceptReturn, AcceptFail, Reject, SpawnFail,
                    tableVars, threadVars
\* a handler that leaves the table alone
<1>6. ASSUME NEW c \in Conn, UNCHANGED <<clients, hfd>>,
             \A d \in Conn : d # c =>
               hpc'[d] = hpc[d] /\ hi'[d] = hi[d] /\ client_id'[d] = client_id[d],
             hpc'[c] = "scan" => client_id'[c] > 0 \/ Ahead(c)',
             hpc'[c] = "id" => clients[hi'[c]].id > 0,
             hpc'[c] \in {"recv", "lock", "send", "unlist", "close"} => client_id'[c] > 0
      PROVE  SearchInv'
  <2>1. NumbersSet' /\ \A i \in Slot : Active(i)' <=> Active(i)
    BY <1>6 DEF SearchInv, NumbersSet, Active
  <2>. QED BY <1>6, <2>1, SearchFrame
<1>7. ASSUME NEW c \in Conn, ScanSlot(c) PROVE SearchInv'
  <2>1. /\ hpc[c] = "scan" /\ hi[c] \in Slot /\ hfd[c] \in Fd
        /\ UNCHANGED <<clients, hfd, client_id>>
    BY <1>1, <1>7 DEF ScanSlot, tableVars, IndexOK, OwnInv, HandlersOwn, Alive
  <2>2. CASE clients[hi[c]].fd = hfd[c]
    <3>1. hpc' = [hpc EXCEPT ![c] = "id"] /\ UNCHANGED hi
      BY <1>7, <2>2 DEF ScanSlot
    <3>2. clients[hi[c]].id > 0
      BY <2>1, <2>2 DEF SearchInv, NumbersSet, Fd
    <3>. QED BY <1>1, <1>6, <2>1, <3>1, <3>2 DEF ThreadTypeOK
  <2>3. CASE clients[hi[c]].fd # hfd[c]
    <3>1. Advance(c)
      BY <1>7, <2>3 DEF ScanSlot
    <3>2. /\ hpc'[c] = IF hi[c] < MaxClients THEN "scan" ELSE "recv"
          /\ hi[c] < MaxClients => hi'[c] = hi[c] + 1
          /\ \A d \in Conn : d # c => hpc'[d] = hpc[d] /\ hi'[d] = hi[d]
      BY <1>1, <3>1 DEF Advance, ThreadTypeOK
    <3>3. client_id[c] > 0 \/ \E i \in Slot : i > hi[c] /\ Active(i) /\ clients[i].fd = hfd[c]
      BY <2>1, <2>3 DEF SearchInv, Ahead, Slot
    <3>4. hi[c] < MaxClients => client_id'[c] > 0 \/ Ahead(c)'
      BY <2>1, <3>2, <3>3 DEF Ahead, Active, Slot
    <3>5. ~(hi[c] < MaxClients) => client_id'[c] > 0
      BY <2>1, <3>3 DEF Slot
    <3>. QED BY <1>6, <2>1, <3>2, <3>4, <3>5
  <2>. QED BY <2>2, <2>3
<1>8. ASSUME NEW c \in Conn, ReadId(c) PROVE SearchInv'
  <2>1. /\ hpc[c] = "id" /\ Advance(c) /\ UNCHANGED <<clients, hfd>>
        /\ client_id' = [client_id EXCEPT ![c] = clients[hi[c]].id]
    BY <1>8 DEF ReadId, tableVars
  <2>2. client_id'[c] > 0 /\ \A d \in Conn : d # c => client_id'[d] = client_id[d]
    BY <1>1, <2>1 DEF SearchInv, ThreadTypeOK
  <2>3. /\ hpc'[c] \in {"scan", "recv"}
        /\ \A d \in Conn : d # c => hpc'[d] = hpc[d] /\ hi'[d] = hi[d]
    BY <1>1, <2>1 DEF Advance, ThreadTypeOK
  <2>. QED BY <1>6, <2>1, <2>2, <2>3
<1>9. ASSUME NEW c \in Conn, Recv(c) \/ BroadcastLock(c) \/ BroadcastSend(c) \/ BroadcastUnlock(c)
      PROVE  SearchInv'
  <2>1. UNCHANGED <<clients, hfd, client_id>> /\ hpc[c] \in {"recv", "lock", "send"}
    BY <1>9 DEF Recv, BroadcastLock, StartBroadcast, BroadcastSend, BroadcastUnlock, tableVars
  <2>2. client_id[c] > 0
    BY <2>1 DEF SearchInv
  <2>3. /\ hpc'[c] \notin {"scan", "id"}
        /\ \A d \in Conn : d # c => hpc'[d] = hpc[d] /\ hi'[d] = hi[d]
    BY <1>1, <1>9 DEF Recv, BroadcastLock, BroadcastSend, BroadcastUnlock, ThreadTypeOK
  <2>. QED BY <1>6, <2>1, <2>2, <2>3
<1>10. ASSUME NEW c \in Conn, Unlist(c) PROVE SearchInv'
  <2>1. /\ hpc[c] = "unlist" /\ hpc' = [hpc EXCEPT ![c] = "close"]
        /\ UNCHANGED <<hfd, hi, client_id>>
    BY <1>10 DEF Unlist
  <2>2. hfd[c] \in Fd /\ fdt[hfd[c]] = c
    BY <2>1 DEF OwnInv, HandlersOwn, Alive
  <2>3. ASSUME NEW j \in Slot
        PROVE  /\ clients'[j].fd = clients[j].fd /\ clients'[j].id = clients[j].id
               /\ Active(j) /\ clients[j].fd # hfd[c] => Active(j)'
    <3>1. clients'[j] = IF FirstWithFd(j, hfd[c])
                        THEN [clients[j] EXCEPT !.is_active = FALSE] ELSE clients[j]
      BY <1>10 DEF Unlist, Unregister
    <3>2. clients[j] \in [fd : Fd \cup {0}, id : Nat, is_active : BOOLEAN]
      BY <1>1 DEF TableTypeOK
    <3>. QED BY <3>1, <3>2 DEF FirstWithFd, Active
  <2>4. ASSUME NEW d \in Conn, d # c, hpc[d] = "scan" PROVE hfd[d] # hfd[c]
    BY <2>2, <2>4 DEF OwnInv, HandlersOwn, Alive
  <2>5. NumbersSet'
    BY <2>3 DEF SearchInv, NumbersSet
  <2>6. hpc'[c] = "close" /\ client_id'[c] > 0 /\ \A d \in Conn : d # c => hpc'[d] = hpc[d]
    BY <1>1, <2>1 DEF SearchInv, ThreadTypeOK
  <2>7. \A d \in Conn : \A i \in Slot :
          d # c /\ hpc[d] = "scan" /\ Active(i) /\ clients[i].fd = hfd[d]
            => Active(i)' /\ clients'[i].fd = clients[i].fd
    BY <2>3, <2>4
  <2>. QED BY <2>1, <2>3, <2>5, <2>6, <2>7, SearchFrame
<1>11. ASSUME NEW c \in Conn, Close(c) PROVE SearchInv'
  <2>1. /\ hpc' = [hpc EXCEPT ![c] = "done"] /\ hfd' = [hfd EXCEPT ![c] = 0]
        /\ client_id' = [client_id EXCEPT ![c] = 0] /\ UNCHANGED <<clients, hi>>
    BY <1>11 DEF Close, tableVars
  <2>2. /\ hpc'[c] = "done"
        /\ \A d \in Conn : d # c =>
             hpc'[d] = hpc[d] /\ hfd'[d] = hfd[d] /\ client_id'[d] = client_id[d]
    BY <1>1, <2>1 DEF ThreadTypeOK
  <2>3. NumbersSet' /\ \A i \in Slot : Active(i)' <=> Active(i)
    BY <2>1 DEF SearchInv, NumbersSet, Active
  <2>. QED BY <2>1, <2>2, <2>3, SearchFrame
<1>12. CASE Client \/ UNCHANGED vars
  BY <1>2, <1>12 DEF Client, vars, tableVars, threadVars
<1>. QED BY <1>3, <1>4, <1>5, <1>7, <1>8, <1>9, <1>10, <1>11, <1>12 DEF Next, Handler

\* The unlocked search of client_handler (server_thread.c:52) always finds a slot,
\* so that client_id, which has no initial value, is set before it is printed.
THEOREM LabelsAreSet == Spec => []LabelIsSet
<1>1. Init => SearchInv
  BY DEF Init, TableInit, SearchInv, NumbersSet
<1>2. TypeInv /\ OwnInv /\ SearchInv /\ [Next]_vars => SearchInv'
  BY SearchStep
<1>3. SearchInv => LabelIsSet
  BY DEF SearchInv, LabelIsSet
<1>. QED BY <1>1, <1>2, <1>3, Owned, PTL DEF Spec

-----------------------------------------------------------------------------
(* The mutex *)

\* Nobody holds the mutex at the start.
LEMMA InitMutex == Init => MutexOwn
BY SocketsAssumption DEF Init, MutexOwn

\* The mutex changes hands with the counter of the program, never otherwise.
LEMMA MutexStep == TypeInv /\ OwnInv /\ MutexOwn /\ [Next]_vars => MutexOwn'
<1>. SUFFICES ASSUME ThreadTypeOK, OwnInv, MutexOwn, [Next]_vars PROVE MutexOwn'
  BY TypeParts
<1>. USE SocketsAssumption DEF At, HandlerAt, MutexOwn
<1>1. CASE Main
  <2>1. CASE Spawn
    <3>1. fdt[mfd] \in Conn /\ hpc[fdt[mfd]] = "none"
      BY <2>1 DEF Spawn, OwnInv, MainOwns
    <3>. QED BY <2>1, <3>1 DEF Spawn, ThreadTypeOK
  <2>2. CASE ~Spawn
    BY <1>1, <2>2 DEF Main, AcceptCall, AcceptReturn, AcceptFail, RegisterClient,
                      Reject, SpawnFail, threadVars
  <2>. QED BY <2>1, <2>2
<1>2. ASSUME NEW c \in Conn, Handler(c) PROVE MutexOwn'
  <2>1. CASE ScanSlot(c) \/ ReadId(c)
    BY <2>1 DEF ScanSlot, ReadId, Advance, ThreadTypeOK
  <2>2. CASE Recv(c) \/ Unlist(c) \/ Close(c)
    BY <2>2 DEF Recv, Unlist, Close, ThreadTypeOK
  <2>3. CASE BroadcastLock(c)
    BY <2>3 DEF BroadcastLock, ThreadTypeOK
  <2>4. CASE BroadcastSend(c)
    BY <2>4 DEF BroadcastSend
  <2>5. CASE BroadcastUnlock(c)
    BY <2>5 DEF BroadcastUnlock, ThreadTypeOK
  <2>. QED BY <1>2, <2>1, <2>2, <2>3, <2>4, <2>5 DEF Handler
<1>3. CASE Client \/ UNCHANGED vars
  BY <1>3 DEF Client, vars, threadVars
<1>. QED BY <1>1, <1>2, <1>3 DEF Next

-----------------------------------------------------------------------------
(* Quit notices *)

\* whoever said goodbye is on its way out
ByeInv ==
  \A k \in DOMAIN log : log[k].upto = 0 =>
    /\ hpc[log[k].src] \in {"send", "unlist", "close", "done"}
    /\ hpc[log[k].src] = "send" => hmsg[log[k].src] = 0

\* Only taking the lock for a broadcast adds to the log.
LEMMA LogStep ==
  ASSUME [Next]_vars
  PROVE  \/ UNCHANGED log
         \/ \E c \in Conn : BroadcastLock(c)
<1>1. ASSUME NEW c \in Conn, Handler(c), ~BroadcastLock(c) PROVE UNCHANGED log
  BY <1>1 DEF Handler, ScanSlot, ReadId, Recv, BroadcastSend, BroadcastUnlock, Unlist,
              Unregister, Close, tableVars
<1>2. CASE Main
  BY <1>2 DEF Main, AcceptCall, AcceptReturn, AcceptFail, RegisterClient, Register,
              Reject, Spawn, SpawnFail, tableVars
<1>3. CASE Client \/ UNCHANGED vars
  BY <1>3 DEF Client, vars, tableVars
<1>. QED BY <1>1, <1>2, <1>3 DEF Next

\* A handler on its way out stays there, and so does the message it formatted.
LEMMA OutStep ==
  ASSUME TypeInv, OwnInv, [Next]_vars, NEW d \in Conn,
         hpc[d] \in {"send", "unlist", "close", "done"},
         hpc[d] = "send" => hmsg[d] = 0
  PROVE  /\ hpc'[d] \in {"send", "unlist", "close", "done"}
         /\ hpc'[d] = "send" => hmsg'[d] = 0
<1>. USE TypeParts DEF At, HandlerAt, ThreadTypeOK
<1>1. CASE Main
  <2>1. CASE Spawn
    <3>1. fdt[mfd] \in Conn /\ hpc[fdt[mfd]] = "none"
      BY <2>1 DEF Spawn, OwnInv, MainOwns
    <3>. QED BY <2>1, <3>1 DEF Spawn
  <2>2. CASE ~Spawn
    BY <1>1, <2>2 DEF Main, AcceptCall, AcceptReturn, AcceptFail, RegisterClient,
                      Reject, SpawnFail, threadVars
  <2>. QED BY <2>1, <2>2
<1>2. ASSUME NEW c \in Conn, Handler(c) PROVE
         /\ hpc'[d] \in {"send", "unlist", "close", "done"}
         /\ hpc'[d] = "send" => hmsg'[d] = 0
  <2>1. CASE ScanSlot(c) \/ ReadId(c)
    BY <2>1 DEF ScanSlot, ReadId, Advance
  <2>2. CASE Recv(c)
    BY <2>2 DEF Recv
  <2>3. CASE BroadcastLock(c) \/ BroadcastSend(c) \/ BroadcastUnlock(c)
    BY <2>3 DEF BroadcastLock, BroadcastSend, BroadcastUnlock
  <2>4. CASE Unlist(c) \/ Close(c)
    BY <2>4 DEF Unlist, Close
  <2>. QED BY <1>2, <2>1, <2>2, <2>3, <2>4 DEF Handler
<1>3. CASE Client \/ UNCHANGED vars
  BY <1>3 DEF Client, vars, threadVars
<1>. QED BY <1>1, <1>2, <1>3 DEF Next

\* The two survive a step: a new message comes from a handler that is not out.
LEMMA ByeStep ==
  ASSUME TypeInv, OwnInv, ByeInv, QuitNoticeIsLast, [Next]_vars
  PROVE  ByeInv' /\ QuitNoticeIsLast'
<1>1. log \in Seq(Message)
  BY TypeParts DEF TableTypeOK
<1>2. CASE UNCHANGED log
  <2>1. QuitNoticeIsLast'
    BY <1>2 DEF QuitNoticeIsLast
  <2>2. ASSUME NEW k \in DOMAIN log, log[k].upto = 0
        PROVE  /\ hpc'[log[k].src] \in {"send", "unlist", "close", "done"}
               /\ hpc'[log[k].src] = "send" => hmsg'[log[k].src] = 0
    <3>1. log[k].src \in Conn
      BY TypeParts, LogEntry
    <3>. QED BY <2>2, <3>1, OutStep DEF ByeInv
  <2>. QED BY <1>2, <2>1, <2>2 DEF ByeInv
<1>3. ASSUME NEW c \in Conn, BroadcastLock(c) PROVE ByeInv' /\ QuitNoticeIsLast'
  <2>1. /\ hpc[c] = "lock" /\ hpc' = [hpc EXCEPT ![c] = "send"] /\ UNCHANGED hmsg
        /\ log' = Append(log, [src |-> c, id |-> client_id[c], upto |-> hmsg[c]])
    BY <1>3 DEF BroadcastLock, StartBroadcast, HandlerAt
  <2>2. hpc \in [Conn -> HandlerPc]
    BY TypeParts DEF ThreadTypeOK
  <2>3. /\ DOMAIN log = 1 .. Len(log) /\ Len(log) \in Nat
        /\ DOMAIN log' = 1 .. Len(log) + 1
        /\ \A k \in DOMAIN log : log'[k] = log[k] /\ log[k].src \in Conn
        /\ log'[Len(log) + 1] = [src |-> c, id |-> client_id[c], upto |-> hmsg[c]]
    <3>1. \A k \in DOMAIN log : log[k].src \in Conn
      BY TypeParts, LogEntry
    <3>. QED BY <1>1, <2>1, <3>1
  <2>4. \A k \in DOMAIN log : log[k].upto = 0 => log[k].src # c
    BY <2>1 DEF ByeInv
  <2>5. QuitNoticeIsLast'
    <3>. SUFFICES ASSUME NEW j \in DOMAIN log', NEW k \in DOMAIN log', j < k,
                         log'[j].upto = 0
                  PROVE  log'[k].src # log'[j].src
      BY DEF QuitNoticeIsLast
    <3>1. j \in DOMAIN log
      BY <2>3
    <3>2. CASE k \in DOMAIN log
      BY <2>3, <3>1, <3>2 DEF QuitNoticeIsLast
    <3>3. CASE k = Len(log) + 1
      BY <2>3, <2>4, <3>1, <3>3
    <3>. QED BY <2>3, <3>2, <3>3
  <2>6. ByeInv'
    <3>. SUFFICES ASSUME NEW k \in DOMAIN log', log'[k].upto = 0
                  PROVE  /\ hpc'[log'[k].src] \in {"send", "unlist", "close", "done"}
                         /\ hpc'[log'[k].src] = "send" => hmsg'[log'[k].src] = 0
      BY DEF ByeInv
    <3>1. CASE k \in DOMAIN log
      BY <2>1, <2>2, <2>3, <2>4, <3>1 DEF ByeInv
    <3>2. CASE k = Len(log) + 1
      BY <2>1, <2>2, <2>3, <3>2
    <3>. QED BY <2>3, <3>1, <3>2
  <2>. QED BY <2>5, <2>6
<1>. QED BY <1>2, <1>3, LogStep

\* Nothing is broadcast from a client after its quit notice.
THEOREM QuitNoticesAreLast == Spec => []QuitNoticeIsLast
<1>1. Init => ByeInv /\ QuitNoticeIsLast
  BY DEF Init, TableInit, ByeInv, QuitNoticeIsLast
<1>2. (TypeInv /\ OwnInv /\ ByeInv /\ QuitNoticeIsLast) /\ [Next]_vars
        => (ByeInv /\ QuitNoticeIsLast)'
  BY ByeStep
<1>. QED BY <1>1, <1>2, Owned, PTL DEF Spec

-----------------------------------------------------------------------------
(* Delivery *)

\* The message being broadcast comes from the holder of the mutex, and nobody
\* enters the table while it is being broadcast.
HolderLast ==
  client_mutex \in Conn =>
    /\ hpc[client_mutex] = "send"
    /\ Len(log) > 0 /\ log[Len(log)].src = client_mutex
    /\ \A d \in Conn : joined[d] < Len(log)

JoinedInLog == \A c \in Conn : joined[c] <= Len(log)

\* what ExactDelivery says of one slot
Delivered(i) ==
  Active(i) /\ peer[ConnIn(i)] = "open" => HasExactly(ConnIn(i), PassedBy(i))

DeliveryInv ==
  /\ MutexOwn /\ HolderLast /\ JoinedInLog
  /\ \A i \in Slot : Delivered(i)

\* A slot whose stream, messages and place in the broadcast stay as they are
\* keeps what was delivered to it.
LEMMA DeliveredStays ==
  ASSUME NEW i \in Slot, Delivered(i),
         Active(i)' => Active(i),
         Active(i)' => clients'[i].fd = clients[i].fd
                         /\ fdt'[clients[i].fd] = fdt[clients[i].fd],
         peer'[ConnIn(i)] = "open" => peer[ConnIn(i)] = "open",
         inbox'[ConnIn(i)] = inbox[ConnIn(i)],
         joined'[ConnIn(i)] = joined[ConnIn(i)],
         UNCHANGED log, PassedBy(i)' = PassedBy(i)
  PROVE  Delivered(i)'
<1>. SUFFICES ASSUME Active(i)', peer'[ConnIn(i)'] = "open"
              PROVE  HasExactly(ConnIn(i), PassedBy(i))'
  BY DEF Delivered
<1>1. ConnIn(i)' = ConnIn(i)
  BY DEF ConnIn
<1>2. HasExactly(ConnIn(i), PassedBy(i))
  BY <1>1 DEF Delivered
<1>. QED BY <1>1, <1>2 DEF HasExactly, Elems, Increasing

\* At the start nothing was broadcast and nothing is owed.
LEMMA InitDelivery == Init => DeliveryInv
BY SocketsAssumption
DEF Init, SocketsInit, TableInit, DeliveryInv, MutexOwn, HolderLast, JoinedInLog,
    Delivered, Active

\* Steps of a handler that holds no mutex, and of main, do not move a broadcast.
LEMMA PassedStays ==
  ASSUME UNCHANGED <<client_mutex, log>>,
         client_mutex \in Conn => hi'[client_mutex] = hi[client_mutex],
         client_mutex \in Conn \cup {NoConn}, NEW i \in Slot
  PROVE  PassedBy(i)' = PassedBy(i)
BY SocketsAssumption DEF PassedBy

\* Every step keeps the streams exact: broadcast_msg owes each slot the newest
\* message until its loop has passed the slot, and nothing else.
LEMMA DeliveryStep == TypeInv /\ OwnInv /\ DeliveryInv /\ [Next]_vars => DeliveryInv'
<1>. SUFFICES ASSUME SocketsTypeOK, TableTypeOK, ThreadTypeOK, IndexOK, OwnInv, DeliveryInv,
                     TypeInv, [Next]_vars
              PROVE  DeliveryInv'
  BY TypeParts
<1>. USE SocketsAssumption, ChatServerAssumption DEF At, HandlerAt
<1>m. MutexOwn'
  BY MutexStep DEF DeliveryInv
<1>0. client_mutex \in Conn \cup {NoConn}
  BY DEF ThreadTypeOK
\* what remains to be shown of a step that adds nothing to the log
<1>l. ASSUME UNCHANGED <<log, client_mutex, joined>>,
             client_mutex \in Conn => hpc'[client_mutex] = "send",
             \A i \in Slot : Delivered(i)'
      PROVE  DeliveryInv'
  BY <1>m, <1>l DEF DeliveryInv, HolderLast, JoinedInLog
<1>1. CASE AcceptCall \/ AcceptFail \/ SpawnFail
  <2>1. /\ UNCHANGED <<fdt, peer, inbox, clients, log, joined, client_mutex, hi, hpc>>
    BY <1>1 DEF AcceptCall, AcceptFail, SpawnFail, tableVars, threadVars, sockVars
  <2>2. \A i \in Slot : Delivered(i)'
    BY <1>0, <2>1, DeliveredStays, PassedStays DEF DeliveryInv, Active
  <2>. QED BY <1>l, <2>1, <2>2 DEF DeliveryInv, HolderLast
<1>2. CASE AcceptReturn
  <2>1. PICK c \in backlog : AcceptConn(c, mfd)
    BY <1>2 DEF AcceptReturn
  <2>2. /\ mpc = "accept"
        /\ UNCHANGED <<peer, inbox, clients, log, joined, client_mutex, hi, hpc>>
    BY <1>2, <2>1 DEF AcceptReturn, AcceptConn, tableVars
  <2>3. mfd \in Fd /\ fdt[mfd] = NoConn /\ \A f \in Fd : f # mfd => fdt'[f] = fdt[f]
    BY <2>1, <2>2 DEF AcceptConn, OwnInv, MainOwns, SocketsTypeOK
  <2>4. \A i \in Slot : Active(i) => fdt'[clients[i].fd] = fdt[clients[i].fd]
    BY <2>3 DEF OwnInv, SlotsOwn, ConnIn
  <2>5. \A i \in Slot : Delivered(i)'
    BY <1>0, <2>2, <2>4, DeliveredStays, PassedStays DEF DeliveryInv, Active
  <2>. QED BY <1>l, <2>2, <2>5 DEF DeliveryInv, HolderLast
<1>3. CASE RegisterClient
  <2>1. CASE TableFull
    <3>1. UNCHANGED <<fdt, peer, inbox, clients, log, joined, client_mutex, hi, hpc>>
      BY <1>3, <2>1 DEF RegisterClient, tableVars, sockVars
    <3>2. \A i \in Slot : Delivered(i)'
      BY <1>0, <3>1, DeliveredStays, PassedStays DEF DeliveryInv, Active
    <3>. QED BY <1>l, <3>1, <3>2 DEF DeliveryInv, HolderLast
  <2>2. CASE ~TableFull
    <3>. DEFINE c == fdt[mfd]
    <3>1. PICK i \in Slot :
            /\ ~Active(i)
            /\ clients' = [clients EXCEPT ![i] =
                 [fd |-> mfd, id |-> total_connections + 1, is_active |-> TRUE]]
      BY <1>3, <2>2 DEF RegisterClient, Register, Active
    <3>2. /\ mpc = "register" /\ client_mutex = NoConn
          /\ joined' = [joined EXCEPT ![c] = Len(log)]
          /\ UNCHANGED <<fdt, peer, inbox, log, client_mutex, hi, hpc>>
      BY <1>3, <2>2 DEF RegisterClient, Register, sockVars
    <3>3. /\ mfd \in Fd /\ c \in Conn /\ inbox[c] = <<>> /\ idOf[c] = 0
      BY <3>2 DEF OwnInv, MainOwns, Fresh
    <3>4. clients'[i].fd = mfd /\ \A j \in Slot : j # i => clients'[j] = clients[j]
      BY <3>1 DEF TableTypeOK
    <3>5. /\ joined'[c] = Len(log) /\ Len(log) \in Nat
          /\ \A d \in Conn : d # c => joined'[d] = joined[d]
      BY <3>2, <3>3 DEF TableTypeOK
    <3>6. Delivered(i)'
      <4>1. ConnIn(i)' = c /\ PassedBy(i)' = Len(log)
        BY <3>2, <3>4 DEF ConnIn, PassedBy
      <4>2. inbox'[c] = <<>> /\ joined'[c] + 1 .. Len(log) = {}
        BY <3>2, <3>3, <3>5
      <4>3. Increasing(<<>>) /\ Elems(<<>>) = {}
        BY DEF Increasing, Elems
      <4>. QED BY <4>1, <4>2, <4>3 DEF Delivered, HasExactly, Increasing, Elems
    <3>7. ASSUME NEW j \in Slot, j # i PROVE Delivered(j)'
      <4>1. CASE Active(j)
        <5>1. ConnIn(j) \in Conn /\ ConnIn(j) # c
          BY <3>3, <4>1 DEF OwnInv, SlotsOwn
        <5>. QED BY <1>0, <3>2, <3>4, <3>5, <3>7, <5>1, DeliveredStays, PassedStays
                 DEF DeliveryInv, Active
      <4>2. CASE ~Active(j)
        BY <3>4, <3>7, <4>2 DEF Delivered, Active
      <4>. QED BY <4>1, <4>2
    <3>8. JoinedInLog'
      BY <3>2, <3>5 DEF JoinedInLog, DeliveryInv
    <3>9. HolderLast'
      BY <3>2 DEF HolderLast
    <3>. QED BY <1>m, <3>6, <3>7, <3>8, <3>9 DEF DeliveryInv
  <2>. QED BY <2>1, <2>2
<1>4. CASE Reject
  <2>1. /\ mpc = "reject"
        /\ UNCHANGED <<inbox, clients, log, joined, client_mutex, hi, hpc>>
        /\ \A d \in Conn : peer'[d] = "open" => peer[d] = "open"
        /\ \A f \in Fd : f # mfd => fdt'[f] = fdt[f]
    BY <1>4 DEF Reject, CloseFd, tableVars, SocketsTypeOK
  <2>2. \A i \in Slot : Active(i) => /\ fdt'[clients[i].fd] = fdt[clients[i].fd]
                                     /\ ConnIn(i) \in Conn
    BY <2>1 DEF OwnInv, MainOwns, SlotsOwn
  <2>3. \A i \in Slot : Delivered(i)'
    <3>. TAKE i \in Slot
    <3>1. CASE Active(i)
      BY <1>0, <2>1, <2>2, <3>1, DeliveredStays, PassedStays DEF DeliveryInv, Active
    <3>. QED BY <2>1, <3>1 DEF Delivered, Active
  <2>. QED BY <1>l, <2>1, <2>3 DEF DeliveryInv, HolderLast
<1>5. CASE Spawn
  <2>1. /\ mpc = "spawn" /\ hi' = [hi EXCEPT ![fdt[mfd]] = 1]
        /\ hpc' = [hpc EXCEPT ![fdt[mfd]] = "scan"]
        /\ UNCHANGED <<fdt, peer, inbox, clients, log, joined, client_mutex>>
    BY <1>5 DEF Spawn, tableVars, sockVars
  <2>2. fdt[mfd] \in Conn /\ hpc[fdt[mfd]] = "none"
    BY <2>1 DEF OwnInv, MainOwns
  <2>3. client_mutex \in Conn =>
          hpc'[client_mutex] = "send" /\ hi'[client_mutex] = hi[client_mutex]
    BY <2>1, <2>2 DEF DeliveryInv, HolderLast, ThreadTypeOK
  <2>4. \A i \in Slot : Delivered(i)'
    BY <1>0, <2>1, <2>3, DeliveredStays, PassedStays DEF DeliveryInv, Active
  <2>. QED BY <1>l, <2>1, <2>3, <2>4
<1>6. ASSUME NEW c \in Conn, hpc[c] # "send",
             UNCHANGED <<inbox, log, joined, client_mutex>>,
             \A d \in Conn : d # c => hi'[d] = hi[d] /\ hpc'[d] = hpc[d],
             \A d \in Conn : peer'[d] = "open" => peer[d] = "open",
             \A i \in Slot : Active(i)' =>
               /\ Active(i) /\ clients'[i].fd = clients[i].fd
               /\ fdt'[clients[i].fd] = fdt[clients[i].fd]
      PROVE  DeliveryInv'
  <2>1. client_mutex # c
    BY <1>6 DEF DeliveryInv, MutexOwn
  <2>2. \A i \in Slot : Delivered(i)'
    <3>. TAKE i \in Slot
    <3>1. CASE Active(i)'
      <4>1. ConnIn(i) \in Conn
        BY <1>6, <3>1 DEF OwnInv, SlotsOwn
      <4>. QED BY <1>0, <1>6, <2>1, <3>1, <4>1, DeliveredStays, PassedStays DEF
                  DeliveryInv
    <3>. QED BY <3>1 DEF Delivered, Active
  <2>. QED BY <1>l, <1>6, <2>1, <2>2 DEF DeliveryInv, HolderLast
<1>7. ASSUME NEW c \in Conn, BroadcastLock(c) PROVE DeliveryInv'
  <2>. DEFINE L == Len(log)
  <2>1. /\ client_mutex = NoConn /\ client_mutex' = c
        /\ hpc'[c] = "send" /\ hi'[c] = 1
        /\ log' = Append(log, [src |-> c, id |-> client_id[c], upto |-> hmsg[c]])
        /\ UNCHANGED <<fdt, peer, inbox, clients, joined>>
    BY <1>7 DEF BroadcastLock, StartBroadcast, sockVars, ThreadTypeOK
  <2>2. /\ L \in Nat /\ Len(log') = L + 1 /\ log'[L + 1].src = c
        /\ \A k \in 1 .. L : log'[k] = log[k]
    BY <2>1 DEF TableTypeOK
  <2>3. \A d \in Conn : joined[d] \in Nat /\ joined[d] <= L
    BY DEF DeliveryInv, JoinedInLog, TableTypeOK
  <2>4. HolderLast' /\ JoinedInLog'
    BY <2>1, <2>2, <2>3 DEF HolderLast, JoinedInLog
  <2>5. ASSUME NEW i \in Slot PROVE Delivered(i)'
    <3>1. PassedBy(i) = L /\ PassedBy(i)' = L
      BY <2>1, <2>2 DEF PassedBy, Slot
    <3>2. ConnIn(i)' = ConnIn(i)
      BY <2>1 DEF ConnIn
    <3>3. ASSUME Active(i)
          PROVE  {k \in joined[ConnIn(i)] + 1 .. L : log'[k].src # ConnIn(i)}
                   = {k \in joined[ConnIn(i)] + 1 .. L : log[k].src # ConnIn(i)}
      <4>1. ConnIn(i) \in Conn
        BY <3>3 DEF OwnInv, SlotsOwn
      <4>. QED BY <2>2, <2>3, <4>1
    <3>4. ASSUME Active(i), peer[ConnIn(i)] = "open"
          PROVE  /\ Increasing(inbox[ConnIn(i)])
                 /\ Elems(inbox[ConnIn(i)])
                      = {k \in joined[ConnIn(i)] + 1 .. L : log[k].src # ConnIn(i)}
      BY <3>1, <3>4 DEF DeliveryInv, Delivered, HasExactly
    <3>5. ASSUME Active(i)', peer'[ConnIn(i)'] = "open"
          PROVE  HasExactly(ConnIn(i), PassedBy(i))'
      <4>1. Active(i) /\ peer[ConnIn(i)] = "open"
        BY <2>1, <3>2, <3>5 DEF Active
      <4>2. Increasing(inbox'[ConnIn(i)])
        BY <2>1, <3>4, <4>1
      <4>3. Elems(inbox'[ConnIn(i)])
              = {k \in joined'[ConnIn(i)] + 1 .. L : log'[k].src # ConnIn(i)}
        BY <2>1, <3>3, <3>4, <4>1
      <4>. QED BY <3>1, <3>2, <4>2, <4>3 DEF HasExactly, Elems, Increasing
    <3>. QED BY <3>5 DEF Delivered
  <2>. QED BY <1>m, <2>4, <2>5 DEF DeliveryInv
<1>8. ASSUME NEW c \in Conn, BroadcastSend(c) PROVE DeliveryInv'
  <2>0. PICK h \in Slot : h = hi[c]
    BY <1>8 DEF BroadcastSend, IndexOK, Slot
  <2>. DEFINE L == Len(log)
              C == ConnIn(h)
  <2>1. /\ hpc[c] = "send" /\ h = hi[c] /\ hi'[c] = h + 1
        /\ BroadcastTo(h, hfd[c])
        /\ UNCHANGED <<fdt, clients, log, joined, client_mutex, hpc>>
    BY <1>8, <2>0 DEF BroadcastSend, BroadcastTo, tableVars, ThreadTypeOK
  <2>2. client_mutex = c /\ L \in Nat /\ L > 0 /\ log[L].src = c
    BY <2>1 DEF DeliveryInv, MutexOwn, HolderLast, TableTypeOK
  <2>3. \A d \in Conn : joined[d] \in Nat /\ joined[d] < L
    BY <2>2 DEF DeliveryInv, HolderLast, TableTypeOK
  <2>4. \A i \in Slot : i # h => PassedBy(i)' = PassedBy(i)
    BY <2>1, <2>2 DEF PassedBy, Slot
  <2>5. PassedBy(h) = L - 1 /\ PassedBy(h)' = L
    BY <2>1, <2>2 DEF PassedBy, Slot
  <2>6. hfd[c] \in Fd /\ fdt[hfd[c]] = c
    BY <2>1 DEF OwnInv, HandlersOwn, Alive
  <2>7. \A i \in Slot : i # h => Delivered(i)'
    <3>. SUFFICES ASSUME NEW i \in Slot, i # h, Active(i) PROVE Delivered(i)'
      BY <2>1 DEF Delivered, Active
    <3>1. ConnIn(i) \in Conn /\ clients[i].fd \in Fd
      BY DEF OwnInv, SlotsOwn
    <3>2. /\ peer'[ConnIn(i)] = "open" => peer[ConnIn(i)] = "open"
          /\ inbox'[ConnIn(i)] = inbox[ConnIn(i)]
      <4>1. CASE UNCHANGED <<inbox, peer>>
        BY <4>1
      <4>2. CASE Active(h) /\ Send(clients[h].fd, L)
        <5>1. ConnIn(i) # C
          BY <2>1, <3>1, <4>2 DEF OwnInv, SlotsOwn, OneFd, OneSlot, ConnIn
        <5>. QED BY <3>1, <4>2, <5>1 DEF Send, ConnIn, SocketsTypeOK
      <4>. QED BY <2>1, <4>1, <4>2 DEF BroadcastTo, Active
    <3>. QED BY <2>1, <2>4, <3>2, DeliveredStays DEF DeliveryInv, Active
  <2>8. Delivered(h)'
    <3>a. Active(h)' = Active(h) /\ ConnIn(h)' = C
      BY <2>1 DEF Active, ConnIn
    <3>b. HasExactly(ConnIn(h), PassedBy(h))'
            <=> /\ Increasing(inbox'[C])
                /\ Elems(inbox'[C]) = {k \in joined[C] + 1 .. L : log[k].src # C}
      BY <2>1, <2>5, <3>a DEF HasExactly, Increasing, Elems
    <3>. SUFFICES ASSUME Active(h), peer'[C] = "open"
                  PROVE  /\ Increasing(inbox'[C])
                         /\ Elems(inbox'[C]) = {k \in joined[C] + 1 .. L : log[k].src # C}
      BY <3>a, <3>b DEF Delivered
    <3>1. C \in Conn /\ clients[h].fd \in Fd
      BY <2>1 DEF OwnInv, SlotsOwn
    <3>2. inbox[C] \in Seq(Nat) /\ joined[C] \in Nat /\ joined[C] < L
      BY <2>3, <3>1 DEF SocketsTypeOK
    <3>3. ASSUME peer[C] = "open"
          PROVE  /\ Increasing(inbox[C])
                 /\ Elems(inbox[C]) = {k \in joined[C] + 1 .. L - 1 : log[k].src # C}
      BY <2>1, <2>5, <3>3 DEF DeliveryInv, Delivered, HasExactly
    <3>4. CASE clients[h].fd = hfd[c]
      <4>1. C = c /\ UNCHANGED <<inbox, peer>>
        BY <2>1, <2>6, <3>4 DEF BroadcastTo, ConnIn
      <4>. QED BY <2>2, <3>2, <3>3, <4>1
    <3>5. CASE clients[h].fd # hfd[c]
      <4>1. C # c
        BY <2>6, <3>1, <3>5 DEF OwnInv, OneFd, ConnIn
      <4>2. Send(clients[h].fd, L)
        BY <2>1, <3>5 DEF BroadcastTo, Active
      <4>3. peer[C] = "open" /\ inbox'[C] = Append(inbox[C], L)
        BY <3>1, <4>2 DEF Send, ConnIn, SocketsTypeOK
      <4>4. /\ Increasing(Append(inbox[C], L))
            /\ Elems(Append(inbox[C], L)) = Elems(inbox[C]) \cup {L}
        BY <2>2, <3>2, <3>3, <4>3, AppendNext
      <4>5. {k \in joined[C] + 1 .. L : log[k].src # C}
              = {k \in joined[C] + 1 .. L - 1 : log[k].src # C} \cup {L}
        BY <2>2, <3>2, <4>1
      <4>. QED BY <3>3, <4>3, <4>4, <4>5
    <3>. QED BY <3>4, <3>5
  <2>9. \A i \in Slot : Delivered(i)'
    BY <2>7, <2>8
  <2>. QED BY <1>l, <2>1, <2>2, <2>9
<1>9. ASSUME NEW c \in Conn, BroadcastUnlock(c) PROVE DeliveryInv'
  <2>1. /\ hpc[c] = "send" /\ hi[c] > MaxClients /\ client_mutex' = NoConn
        /\ UNCHANGED <<fdt, peer, inbox, clients, log, joined>>
    BY <1>9 DEF BroadcastUnlock, sockVars, tableVars
  <2>2. client_mutex = c /\ hi[c] \in Int
    BY <2>1 DEF DeliveryInv, MutexOwn, ThreadTypeOK
  <2>3. \A i \in Slot : PassedBy(i)' = PassedBy(i)
    BY <2>1, <2>2 DEF PassedBy, Slot
  <2>4. \A i \in Slot : Delivered(i)'
    BY <2>1, <2>3, DeliveredStays DEF DeliveryInv, Active
  <2>5. HolderLast' /\ JoinedInLog'
    BY <2>1 DEF HolderLast, JoinedInLog, DeliveryInv
  <2>. QED BY <1>m, <2>4, <2>5 DEF DeliveryInv
<1>10. ASSUME NEW c \in Conn, Handler(c) PROVE DeliveryInv'
  <2>1. CASE ScanSlot(c) \/ ReadId(c)
    BY <1>6, <2>1 DEF ScanSlot, ReadId, Advance, sockVars, tableVars, ThreadTypeOK, Active
  <2>2. CASE Recv(c)
    <3>1. /\ UNCHANGED <<fdt, inbox>>
          /\ \A d \in Conn : peer'[d] = "open" => peer[d] = "open"
      BY <2>2 DEF Recv, RecvData, RecvEof, RecvError, sockVars, SocketsTypeOK
    <3>. QED BY <1>6, <2>2, <3>1 DEF Recv, tableVars, ThreadTypeOK, Active
  <2>3. CASE Unlist(c)
    <3>1. ASSUME NEW j \in Slot
          PROVE  clients'[j].fd = clients[j].fd /\ (Active(j)' => Active(j))
      <4>1. clients'[j] = IF FirstWithFd(j, hfd[c])
                          THEN [clients[j] EXCEPT !.is_active = FALSE] ELSE clients[j]
        BY <2>3 DEF Unlist, Unregister
      <4>2. clients[j] \in [fd : Fd \cup {0}, id : Nat, is_active : BOOLEAN]
        BY DEF TableTypeOK
      <4>. QED BY <4>1, <4>2 DEF Active
    <3>. QED BY <1>6, <2>3, <3>1 DEF Unlist, Unregister, sockVars, ThreadTypeOK
  <2>4. CASE Close(c)
    <3>1. /\ hpc[c] = "close" /\ hfd[c] \in Fd /\ fdt[hfd[c]] = c
      BY <2>4 DEF Close, OwnInv, HandlersOwn, Alive
    <3>2. \A i \in Slot : Active(i) => clients[i].fd # hfd[c]
      BY <3>1 DEF OwnInv, SlotsOwn, ConnIn
    <3>3. /\ \A f \in Fd : f # hfd[c] => fdt'[f] = fdt[f]
          /\ \A d \in Conn : peer'[d] = "open" => peer[d] = "open"
          /\ UNCHANGED <<inbox, clients, log, joined, client_mutex, hi>>
          /\ \A d \in Conn : d # c => hpc'[d] = hpc[d]
      BY <2>4 DEF Close, CloseFd, tableVars, SocketsTypeOK, ThreadTypeOK
    <3>4. \A i \in Slot : Active(i) => clients[i].fd \in Fd
      BY DEF OwnInv, SlotsOwn
    <3>5. \A i \in Slot : Active(i)' =>
            /\ Active(i) /\ clients'[i].fd = clients[i].fd
            /\ fdt'[clients[i].fd] = fdt[clients[i].fd]
      BY <3>2, <3>3, <3>4 DEF Active
    <3>. QED BY <1>6, <3>1, <3>3, <3>5
  <2>. QED BY <1>7, <1>8, <1>9, <1>10, <2>1, <2>2, <2>3, <2>4 DEF Handler
<1>11. CASE Client
  <2>1. /\ UNCHANGED <<fdt, inbox, clients, log, joined, client_mutex, hi, hpc>>
        /\ \A d \in Conn : peer'[d] = "open" => peer[d] \in {"open", "idle"}
    BY <1>11 DEF Client, ClientNext, Connect, ClientSend, ClientReads, ClientRead,
                 ClientExit, tableVars, threadVars, SocketsTypeOK
  <2>2. ASSUME NEW i \in Slot PROVE Delivered(i)'
    <3>1. CASE Active(i)
      <4>1. ConnIn(i) \in Conn /\ peer[ConnIn(i)] # "idle"
        BY <3>1 DEF OwnInv, SlotsOwn, Unaccepted, ConnIn
      <4>. QED BY <1>0, <2>1, <4>1, DeliveredStays, PassedStays DEF DeliveryInv, Active
    <3>. QED BY <2>1, <3>1 DEF Delivered, Active
  <2>. QED BY <1>l, <2>1, <2>2 DEF DeliveryInv, HolderLast
<1>12. CASE UNCHANGED vars
  <2>1. UNCHANGED <<fdt, peer, inbox, clients, log, joined, client_mutex, hi, hpc>>
    BY <1>12 DEF vars, sockVars, tableVars, threadVars
  <2>2. \A i \in Slot : Delivered(i)'
    BY <1>0, <2>1, DeliveredStays, PassedStays DEF DeliveryInv, Active
  <2>. QED BY <1>l, <2>1, <2>2 DEF DeliveryInv, HolderLast
<1>. QED BY <1>1, <1>2, <1>3, <1>4, <1>5, <1>10, <1>11, <1>12 DEF Next, Main

\* Every connected client of server_thread.c has been sent exactly the messages
\* of the others since it was listed, once each and in the one order in which
\* broadcast_msg took client_mutex for them.
THEOREM DeliveryIsExact == Spec => []ExactDelivery
<1>1. Init => DeliveryInv
  BY InitDelivery
<1>2. TypeInv /\ OwnInv /\ DeliveryInv /\ [Next]_vars => DeliveryInv'
  BY DeliveryStep
<1>3. DeliveryInv => ExactDelivery
  BY DEF DeliveryInv, Delivered, ExactDelivery, Active
<1>. QED BY <1>1, <1>2, <1>3, Owned, PTL DEF Spec

-----------------------------------------------------------------------------
(* The server is one room *)

\* where a handler whose client is in the table can be
Inside == {"scan", "id", "recv", "lock", "send", "unlist"}

\* A handler's client is in the table until the handler takes it out, and who said
\* goodbye, or is about to, has gone.
HandlersListed == \A c \in Conn : hpc[c] \in Inside => Listed(c)
Parting(c) == SaidBye(c) \/ (hpc[c] = "lock" /\ hmsg[c] = 0)
PartedGone == \A c \in Conn : Parting(c) => peer[c] \notin {"idle", "open"}

RoomServed == RoomInv /\ HandlersListed /\ PartedGone

\* The room is empty at the start.
LEMMA InitServed == Init => RoomServed
<1>. SUFFICES ASSUME Init PROVE RoomServed
  OBVIOUS
<1>1. RoomInv
  BY InitRoom DEF Init
<1>2. HandlersListed
  BY DEF Init, HandlersListed, Inside
<1>3. PartedGone
  BY DEF Init, TableInit, PartedGone, Parting, SaidBye
<1>. QED BY <1>1, <1>2, <1>3 DEF RoomServed

\* The slots are about different connections, accepted ones, also between the clean-up
\* of a slot and the close of its descriptor.
LEMMA OwnSlots ==
  ASSUME OwnInv
  PROVE  /\ SlotsLive /\ SlotsApart
         /\ \A c \in Conn : idOf[c] = 0 => ~Listed(c)
<1>1. ASSUME NEW i \in Slot, clients[i].is_active
      PROVE  /\ ConnIn(i) \in Conn /\ peer[ConnIn(i)] # "idle" /\ idOf[ConnIn(i)] # 0
             /\ clients[i].fd \in Fd
  <2>1. /\ ConnIn(i) \in Conn /\ clients[i].fd \in Fd
        /\ idOf[ConnIn(i)] = clients[i].id /\ clients[i].id > 0
    BY <1>1 DEF OwnInv, SlotsOwn, Active
  <2>2. peer[ConnIn(i)] # "idle"
    BY <2>1 DEF OwnInv, Unaccepted, ConnIn
  <2>. QED BY <2>1, <2>2
<1>2. SlotsLive
  BY <1>1 DEF SlotsLive
<1>3. SlotsApart
  <2>. SUFFICES ASSUME NEW i \in Slot, NEW j \in Slot, clients[i].is_active, clients[j].is_active,
                       ConnIn(i) = ConnIn(j)
                PROVE  i = j
    BY DEF SlotsApart
  <2>1. clients[i].fd = clients[j].fd
    BY <1>1, SocketsAssumption DEF OwnInv, OneFd, ConnIn
  <2>. QED BY <2>1 DEF OwnInv, OneSlot, Active
<1>. QED BY <1>1, <1>2, <1>3 DEF Listed

\* While nobody broadcasts everybody has heard everything.
LEMMA AllHeard ==
  ASSUME TypeInv, OwnInv, DeliveryInv, client_mutex = NoConn
  PROVE  Room!AllHaveHeard /\ \A i \in Slot : Heard(i, Len(log))
<1>1. \A i \in Slot : Heard(i, Len(log))
  BY DEF DeliveryInv, Delivered, PassedBy, Heard, Active
<1>. QED BY <1>1, OwnSlots, TypeParts, RoomHasHeard

\* A step that leaves the table and the streams alone.
LEMMA StillServed ==
  ASSUME RoomServed, UNCHANGED tableVars, UNCHANGED inbox,
         \A i \in Slot : clients[i].is_active => ConnIn(i)' = ConnIn(i),
         \A d \in Conn : hpc'[d] \in Inside => hpc[d] \in Inside \/ Listed(d),
         \A d \in Conn : hpc'[d] = "lock" /\ hmsg'[d] = 0 =>
           (hpc[d] = "lock" /\ hmsg[d] = 0) \/ peer[d] \notin {"idle", "open"},
         \A d \in Conn : peer[d] \notin {"idle", "open"} => peer'[d] \notin {"idle", "open"}
  PROVE  /\ RoomServed' /\ UNCHANGED <<idOf, log, joined, inbox>>
         /\ \A d \in Conn : Listed(d)' <=> Listed(d)
<1>1. UNCHANGED <<clients, log, joined, idOf>>
  BY DEF tableVars
<1>2. \A d \in Conn : (Listed(d)' <=> Listed(d)) /\ (SaidBye(d)' <=> SaidBye(d))
  BY <1>1 DEF Listed, SaidBye
<1>3. RoomInv'
  BY <1>1, RoomKept DEF RoomServed
<1>4. HandlersListed'
  BY <1>2 DEF RoomServed, HandlersListed, Inside
<1>5. PartedGone'
  BY <1>2 DEF RoomServed, PartedGone, Parting
<1>. QED BY <1>1, <1>2, <1>3, <1>4, <1>5 DEF RoomServed

\* A step of which the room does not notice more than that a connection breaks.
LEMMA StillRoom ==
  ASSUME UNCHANGED <<idOf, log, joined, inbox>>, \A d \in Conn : Listed(d)' <=> Listed(d),
         Unreachable' = Unreachable \/ \E c \in Conn : Unreachable' = Unreachable \cup {c}
  PROVE  [Room!RoomNext]_(Room!roomVars)
<1>1. CASE Unreachable' = Unreachable
  BY <1>1, RoomStutters
<1>2. ASSUME NEW c \in Conn, Unreachable' = Unreachable \cup {c}
      PROVE  [Room!RoomNext]_(Room!roomVars)
  <2>1. Room!Vanish(c)
    BY <1>2, RoomVanishes
  <2>. QED BY <2>1 DEF Room!RoomNext
<1>. QED BY <1>1, <1>2

\* What main does: a client joins, or is refused and vanishes.
LEMMA MainRoom ==
  ASSUME TypeInv, OwnInv, DeliveryInv, RoomServed, Main
  PROVE  RoomServed' /\ [Room!RoomNext]_(Room!roomVars)
<1>1. SocketsTypeOK /\ TableTypeOK /\ ThreadTypeOK
  BY TypeParts
<1>2. \A i \in Slot : clients[i].is_active => clients[i].fd \in Fd /\ ConnIn(i) \in Conn
  BY DEF OwnInv, SlotsOwn, Active
<1>3. ASSUME UNCHANGED tableVars, UNCHANGED <<inbox, hmsg>>,
             \A i \in Slot : clients[i].is_active => ConnIn(i)' = ConnIn(i),
             UNCHANGED peer \/ \E c \in Conn : peer' = [d \in Conn |-> IF d = c THEN "shut" ELSE peer[d]],
             \A d \in Conn : hpc'[d] = hpc[d] \/ (hpc'[d] = "scan" /\ Listed(d))
      PROVE  RoomServed' /\ [Room!RoomNext]_(Room!roomVars)
  <2>1. /\ RoomServed' /\ UNCHANGED <<idOf, log, joined, inbox>>
        /\ \A d \in Conn : Listed(d)' <=> Listed(d)
    BY <1>3, StillServed DEF Inside
  <2>2. Unreachable' = Unreachable \/ \E c \in Conn : Unreachable' = Unreachable \cup {c}
    BY <1>3 DEF Unreachable
  <2>. QED BY <2>1, <2>2, StillRoom
<1>4. CASE AcceptCall \/ AcceptFail \/ SpawnFail
  <2>1. UNCHANGED tableVars /\ UNCHANGED <<fdt, inbox, peer, hpc, hmsg>>
    BY <1>4 DEF AcceptCall, AcceptFail, SpawnFail, sockVars, threadVars
  <2>. QED BY <1>3, <2>1 DEF ConnIn, tableVars
<1>5. CASE AcceptReturn
  <2>1. PICK c \in backlog : AcceptConn(c, mfd)
    BY <1>5 DEF AcceptReturn
  <2>2. UNCHANGED tableVars /\ UNCHANGED <<inbox, peer, hpc, hmsg>>
    BY <1>5, <2>1 DEF AcceptReturn, AcceptConn
  <2>3. mfd \in Fd /\ fdt[mfd] = NoConn /\ \A f \in Fd : f # mfd => fdt'[f] = fdt[f]
    BY <1>1, <1>5, <2>1 DEF AcceptReturn, At, AcceptConn, OwnInv, MainOwns, SocketsTypeOK
  <2>4. \A i \in Slot : clients[i].is_active => ConnIn(i)' = ConnIn(i)
    BY <1>2, <2>2, <2>3, SocketsAssumption DEF ConnIn, tableVars
  <2>. QED BY <1>3, <2>2, <2>4
<1>6. CASE Reject
  <2>1. PICK f \in Fd : f = mfd /\ CloseFd(f) /\ fdt[f] \in Conn
    BY <1>6 DEF Reject, At, OwnInv, MainOwns
  <2>2. /\ UNCHANGED tableVars /\ UNCHANGED <<inbox, hpc, hmsg>>
        /\ peer' = [d \in Conn |-> IF d = fdt[f] THEN "shut" ELSE peer[d]]
    BY <1>6, <2>1 DEF Reject, CloseFd
  <2>3. \A g \in Fd : g # f => fdt'[g] = fdt[g]
    BY <1>1, <2>1 DEF CloseFd, SocketsTypeOK
  <2>4. \A i \in Slot : clients[i].is_active => clients[i].fd # f
    BY <1>6, <2>1 DEF Reject, At, OwnInv, MainOwns, Active
  <2>5. \A i \in Slot : clients[i].is_active => ConnIn(i)' = ConnIn(i)
    BY <1>2, <2>2, <2>3, <2>4 DEF ConnIn, tableVars
  <2>. QED BY <1>3, <2>1, <2>2, <2>5
<1>7. CASE Spawn
  <2>1. /\ UNCHANGED tableVars /\ UNCHANGED <<fdt, inbox, peer, hmsg>>
        /\ hpc' = [hpc EXCEPT ![fdt[mfd]] = "scan"]
    BY <1>7 DEF Spawn, sockVars
  <2>2. fdt[mfd] \in Conn /\ Listed(fdt[mfd])
    BY <1>7 DEF Spawn, At, OwnInv, MainOwns, Active, Listed, ConnIn
  <2>3. \A d \in Conn : hpc'[d] = hpc[d] \/ (hpc'[d] = "scan" /\ Listed(d))
    BY <1>1, <2>1, <2>2 DEF ThreadTypeOK
  <2>4. \A i \in Slot : ConnIn(i)' = ConnIn(i)
    BY <2>1 DEF ConnIn, tableVars
  <2>. QED BY <1>3, <2>1, <2>3, <2>4
<1>8. CASE RegisterClient
  <2>1. CASE UNCHANGED tableVars
    <3>1. UNCHANGED <<fdt, inbox, peer, hpc, hmsg>>
      BY <1>8 DEF RegisterClient, sockVars
    <3>. QED BY <1>3, <2>1, <3>1 DEF ConnIn, tableVars
  <2>2. CASE Register(fdt[mfd], mfd)
    <3>1. PICK c \in Conn, f \in Fd : f = mfd /\ c = fdt[f] /\ Register(c, f)
      BY <1>8, <2>2 DEF RegisterClient, At, OwnInv, MainOwns
    <3>2. /\ idOf[c] = 0 /\ inbox[c] = <<>> /\ hpc[c] = "none" /\ client_mutex = NoConn
          /\ UNCHANGED <<fdt, inbox, peer, hpc, hmsg>>
      BY <1>8, <3>1 DEF RegisterClient, At, OwnInv, MainOwns, Fresh, sockVars
    <3>3. ~Listed(c) /\ ~SaidBye(c) /\ SlotsLive
      BY <3>2, OwnSlots DEF RoomServed, RoomInv, SaidBye
    <3>4. Listed(c)' /\ \A d \in Conn : d # c => (Listed(d)' <=> Listed(d))
      BY <1>1, <3>1, <3>2, <3>3, RegisterLists
    <3>5. Unreachable' = Unreachable
      BY <3>2 DEF Unreachable
    <3>6. Room!Join(c)
      BY <1>1, <3>1, <3>2, <3>3, <3>4, <3>5, AllHeard, RoomJoins
    <3>7. RoomInv'
      BY <1>1, <3>1, <3>2, JoinKeeps DEF RoomServed
    <3>8. HandlersListed'
      BY <3>2, <3>4 DEF RoomServed, HandlersListed, Inside
    <3>9. UNCHANGED log
      BY <3>1 DEF Register
    <3>10. PartedGone'
      BY <3>2, <3>9 DEF RoomServed, PartedGone, Parting, SaidBye
    <3>. QED BY <3>6, <3>7, <3>8, <3>10 DEF RoomServed, Room!RoomNext
  <2>. QED BY <1>8, <2>1, <2>2 DEF RegisterClient
<1>. QED BY <1>4, <1>5, <1>6, <1>7, <1>8 DEF Main

\* What a handler does.
LEMMA HandlerRoom ==
  ASSUME TypeInv, OwnInv, DeliveryInv, ByeInv, RoomServed, NEW c \in Conn, Handler(c)
  PROVE  RoomServed' /\ [Room!RoomNext]_(Room!roomVars)
<1>1. SocketsTypeOK /\ TableTypeOK /\ ThreadTypeOK /\ SlotsLive /\ SlotsApart
  BY TypeParts, OwnSlots
<1>2. \A i \in Slot : clients[i].is_active =>
        clients[i].fd \in Fd /\ ConnIn(i) \in Conn /\ hpc[ConnIn(i)] \notin {"close", "done"}
  BY DEF OwnInv, SlotsOwn, Active
<1>3. hpc[c] \in Inside => Listed(c) /\ idOf[c] # 0
  BY <1>1 DEF RoomServed, HandlersListed, SlotsLive, Listed
<1>4. CASE ScanSlot(c) \/ ReadId(c) \/ BroadcastUnlock(c)
  <2>1. /\ UNCHANGED tableVars /\ UNCHANGED <<fdt, inbox, peer, hmsg>>
        /\ hpc[c] \in Inside /\ hpc'[c] # "lock"
        /\ \A d \in Conn : d # c => hpc'[d] = hpc[d]
    BY <1>1, <1>4
    DEF ScanSlot, ReadId, BroadcastUnlock, Advance, HandlerAt, Inside, sockVars, ThreadTypeOK
  <2>2. \A i \in Slot : ConnIn(i)' = ConnIn(i)
    BY <2>1 DEF ConnIn, tableVars
  <2>3. /\ RoomServed' /\ UNCHANGED <<idOf, log, joined, inbox>>
        /\ \A d \in Conn : Listed(d)' <=> Listed(d)
    BY <2>1, <2>2, StillServed
  <2>. QED BY <2>1, <2>3, StillRoom DEF Unreachable
<1>5. CASE Recv(c)
  <2>1. /\ UNCHANGED tableVars /\ UNCHANGED <<fdt, inbox>>
        /\ hpc[c] = "recv" /\ \A d \in Conn : d # c => hpc'[d] = hpc[d] /\ hmsg'[d] = hmsg[d]
    BY <1>1, <1>5 DEF Recv, HandlerAt, RecvData, RecvEof, RecvError, sockVars, ThreadTypeOK
  <2>2. \/ UNCHANGED peer
        \/ peer[c] = "rst" /\ peer' = [peer EXCEPT ![c] = "gone"]
    BY <1>5 DEF Recv, RecvData, RecvEof, RecvError, sockVars
  <2>3. hpc'[c] = "lock" /\ hmsg'[c] = 0 => peer[c] \notin {"idle", "open"}
    <3>1. CASE RecvData(c) /\ hmsg' = [hmsg EXCEPT ![c] = taken'[c]]
      <4>1. PICK n \in 1 .. RecvMax : taken' = [taken EXCEPT ![c] = @ + n]
        BY <3>1 DEF RecvData
      <4>2. taken'[c] = taken[c] + n /\ taken[c] \in Nat
        BY <1>1, <4>1 DEF SocketsTypeOK
      <4>3. hmsg'[c] = taken'[c]
        BY <1>1, <3>1 DEF ThreadTypeOK
      <4>. QED BY <4>2, <4>3, SocketsAssumption
    <3>2. CASE RecvEof(c)
      BY <3>2 DEF RecvEof
    <3>3. CASE RecvError(c) /\ hpc' = [hpc EXCEPT ![c] = "unlist"]
      BY <1>1, <3>3 DEF ThreadTypeOK
    <3>. QED BY <1>5, <3>1, <3>2, <3>3 DEF Recv
  <2>4. \A i \in Slot : ConnIn(i)' = ConnIn(i)
    BY <2>1 DEF ConnIn, tableVars
  <2>5. /\ \A d \in Conn : peer[d] \notin {"idle", "open"} => peer'[d] \notin {"idle", "open"}
        /\ Unreachable' = Unreachable
    BY <1>1, <2>2 DEF Unreachable, SocketsTypeOK
  <2>6. \A d \in Conn : hpc'[d] \in Inside => hpc[d] \in Inside
    BY <2>1 DEF Inside
  <2>7. \A d \in Conn : hpc'[d] = "lock" /\ hmsg'[d] = 0 =>
           (hpc[d] = "lock" /\ hmsg[d] = 0) \/ peer[d] \notin {"idle", "open"}
    BY <2>1, <2>3
  <2>8. /\ RoomServed' /\ UNCHANGED <<idOf, log, joined, inbox>>
        /\ \A d \in Conn : Listed(d)' <=> Listed(d)
    BY <2>1, <2>4, <2>5, <2>6, <2>7, StillServed
  <2>. QED BY <2>5, <2>8, StillRoom
<1>6. CASE BroadcastLock(c)
  <2>. DEFINE n == hmsg[c]
  <2>1. /\ hpc[c] = "lock" /\ client_mutex = NoConn /\ n \in Nat
        /\ StartBroadcast(c, client_id[c], n) /\ UNCHANGED <<fdt, inbox, peer, hmsg>>
        /\ hpc'[c] = "send" /\ \A d \in Conn : d # c => hpc'[d] = hpc[d]
    BY <1>1, <1>6 DEF BroadcastLock, HandlerAt, sockVars, ThreadTypeOK
  <2>2. UNCHANGED <<clients, joined, idOf>>
    BY <2>1 DEF StartBroadcast
  <2>3. Listed(c) /\ idOf[c] # 0 /\ ~SaidBye(c)
    BY <1>3, <2>1 DEF Inside, ByeInv, SaidBye
  <2>4. Members[c] = "in"
    BY <2>3 DEF Members
  <2>5. Unreachable' = Unreachable
    BY <2>1 DEF Unreachable
  <2>6. Room!Say(c) \/ Room!Quit(c)
    BY <1>1, <2>1, <2>4, <2>5, AllHeard, RoomSays
  <2>7. RoomInv'
    BY <1>1, <2>1, <2>3, SayKeeps DEF RoomServed
  <2>8. HandlersListed'
    BY <2>1, <2>2 DEF RoomServed, HandlersListed, Inside, Listed, ConnIn
  <2>9. \A d \in Conn : SaidBye(d)' <=> SaidBye(d) \/ (d = c /\ n = 0)
    BY <1>1, <2>1, ByeSaid
  <2>10. PartedGone'
    BY <2>1, <2>9 DEF RoomServed, PartedGone, Parting
  <2>. QED BY <2>6, <2>7, <2>8, <2>10 DEF RoomServed, Room!RoomNext
<1>7. CASE BroadcastSend(c)
  <2>1. PICK i \in Slot : i = hi[c]
    BY <1>1, <1>7 DEF BroadcastSend, HandlerAt, TypeInv, IndexOK, Slot
  <2>2. PICK f \in Fd : f = hfd[c] /\ fdt[f] = c
    BY <1>7 DEF BroadcastSend, HandlerAt, OwnInv, HandlersOwn, Alive
  <2>3. /\ BroadcastTo(i, f) /\ UNCHANGED tableVars /\ UNCHANGED <<hpc, hmsg>> /\ hpc[c] = "send"
    BY <1>7, <2>1, <2>2 DEF BroadcastSend, HandlerAt
  <2>4. /\ client_mutex = c /\ Len(log) > 0 /\ log[Len(log)].src = c
        /\ \A d \in Conn : joined[d] < Len(log)
    BY <2>3 DEF DeliveryInv, MutexOwn, HolderLast
  <2>5. PICK m \in Nat : m + 1 = Len(log)
    <3>1. Len(log) \in Nat
      BY <1>1 DEF TableTypeOK
    <3>2. Len(log) - 1 \in Nat /\ (Len(log) - 1) + 1 = Len(log)
      BY <2>4, <3>1
    <3>. QED BY <3>2
  <2>6. Heard(i, m) /\ \A d \in Conn : joined[d] <= m
    <3>1. PassedBy(i) = Len(log) - 1
      BY <2>1, <2>4, SocketsAssumption DEF PassedBy, Slot
    <3>2. PassedBy(i) = m
      BY <2>5, <3>1
    <3>3. Heard(i, m)
      BY <3>2 DEF DeliveryInv, Delivered, Heard, Active
    <3>4. \A d \in Conn : joined[d] \in Nat
      BY <1>1 DEF TableTypeOK
    <3>. QED BY <2>4, <2>5, <3>3, <3>4
  <2>7. clients[i].is_active /\ clients[i].fd # f => ConnIn(i) # c /\ ConnIn(i) \in Conn
    BY <1>2, <2>2, SocketsAssumption DEF OwnInv, OneFd, ConnIn
  <2>8. /\ clients[i].is_active /\ clients[i].fd # f => ConnIn(i) # log[m + 1].src
        /\ clients[i].is_active /\ clients[i].fd = f => ConnIn(i) = log[m + 1].src
    BY <2>2, <2>4, <2>5, <2>7 DEF ConnIn
  <2>9. clients[i].is_active /\ clients[i].fd # f /\ peer[ConnIn(i)] = "open" => ~SaidBye(ConnIn(i))
    BY <2>7 DEF RoomServed, PartedGone, Parting
  <2>10. /\ (\E d \in Conn : Room!Hear(d)) \/ UNCHANGED Room!roomVars
         /\ RoomInv'
    BY <1>1, <2>3, <2>5, <2>6, <2>8, <2>9, RoomHears DEF RoomServed
  <2>11. UNCHANGED <<clients, log, fdt>>
    BY <2>3 DEF BroadcastTo, tableVars
  <2>12. HandlersListed'
    BY <2>3, <2>11 DEF RoomServed, HandlersListed, Inside, Listed, ConnIn
  <2>13. \A d \in Conn : peer[d] \notin {"idle", "open"} => peer'[d] \notin {"idle", "open"}
    <3>1. CASE UNCHANGED peer
      BY <3>1
    <3>2. CASE Send(clients[i].fd, Len(log))
      BY <1>1, <3>2 DEF Send, SocketsTypeOK
    <3>. QED BY <2>3, <3>1, <3>2 DEF BroadcastTo
  <2>14. PartedGone'
    BY <2>3, <2>11, <2>13 DEF RoomServed, PartedGone, Parting, SaidBye
  <2>. QED BY <2>10, <2>12, <2>14 DEF RoomServed, Room!RoomNext
<1>8. CASE Unlist(c)
  <2>1. PICK f \in Fd : f = hfd[c] /\ fdt[f] = c
    BY <1>8 DEF Unlist, HandlerAt, OwnInv, HandlersOwn, Alive
  <2>2. /\ Unregister(f) /\ UNCHANGED <<fdt, inbox, peer, hmsg>>
        /\ hpc[c] = "unlist" /\ hpc'[c] = "close" /\ \A d \in Conn : d # c => hpc'[d] = hpc[d]
    BY <1>1, <1>8, <2>1 DEF Unlist, HandlerAt, sockVars, ThreadTypeOK
  <2>3. UNCHANGED <<log, joined, idOf>>
    BY <2>2 DEF Unregister
  <2>4. \A i \in Slot : FirstWithFd(i, f) <=> clients[i].is_active /\ clients[i].fd = f
    BY DEF FirstWithFd, OwnInv, OneSlot, Active, Slot
  <2>5. \A i \in Slot :
          /\ clients[i] \in [fd : Fd \cup {0}, id : Nat, is_active : BOOLEAN]
          /\ clients'[i] = IF FirstWithFd(i, f) THEN [clients[i] EXCEPT !.is_active = FALSE]
                           ELSE clients[i]
    BY <1>1, <2>2 DEF Unregister, TableTypeOK
  <2>6. \A i \in Slot :
          /\ clients'[i].fd = clients[i].fd
          /\ clients'[i].is_active <=> clients[i].is_active /\ clients[i].fd # f
    BY <2>4, <2>5
  <2>7. \A i \in Slot : ConnIn(i)' = ConnIn(i)
    BY <2>2, <2>6 DEF ConnIn
  <2>8. \A i \in Slot : clients[i].is_active => (clients[i].fd = f <=> ConnIn(i) = c)
    BY <1>2, <2>1, SocketsAssumption DEF OwnInv, OneFd, ConnIn
  <2>9. ~Listed(c)' /\ \A d \in Conn : d # c => (Listed(d)' <=> Listed(d))
    BY <2>6, <2>7, <2>8 DEF Listed
  <2>10. Members[c] \in {"in", "quit"}
    BY <1>3, <2>2 DEF Inside, Members
  <2>11. Unreachable' = Unreachable
    BY <2>2 DEF Unreachable
  <2>12. Room!Leave(c)
    BY <2>2, <2>3, <2>9, <2>10, <2>11, RoomLeaves
  <2>13. RoomInv'
    BY <2>2, <2>3, RoomKept DEF RoomServed
  <2>14. HandlersListed'
    BY <2>2, <2>9 DEF RoomServed, HandlersListed, Inside
  <2>15. PartedGone'
    BY <2>2, <2>3 DEF RoomServed, PartedGone, Parting, SaidBye
  <2>. QED BY <2>12, <2>13, <2>14, <2>15 DEF RoomServed, Room!RoomNext
<1>9. CASE Close(c)
  <2>1. PICK f \in Fd : f = hfd[c] /\ fdt[f] = c
    BY <1>9 DEF Close, HandlerAt, OwnInv, HandlersOwn, Alive
  <2>2. /\ CloseFd(f) /\ UNCHANGED tableVars /\ UNCHANGED hmsg
        /\ hpc[c] = "close" /\ hpc'[c] = "done" /\ \A d \in Conn : d # c => hpc'[d] = hpc[d]
    BY <1>1, <1>9, <2>1 DEF Close, HandlerAt, ThreadTypeOK
  <2>3. /\ UNCHANGED inbox /\ peer' = [d \in Conn |-> IF d = c THEN "shut" ELSE peer[d]]
        /\ \A g \in Fd : g # f => fdt'[g] = fdt[g]
    BY <1>1, <2>1, <2>2 DEF CloseFd, SocketsTypeOK
  <2>4. \A i \in Slot : clients[i].is_active => ConnIn(i)' = ConnIn(i)
    BY <1>2, <2>1, <2>2, <2>3 DEF ConnIn, tableVars
  <2>5. /\ \A d \in Conn : hpc'[d] \in Inside => hpc[d] \in Inside
        /\ \A d \in Conn : hpc'[d] = "lock" /\ hmsg'[d] = 0 => hpc[d] = "lock" /\ hmsg[d] = 0
    BY <2>2 DEF Inside
  <2>6. \A d \in Conn : peer[d] \notin {"idle", "open"} => peer'[d] \notin {"idle", "open"}
    BY <2>3
  <2>7. /\ RoomServed' /\ UNCHANGED <<idOf, log, joined, inbox>>
        /\ \A d \in Conn : Listed(d)' <=> Listed(d)
    BY <2>2, <2>3, <2>4, <2>5, <2>6, StillServed
  <2>8. Unreachable' = Unreachable \cup {c}
    BY <2>3 DEF Unreachable
  <2>. QED BY <2>7, <2>8, StillRoom
<1>. QED BY <1>4, <1>5, <1>6, <1>7, <1>8, <1>9 DEF Handler

\* Every step of the server is a step of the room or none.
LEMMA StepRoom ==
  ASSUME TypeInv, OwnInv, DeliveryInv, ByeInv, RoomServed, [Next]_vars
  PROVE  RoomServed' /\ [Room!RoomNext]_(Room!roomVars)
<1>1. SocketsTypeOK
  BY TypeParts
<1>2. CASE Client
  <2>1. UNCHANGED <<tableVars, threadVars>> /\ ClientNext
    BY <1>2 DEF Client
  <2>2. PICK c \in Conn : Connect(c) \/ ClientSend(c) \/ ClientReads(c) \/ ClientExit(c)
    BY <2>1 DEF ClientNext
  <2>3. /\ UNCHANGED <<fdt, inbox>>
        /\ \A d \in Conn : peer[d] \notin {"idle", "open"} => peer'[d] \notin {"idle", "open"}
        /\ Unreachable' = Unreachable \/ Unreachable' = Unreachable \cup {c}
    BY <1>1, <2>2
    DEF Connect, ClientSend, ClientReads, ClientRead, ClientExit, SocketsTypeOK, Unreachable
  <2>4. \A i \in Slot : ConnIn(i)' = ConnIn(i)
    BY <2>1, <2>3 DEF ConnIn, tableVars
  <2>5. UNCHANGED <<hpc, hmsg>>
    BY <2>1 DEF threadVars
  <2>6. /\ RoomServed' /\ UNCHANGED <<idOf, log, joined, inbox>>
        /\ \A d \in Conn : Listed(d)' <=> Listed(d)
    BY <2>1, <2>3, <2>4, <2>5, StillServed
  <2>. QED BY <2>3, <2>6, StillRoom
<1>3. CASE UNCHANGED vars
  <2>1. UNCHANGED tableVars /\ UNCHANGED <<fdt, inbox, peer, hpc, hmsg>>
    BY <1>3 DEF vars, sockVars, threadVars
  <2>2. \A i \in Slot : ConnIn(i)' = ConnIn(i)
    BY <2>1 DEF ConnIn, tableVars
  <2>3. /\ RoomServed' /\ UNCHANGED <<idOf, log, joined, inbox>>
        /\ \A d \in Conn : Listed(d)' <=> Listed(d)
    BY <2>1, <2>2, StillServed
  <2>. QED BY <2>1, <2>3, StillRoom DEF Unreachable
<1>. QED BY <1>2, <1>3, MainRoom, HandlerRoom DEF Next

\* Every behaviour of the server is one of the room: its members hear each message of
\* the others once, in the one order, before the next is said, and say nothing after
\* their goodbye.
THEOREM IsOneRoom == Spec => IsChatRoom
<1>1. Init => /\ Room!RoomInit /\ TypeInv /\ OwnInv
              /\ DeliveryInv /\ ByeInv /\ QuitNoticeIsLast /\ RoomServed
  <2>1. Init => Room!RoomInit /\ ByeInv /\ QuitNoticeIsLast
    BY RoomStarts DEF Init, TableInit, ByeInv, QuitNoticeIsLast
  <2>. QED BY <2>1, InitTypes, InitOwn, InitDelivery, InitServed
<1>2. TypeInv /\ OwnInv /\ DeliveryInv /\ ByeInv /\ QuitNoticeIsLast /\ RoomServed /\ [Next]_vars
        => /\ DeliveryInv' /\ ByeInv' /\ QuitNoticeIsLast' /\ RoomServed'
           /\ [Room!RoomNext]_(Room!roomVars)
  BY DeliveryStep, ByeStep, StepRoom
<1>. QED BY <1>1, <1>2, Owned, PTL DEF Spec, IsChatRoom, Room!RoomSpec
=============================================================================
