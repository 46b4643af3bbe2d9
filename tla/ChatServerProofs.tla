--------------------------- MODULE ChatServerProofs ---------------------------
(***************************************************************************)
(* Lemmas about the steps the three chat servers of hw4 share, each of     *)
(* which the proofs about one server use for its own actions.              *)
(***************************************************************************)
EXTENDS ChatServer, TLAPS

-----------------------------------------------------------------------------
(* Types *)

\* What a client does keeps the types of the kernel's state.
LEMMA ClientTypes ==
  ASSUME SocketsTypeOK, ClientNext
  PROVE  SocketsTypeOK'
<1>1. PICK c \in Conn : Connect(c) \/ ClientSend(c) \/ ClientReads(c) \/ ClientExit(c)
  BY DEF ClientNext
<1>2. CASE Connect(c)
  BY <1>2 DEF Connect, SocketsTypeOK, PeerState
<1>3. CASE ClientSend(c)
  BY <1>3 DEF ClientSend, SocketsTypeOK
<1>4. CASE ClientReads(c)
  BY <1>4 DEF ClientReads, ClientRead, SocketsTypeOK
<1>5. CASE ClientExit(c)
  BY <1>5 DEF ClientExit, SocketsTypeOK, PeerState
<1>. QED BY <1>1, <1>2, <1>3, <1>4, <1>5

\* Closing a descriptor keeps the types.
LEMMA CloseTypes ==
  ASSUME SocketsTypeOK, NEW f, CloseFd(f)
  PROVE  SocketsTypeOK'
BY DEF CloseFd, SocketsTypeOK, PeerState

\* recv(), whatever it returns, keeps the types.
LEMMA RecvTypes ==
  ASSUME SocketsTypeOK, NEW c \in Conn, RecvData(c) \/ RecvEof(c) \/ RecvError(c)
  PROVE  SocketsTypeOK'
<1>1. CASE RecvData(c)
  <2>1. PICK n \in 1 .. RecvMax : taken' = [taken EXCEPT ![c] = @ + n]
    BY <1>1 DEF RecvData
  <2>2. taken' \in [Conn -> Nat]
    BY <2>1, SocketsAssumption DEF SocketsTypeOK
  <2>. QED BY <1>1, <2>2 DEF RecvData, SocketsTypeOK
<1>2. CASE RecvEof(c)
  BY <1>2 DEF RecvEof, sockVars, SocketsTypeOK
<1>3. CASE RecvError(c)
  BY <1>3 DEF RecvError, SocketsTypeOK, PeerState
<1>. QED BY <1>1, <1>2, <1>3

\* One iteration of the broadcast keeps the types.
LEMMA BroadcastTypes ==
  ASSUME SocketsTypeOK, TableTypeOK, NEW i \in Slot, NEW f, BroadcastTo(i, f)
  PROVE  SocketsTypeOK'
<1>1. CASE UNCHANGED <<inbox, unread, peer, proc>>
  BY <1>1 DEF BroadcastTo, SocketsTypeOK
<1>2. CASE Send(clients[i].fd, Len(log))
  <2>. DEFINE c == fdt[clients[i].fd]
  <2>1. Len(log) \in Nat
    BY DEF TableTypeOK
  <2>2. inbox' \in [Conn -> Seq(Nat)] /\ unread' \in [Conn -> Nat]
    <3>1. CASE UNCHANGED <<inbox, unread>>
      BY <3>1 DEF SocketsTypeOK
    <3>2. CASE /\ inbox' = [inbox EXCEPT ![c] = Append(@, Len(log))]
               /\ unread' = [unread EXCEPT ![c] = @ + 1]
      <4>1. \A d \in Conn : Append(inbox[d], Len(log)) \in Seq(Nat) /\ unread[d] + 1 \in Nat
        BY <2>1 DEF SocketsTypeOK
      <4>. QED BY <3>2, <4>1 DEF SocketsTypeOK
    <3>. QED BY <1>2, <3>1, <3>2 DEF Send
  <2>3. peer' \in [Conn -> PeerState] /\ proc' \in {"running", "exited", "killed"}
    BY <1>2 DEF Send, SocketsTypeOK, PeerState
  <2>. QED BY <2>2, <2>3 DEF BroadcastTo, SocketsTypeOK
<1>. QED BY <1>1, <1>2 DEF BroadcastTo

\* Filling a slot keeps the types of the table.
LEMMA RegisterTypes ==
  ASSUME TableTypeOK, NEW c, NEW f \in Fd \cup {0}, Register(c, f)
  PROVE  TableTypeOK'
<1>1. total_connections + 1 \in Nat /\ Len(log) \in Nat
  BY DEF TableTypeOK
<1>2. total_connections' \in Nat /\ log' \in Seq(Message)
  BY <1>1 DEF Register, TableTypeOK
<1>3. idOf' \in [Conn -> Nat] /\ joined' \in [Conn -> Nat]
  BY <1>1 DEF Register, TableTypeOK
<1>4. PICK i \in Slot : clients' = [clients EXCEPT ![i] =
                [fd |-> f, id |-> total_connections + 1, is_active |-> TRUE]]
  BY DEF Register
<1>5. clients' \in [Slot -> [fd : Fd \cup {0}, id : Nat, is_active : BOOLEAN]]
  BY <1>4 DEF TableTypeOK
<1>. QED BY <1>2, <1>3, <1>5 DEF TableTypeOK

\* A broadcast that begins keeps the types of the table.
LEMMA StartTypes ==
  ASSUME TableTypeOK, NEW c \in Conn, NEW id \in Int, NEW n \in Nat,
         StartBroadcast(c, id, n)
  PROVE  TableTypeOK'
BY DEF StartBroadcast, TableTypeOK, Message

-----------------------------------------------------------------------------
(* Who owns what in the servers that have one thread *)

\* a connection the server has not accepted
Pending(c) == c \in backlog \/ peer[c] = "idle"

\* it has no number and no descriptor yet
PendingFresh ==
  /\ \A c \in Conn : Pending(c) => idOf[c] = 0 /\ \A f \in Fd : fdt[f] # c
  /\ \A c \in backlog : peer[c] # "idle"

OneFd == \A f, g \in Fd : fdt[f] = fdt[g] /\ fdt[f] # NoConn => f = g

\* a listed slot holds an open connection and its number
Holds(i) ==
  /\ clients[i].fd \in Fd /\ fdt[clients[i].fd] \in Conn
  /\ clients[i].id > 0 /\ idOf[fdt[clients[i].fd]] = clients[i].id
SlotsHold == \A i \in Slot : clients[i].is_active => Holds(i)

SlotsDiffer ==
  \A i, j \in Slot :
    clients[i].is_active /\ clients[j].is_active /\ clients[i].fd = clients[j].fd => i = j

DescInv == PendingFresh /\ OneFd
TableInv == PendingFresh /\ OneFd /\ SlotsHold /\ SlotsDiffer

InTable(f) == \E i \in Slot : clients[i].is_active /\ clients[i].fd = f

\* Nothing is owned at the start.
LEMMA InitTable == SocketsInit /\ TableInit => TableInv
BY SocketsAssumption DEF SocketsInit, TableInit, TableInv, PendingFresh, OneFd, SlotsHold,
   SlotsDiffer, Pending, Fd

\* A connection that is not pending does not become so.
LEMMA NobodyPends ==
  ASSUME DescInv, UNCHANGED fdt,
         \A c \in Conn : Pending(c)' => Pending(c) /\ idOf'[c] = idOf[c],
         \A c \in backlog' : peer'[c] # "idle"
  PROVE  DescInv'
BY DEF DescInv, PendingFresh, OneFd

\* A step that leaves the descriptors and the slots alone.
LEMMA SameTable ==
  ASSUME TableInv, UNCHANGED <<fdt, clients, idOf>>, DescInv'
  PROVE  TableInv'
BY DEF DescInv, TableInv, SlotsHold, SlotsDiffer, Holds

\* So does a step that changes nothing of them.
LEMMA StutterTable ==
  ASSUME TableInv, UNCHANGED <<fdt, backlog, peer, clients, idOf>>
  PROVE  TableInv'
<1>1. DescInv'
  BY NobodyPends DEF DescInv, TableInv, PendingFresh, Pending
<1>. QED BY <1>1, SameTable

\* What the clients do changes nobody's ownership, and what could be read still can.
LEMMA ClientDesc ==
  ASSUME SocketsTypeOK, DescInv, ClientNext, UNCHANGED idOf
  PROVE  DescInv' /\ UNCHANGED fdt /\ \A d \in Conn : Readable(d) => Readable(d)'
<1>1. PICK c \in Conn : Connect(c) \/ ClientSend(c) \/ ClientReads(c) \/ ClientExit(c)
  BY DEF ClientNext
<1>2. UNCHANGED fdt
  BY <1>1 DEF Connect, ClientSend, ClientReads, ClientRead, ClientExit
<1>3. \A d \in Conn : Pending(d)' => Pending(d)
  BY <1>1 DEF Connect, ClientSend, ClientReads, ClientRead, ClientExit, Pending, SocketsTypeOK
<1>4. \A d \in backlog' : peer'[d] # "idle"
  BY <1>1 DEF Connect, ClientSend, ClientReads, ClientRead, ClientExit, SocketsTypeOK,
     DescInv, PendingFresh
<1>5. \A d \in Conn : Readable(d) => Readable(d)'
  <2>. TAKE d \in Conn
  <2>1. CASE Connect(c)
    BY <2>1 DEF Connect, SocketsTypeOK, Readable, HasData
  <2>2. CASE ClientSend(c)
    BY <2>2 DEF ClientSend, SocketsTypeOK, Readable, HasData
  <2>3. CASE ClientReads(c)
    BY <2>3 DEF ClientReads, ClientRead, Readable, HasData
  <2>4. CASE ClientExit(c)
    BY <2>4 DEF ClientExit, SocketsTypeOK, Readable, HasData
  <2>. QED BY <1>1, <2>1, <2>2, <2>3, <2>4
<1>. QED BY <1>2, <1>3, <1>4, <1>5, NobodyPends

\* Nor does recv(), whatever it returns; the other connections do not notice.
LEMMA RecvDesc ==
  ASSUME SocketsTypeOK, DescInv, NEW c \in Conn, RecvData(c) \/ RecvEof(c) \/ RecvError(c),
         UNCHANGED idOf
  PROVE  /\ DescInv' /\ UNCHANGED <<fdt, backlog>>
         /\ \A d \in Conn : d # c /\ Readable(d) => Readable(d)'
<1>1. UNCHANGED <<fdt, backlog>>
  BY DEF RecvData, RecvEof, RecvError, sockVars
<1>2. \A d \in Conn : peer'[d] = "idle" <=> peer[d] = "idle"
  BY DEF RecvData, RecvEof, RecvError, sockVars, SocketsTypeOK
<1>3. \A d \in backlog' : peer'[d] # "idle"
  BY <1>1, <1>2 DEF DescInv, PendingFresh, SocketsTypeOK
<1>4. \A d \in Conn : d # c /\ Readable(d) => Readable(d)'
  BY DEF RecvData, RecvEof, RecvError, sockVars, SocketsTypeOK, Readable, HasData
<1>. QED BY <1>1, <1>2, <1>3, <1>4, NobodyPends DEF Pending

\* Nor does a send of the broadcast: what it tells of a client that left is still
\* there to be read.
LEMMA BroadcastDesc ==
  ASSUME SocketsTypeOK, DescInv, NEW i \in Slot, NEW f, BroadcastTo(i, f), UNCHANGED idOf
  PROVE  /\ DescInv' /\ UNCHANGED <<fdt, backlog>>
         /\ \A d \in Conn : Readable(d) => Readable(d)'
<1>1. UNCHANGED <<fdt, backlog, sent, taken>>
  BY DEF BroadcastTo
<1>2. \A d \in Conn :
        /\ peer'[d] = "idle" <=> peer[d] = "idle"
        /\ peer[d] \in {"fin", "rst", "gone"} => peer'[d] \in {"fin", "rst", "gone"}
  <2>1. CASE UNCHANGED peer
    BY <2>1
  <2>2. CASE Send(clients[i].fd, Len(log))
    BY <2>2 DEF Send, SocketsTypeOK
  <2>. QED BY <2>1, <2>2 DEF BroadcastTo
<1>3. \A d \in backlog' : peer'[d] # "idle"
  BY <1>1, <1>2 DEF DescInv, PendingFresh, SocketsTypeOK
<1>4. \A d \in Conn : Readable(d) => Readable(d)'
  BY <1>1, <1>2 DEF Readable, HasData
<1>. QED BY <1>1, <1>2, <1>3, <1>4, NobodyPends DEF Pending

\* accept() gives a pending connection a descriptor nobody has.
LEMMA AcceptDesc ==
  ASSUME SocketsTypeOK, DescInv, NEW c \in backlog, NEW f \in Fd, fdt[f] = NoConn,
         AcceptConn(c, f), \A d \in Conn : d # c => idOf'[d] = idOf[d]
  PROVE  /\ DescInv' /\ c \in Conn /\ idOf[c] = 0
         /\ fdt'[f] = c /\ \A g \in Fd : g # f => fdt'[g] = fdt[g]
<1>1. /\ c \in Conn /\ peer[c] # "idle" /\ idOf[c] = 0 /\ \A g \in Fd : fdt[g] # c
      /\ fdt' = [fdt EXCEPT ![f] = c] /\ backlog' = backlog \ {c} /\ peer' = peer
  BY DEF SocketsTypeOK, DescInv, PendingFresh, Pending, AcceptConn
<1>2. \A g \in Fd : g # f => fdt'[g] = fdt[g]
  BY <1>1 DEF SocketsTypeOK
<1>3. fdt'[f] = c
  BY <1>1 DEF SocketsTypeOK
<1>4. PendingFresh'
  BY <1>1, <1>2, <1>3 DEF DescInv, PendingFresh, Pending
<1>5. OneFd'
  BY <1>1, <1>2, <1>3 DEF DescInv, OneFd
<1>. QED BY <1>1, <1>2, <1>3, <1>4, <1>5 DEF DescInv

\* What close() leaves of the descriptors.
LEMMA CloseDesc ==
  ASSUME SocketsTypeOK, DescInv, NEW f \in Fd, CloseFd(f)
  PROVE  /\ fdt'[f] = NoConn /\ \A g \in Fd : g # f => fdt'[g] = fdt[g]
         /\ UNCHANGED idOf => DescInv'
         /\ \A d \in Conn : d # fdt[f] /\ Readable(d) => Readable(d)'
<1>1. fdt'[f] = NoConn /\ \A g \in Fd : g # f => fdt'[g] = fdt[g]
  BY DEF CloseFd, SocketsTypeOK
<1>2. OneFd'
  BY <1>1 DEF DescInv, OneFd
<1>3. \A d \in Conn : peer'[d] = "idle" => peer[d] = "idle"
  BY DEF CloseFd, SocketsTypeOK
<1>4. \A d \in backlog : d \in Conn /\ peer'[d] # "idle"
  BY <1>3 DEF DescInv, PendingFresh, SocketsTypeOK
<1>5. UNCHANGED backlog
  BY DEF CloseFd
<1>6. UNCHANGED idOf => PendingFresh'
  BY <1>1, <1>3, <1>4, <1>5, SocketsAssumption DEF DescInv, PendingFresh, Pending
<1>7. \A d \in Conn : d # fdt[f] /\ Readable(d) => Readable(d)'
  BY DEF CloseFd, Readable, HasData
<1>. QED BY <1>1, <1>2, <1>6, <1>7 DEF DescInv

-----------------------------------------------------------------------------
(* The same with the table *)

\* What the clients do.
LEMMA ClientTable ==
  ASSUME SocketsTypeOK, TableInv, ClientNext, UNCHANGED <<clients, idOf>>
  PROVE  TableInv' /\ UNCHANGED fdt
BY ClientDesc, SameTable DEF DescInv, TableInv

\* What recv() does.
LEMMA RecvTable ==
  ASSUME SocketsTypeOK, TableInv, NEW c \in Conn, RecvData(c) \/ RecvEof(c) \/ RecvError(c),
         UNCHANGED <<clients, idOf>>
  PROVE  TableInv' /\ UNCHANGED <<fdt, backlog>>
BY RecvDesc, SameTable DEF DescInv, TableInv

\* What a send of the broadcast does.
LEMMA BroadcastTable ==
  ASSUME SocketsTypeOK, TableInv, NEW i \in Slot, NEW f, BroadcastTo(i, f),
         UNCHANGED <<clients, idOf>>
  PROVE  TableInv' /\ UNCHANGED <<fdt, backlog>>
BY BroadcastDesc, SameTable DEF DescInv, TableInv

\* No slot notices an accept().
LEMMA AcceptTable ==
  ASSUME SocketsTypeOK, TableInv, NEW c \in backlog, NEW f \in Fd, fdt[f] = NoConn,
         AcceptConn(c, f), UNCHANGED <<clients, idOf>>
  PROVE  /\ TableInv'
         /\ \A i \in Slot : clients[i].is_active => fdt'[clients[i].fd] = fdt[clients[i].fd]
<1>1. DescInv' /\ \A g \in Fd : g # f => fdt'[g] = fdt[g]
  BY AcceptDesc DEF DescInv, TableInv
<1>2. \A i \in Slot : clients[i].is_active => clients[i].fd \in Fd /\ clients[i].fd # f
  BY SocketsAssumption DEF TableInv, SlotsHold, Holds
<1>3. SlotsHold'
  BY <1>1, <1>2 DEF TableInv, SlotsHold, Holds
<1>4. SlotsDiffer'
  BY DEF TableInv, SlotsDiffer
<1>. QED BY <1>1, <1>2, <1>3, <1>4 DEF DescInv, TableInv

\* The slot a connection gets is its own.
LEMMA RegisterTable ==
  ASSUME TableTypeOK, TableInv, NEW c \in Conn, NEW f \in Fd, fdt[f] = c, idOf[c] = 0,
         Register(c, f), UNCHANGED <<fdt, backlog, peer>>
  PROVE  /\ TableInv'
         /\ ~InTable(f) /\ InTable(f)'
         /\ \A g : g # f => InTable(g)' = InTable(g)
<1>1. PICK i \in Slot :
        /\ ~clients[i].is_active
        /\ clients' = [clients EXCEPT ![i] =
             [fd |-> f, id |-> total_connections + 1, is_active |-> TRUE]]
  BY DEF Register
<1>2. /\ idOf' = [idOf EXCEPT ![c] = total_connections + 1]
      /\ total_connections \in Nat /\ idOf \in [Conn -> Nat]
      /\ DOMAIN clients = Slot
  BY DEF Register, TableTypeOK
<1>3. ~InTable(f)
  BY DEF InTable, TableInv, SlotsHold, Holds
<1>4. /\ clients'[i].fd = f /\ clients'[i].id = total_connections + 1 /\ clients'[i].is_active
      /\ \A j \in Slot : j # i => clients'[j] = clients[j]
  BY <1>1, <1>2
<1>5. ~Pending(c)
  BY DEF TableInv, PendingFresh
<1>6. idOf'[c] = total_connections + 1 /\ \A d \in Conn : d # c => idOf'[d] = idOf[d]
  BY <1>2
<1>7. PendingFresh'
  BY <1>5, <1>6 DEF TableInv, PendingFresh, Pending
<1>8. SlotsHold'
  <2>1. Holds(i)'
    BY <1>2, <1>4, <1>6 DEF Holds
  <2>2. ASSUME NEW j \in Slot, j # i, clients'[j].is_active PROVE Holds(j)'
    <3>1. clients'[j] = clients[j] /\ Holds(j)
      BY <1>4, <2>2 DEF TableInv, SlotsHold
    <3>2. fdt[clients[j].fd] # c
      BY <3>1 DEF Holds
    <3>. QED BY <1>6, <3>1, <3>2 DEF Holds
  <2>. QED BY <2>1, <2>2 DEF SlotsHold
<1>9. SlotsDiffer'
  BY <1>1, <1>3, <1>4 DEF TableInv, SlotsDiffer, InTable
<1>10. InTable(f)' /\ \A g : g # f => InTable(g)' = InTable(g)
  BY <1>1, <1>4 DEF InTable
<1>. QED BY <1>3, <1>7, <1>8, <1>9, <1>10 DEF TableInv, OneFd

\* A connection may be accepted and get its slot in one step.
LEMMA AcceptRegisterTable ==
  ASSUME SocketsTypeOK, TableTypeOK, TableInv, NEW c \in backlog, NEW f \in Fd, fdt[f] = NoConn,
         AcceptConn(c, f), Register(c, f)
  PROVE  /\ TableInv'
         /\ \A i \in Slot : clients'[i].is_active =>
              clients'[i].fd = f \/ (clients[i].is_active /\ clients'[i].fd = clients[i].fd)
<1>1. PICK i \in Slot :
        /\ ~clients[i].is_active
        /\ clients' = [clients EXCEPT ![i] =
             [fd |-> f, id |-> total_connections + 1, is_active |-> TRUE]]
  BY DEF Register
<1>2. /\ idOf' = [idOf EXCEPT ![c] = total_connections + 1]
      /\ total_connections \in Nat /\ idOf \in [Conn -> Nat]
      /\ DOMAIN clients = Slot
  BY DEF Register, TableTypeOK
<1>3. /\ clients'[i].fd = f /\ clients'[i].id = total_connections + 1 /\ clients'[i].is_active
      /\ \A j \in Slot : j # i => clients'[j] = clients[j]
  BY <1>1, <1>2
<1>4. c \in Conn /\ idOf'[c] = total_connections + 1 /\ \A d \in Conn : d # c => idOf'[d] = idOf[d]
  BY <1>2 DEF SocketsTypeOK
<1>5. DescInv' /\ fdt'[f] = c /\ \A g \in Fd : g # f => fdt'[g] = fdt[g]
  BY <1>4, AcceptDesc DEF DescInv, TableInv
<1>6. \A g \in Fd : fdt[g] # c
  BY <1>4 DEF TableInv, PendingFresh, Pending
<1>7. \A j \in Slot : clients[j].is_active => Holds(j) /\ clients[j].fd # f
  BY SocketsAssumption DEF TableInv, SlotsHold, Holds
<1>8. SlotsHold'
  <2>1. Holds(i)'
    BY <1>2, <1>3, <1>4, <1>5 DEF Holds
  <2>2. ASSUME NEW j \in Slot, j # i, clients'[j].is_active PROVE Holds(j)'
    <3>1. clients'[j] = clients[j] /\ Holds(j) /\ clients[j].fd # f
      BY <1>3, <1>7, <2>2
    <3>. QED BY <1>4, <1>5, <1>6, <3>1 DEF Holds
  <2>. QED BY <2>1, <2>2 DEF SlotsHold
<1>9. SlotsDiffer'
  BY <1>3, <1>7 DEF TableInv, SlotsDiffer
<1>. QED BY <1>3, <1>5, <1>8, <1>9 DEF DescInv, TableInv

\* A descriptor that is in no slot may be closed.
LEMMA CloseTable ==
  ASSUME SocketsTypeOK, TableInv, NEW f \in Fd, CloseFd(f), ~InTable(f), UNCHANGED <<clients, idOf>>
  PROVE  /\ TableInv'
         /\ \A i \in Slot : clients[i].is_active => fdt'[clients[i].fd] = fdt[clients[i].fd]
<1>1. \A i \in Slot : clients[i].is_active => clients[i].fd # f /\ Holds(i)
  BY DEF InTable, TableInv, SlotsHold
<1>2. SlotsHold'
  BY <1>1, CloseDesc DEF DescInv, TableInv, SlotsHold, Holds
<1>3. SlotsDiffer'
  BY DEF TableInv, SlotsDiffer
<1>. QED BY <1>1, <1>2, <1>3, CloseDesc DEF DescInv, TableInv, Holds

\* The clean-up closes a descriptor and gives up its slot, and nothing else.
LEMMA CleanTable ==
  ASSUME SocketsTypeOK, TableTypeOK, TableInv, NEW f \in Fd, CloseFd(f), Unregister(f)
  PROVE  /\ TableInv'
         /\ fdt'[f] = NoConn /\ \A g \in Fd : g # f => fdt'[g] = fdt[g]
         /\ ~InTable(f)'
         /\ \A g : g # f => InTable(g)' = InTable(g)
         /\ \A i \in Slot : clients'[i].is_active =>
              clients[i].is_active /\ clients[i].fd # f
                /\ clients'[i].fd = clients[i].fd /\ clients'[i].id = clients[i].id
<1>1. \A i \in Slot : FirstWithFd(i, f) <=> clients[i].is_active /\ clients[i].fd = f
  BY DEF FirstWithFd, TableInv, SlotsDiffer, Slot
<1>2. \A i \in Slot :
        /\ clients[i] \in [fd : Fd \cup {0}, id : Nat, is_active : BOOLEAN]
        /\ clients'[i] = IF FirstWithFd(i, f) THEN [clients[i] EXCEPT !.is_active = FALSE]
                         ELSE clients[i]
  BY DEF Unregister, TableTypeOK
<1>3. \A i \in Slot :
        /\ clients'[i].fd = clients[i].fd /\ clients'[i].id = clients[i].id
        /\ clients'[i].is_active <=> clients[i].is_active /\ clients[i].fd # f
  BY <1>1, <1>2
<1>4. UNCHANGED idOf
  BY DEF Unregister
<1>5. SlotsHold'
  BY <1>3, <1>4, CloseDesc DEF DescInv, TableInv, SlotsHold, Holds
<1>6. SlotsDiffer'
  BY <1>3 DEF TableInv, SlotsDiffer
<1>7. ~InTable(f)' /\ \A g : g # f => InTable(g)' = InTable(g)
  BY <1>3 DEF InTable
<1>. QED BY <1>3, <1>4, <1>5, <1>6, <1>7, CloseDesc DEF DescInv, TableInv
-----------------------------------------------------------------------------
(* The messages on a stream *)

\* A number larger than all before it goes to the end of an increasing sequence.
LEMMA AppendNext ==
  ASSUME NEW s \in Seq(Nat), NEW n \in Nat, Increasing(s), \A k \in Elems(s) : k < n
  PROVE  Increasing(Append(s, n)) /\ Elems(Append(s, n)) = Elems(s) \cup {n}
<1>. DEFINE t == Append(s, n)
<1>1. /\ Len(s) \in Nat /\ DOMAIN s = 1 .. Len(s) /\ DOMAIN t = 1 .. Len(s) + 1
      /\ \A k \in 1 .. Len(s) : t[k] = s[k] /\ s[k] \in Nat /\ s[k] < n
      /\ t[Len(s) + 1] = n
  BY DEF Elems
<1>. HIDE DEF t
<1>2. Increasing(t)
  BY <1>1 DEF Increasing
<1>3. Elems(t) = Elems(s) \cup {n}
  BY <1>1 DEF Elems
<1>. QED BY <1>2, <1>3 DEF t

\* Every message has a source.
LEMMA LogEntry ==
  ASSUME TableTypeOK, NEW k \in DOMAIN log
  PROVE  k \in 1 .. Len(log) /\ log[k] \in Message /\ log[k].src \in Conn
<1>1. log \in Seq(Message)
  BY DEF TableTypeOK
<1>2. DOMAIN log = 1 .. Len(log) /\ Len(log) \in Nat
  BY <1>1
<1>3. log[k] \in Message
  BY <1>1, <1>2
<1>. QED BY <1>2, <1>3 DEF Message


\* what the client in slot i must have been given when the messages up to number n
\* have passed the slot
Heard(i, n) ==
  clients[i].is_active /\ peer[ConnIn(i)] = "open" => HasExactly(ConnIn(i), n)

\* A stream is exact up to n still when the slot, the log and the stream stay.
LEMMA HeardStays ==
  ASSUME NEW i \in Slot, NEW n, Heard(i, n),
         clients'[i].is_active => clients[i].is_active /\ ConnIn(i)' = ConnIn(i),
         peer'[ConnIn(i)] = "open" => peer[ConnIn(i)] = "open",
         UNCHANGED <<inbox, log, joined>>
  PROVE  Heard(i, n)'
<1>. SUFFICES ASSUME clients'[i].is_active, peer'[ConnIn(i)'] = "open"
              PROVE  HasExactly(ConnIn(i), n)'
  BY DEF Heard
<1>1. ConnIn(i)' = ConnIn(i) /\ HasExactly(ConnIn(i), n)
  BY DEF Heard
<1>. QED BY <1>1 DEF HasExactly, Elems, Increasing

-----------------------------------------------------------------------------
(* The room *)

\* a listed slot is about a connection that was accepted and has a number
SlotsLive ==
  \A i \in Slot : clients[i].is_active =>
    ConnIn(i) \in Conn /\ peer[ConnIn(i)] # "idle" /\ idOf[ConnIn(i)] # 0

\* Everything that was said is in the room.
LEMMA RoomLog ==
  ASSUME TableTypeOK
  PROVE  /\ Len(Said) = Len(log) /\ Len(log) \in Nat
         /\ \A k \in 1 .. Len(log) : Said[k].from = log[k].src
<1>1. DOMAIN log = 1 .. Len(log) /\ Len(log) \in Nat
  BY DEF TableTypeOK
<1>2. Said \in Seq({Said[k] : k \in 1 .. Len(log)}) /\ DOMAIN Said = 1 .. Len(log)
  BY <1>1 DEF Said
<1>3. \A k \in 1 .. Len(log) : Said[k].from = log[k].src
  BY <1>1 DEF Said
<1>. QED BY <1>1, <1>2, <1>3

\* The room is empty at the start.
LEMMA RoomStarts == SocketsInit /\ TableInit => Room!RoomInit
BY DEF SocketsInit, TableInit, Room!RoomInit, Members, Said, Unreachable

\* When every stream is exact to the end of the log, every member has heard everything.
LEMMA RoomHasHeard ==
  ASSUME TableTypeOK, SlotsLive, \A i \in Slot : Heard(i, Len(log))
  PROVE  Room!AllHaveHeard
<1>. SUFFICES ASSUME NEW c \in Conn \ Unreachable, Members[c] = "in",
                     NEW k \in Room!Owed(c)
              PROVE  FALSE
  BY DEF Room!AllHaveHeard
<1>1. PICK i \in Slot : clients[i].is_active /\ ConnIn(i) = c
  BY DEF Members, Listed
<1>2. HasExactly(c, Len(log))
  BY <1>1 DEF Heard, SlotsLive, Unreachable
<1>3. /\ k \in joined[c] + 1 .. Len(log) /\ log[k].src # c
      /\ ~ \E n \in DOMAIN inbox[c] : inbox[c][n] = k
  <2>1. joined[c] \in Nat /\ Len(log) \in Nat
    BY DEF TableTypeOK
  <2>2. /\ k \in joined[c] + 1 .. Len(log) /\ Said[k].from # c
        /\ ~ \E n \in DOMAIN inbox[c] : inbox[c][n] = k
    BY RoomLog DEF Room!Owed, Room!HasHeard
  <2>3. Said[k].from = log[k].src
    BY <2>1, <2>2, RoomLog
  <2>. QED BY <2>2, <2>3
<1>. QED BY <1>2, <1>3 DEF HasExactly, Elems

\* Whether d is a member depends on its number, the table and its goodbye alone, and
\* without a number on nothing else.
LEMMA MemberStays ==
  ASSUME NEW d \in Conn, idOf'[d] = 0 <=> idOf[d] = 0,
         idOf[d] # 0 => (Listed(d)' <=> Listed(d)),
         SaidBye(d)' <=> SaidBye(d)
  PROVE  Members'[d] = Members[d]
BY DEF Members

\* Membership changes in one place.
LEMMA OneMember ==
  ASSUME NEW c \in Conn, NEW m, Members'[c] = m,
         \A d \in Conn : d # c => Members'[d] = Members[d]
  PROVE  Members' = [Members EXCEPT ![c] = m]
<1>1. Members = [d \in Conn |-> Members[d]] /\ Members' = [d \in Conn |-> Members'[d]]
  BY DEF Members
<1>. QED BY <1>1

\* What the room does not notice: the table, the log and the streams stay, and
\* nobody becomes unreachable.
LEMMA RoomStutters ==
  ASSUME UNCHANGED <<idOf, log, joined, inbox>>, Unreachable' = Unreachable,
         \A d \in Conn : idOf[d] # 0 => (Listed(d)' <=> Listed(d))
  PROVE  UNCHANGED Room!roomVars
<1>1. \A d \in Conn : Members'[d] = Members[d]
  BY MemberStays DEF SaidBye
<1>2. Members' = Members
  BY <1>1 DEF Members
<1>. QED BY <1>2 DEF Room!roomVars, Said

\* A connection that breaks vanishes from the room and is a member still.
LEMMA RoomVanishes ==
  ASSUME NEW c, UNCHANGED <<idOf, log, joined, inbox>>, Unreachable' = Unreachable \cup {c},
         \A d \in Conn : idOf[d] # 0 => (Listed(d)' <=> Listed(d))
  PROVE  Room!Vanish(c)
<1>1. \A d \in Conn : Members'[d] = Members[d]
  BY MemberStays DEF SaidBye
<1>2. Members' = Members
  BY <1>1 DEF Members
<1>. QED BY <1>2 DEF Room!Vanish, Said

\* A client joins when it gets its slot and its number.
LEMMA RoomJoins ==
  ASSUME TableTypeOK, NEW c \in Conn, NEW f, Register(c, f), Room!AllHaveHeard,
         idOf[c] = 0, ~SaidBye(c), Listed(c)', \A d \in Conn : d # c => (Listed(d)' <=> Listed(d)),
         UNCHANGED inbox, Unreachable' = Unreachable
  PROVE  Room!Join(c)
<1>1. /\ UNCHANGED log /\ joined' = [joined EXCEPT ![c] = Len(Said)]
      /\ idOf'[c] # 0 /\ \A d \in Conn : d # c => idOf'[d] = idOf[d]
  <2>1. /\ total_connections + 1 \in Nat /\ total_connections + 1 # 0
        /\ idOf \in [Conn -> Nat] /\ Len(Said) = Len(log)
    BY RoomLog DEF TableTypeOK
  <2>2. /\ UNCHANGED log /\ joined' = [joined EXCEPT ![c] = Len(log)]
        /\ idOf' = [idOf EXCEPT ![c] = total_connections + 1]
    BY DEF Register
  <2>. QED BY <2>1, <2>2
<1>2. Members[c] = "out"
  BY DEF Members
<1>3. Members'[c] = "in"
  BY <1>1 DEF Members, SaidBye
<1>4. \A d \in Conn : d # c => Members'[d] = Members[d]
  BY <1>1, MemberStays DEF SaidBye
<1>5. Members' = [Members EXCEPT ![c] = "in"]
  BY <1>3, <1>4, OneMember
<1>. QED BY <1>1, <1>2, <1>5 DEF Room!Join, Said

\* A member leaves when its slot is given up.
LEMMA RoomLeaves ==
  ASSUME NEW c \in Conn, Members[c] \in {"in", "quit"}, ~Listed(c)',
         \A d \in Conn : d # c /\ idOf[d] # 0 => (Listed(d)' <=> Listed(d)),
         UNCHANGED <<idOf, log, joined, inbox>>, Unreachable' = Unreachable
  PROVE  Room!Leave(c)
<1>1. Members'[c] = "left"
  BY DEF Members
<1>2. \A d \in Conn : d # c => Members'[d] = Members[d]
  BY MemberStays DEF SaidBye
<1>3. Members' = [Members EXCEPT ![c] = "left"]
  BY <1>1, <1>2, OneMember
<1>. QED BY <1>3 DEF Room!Leave, Said

\* What a new message adds to the log.
LEMMA LogGrows ==
  ASSUME TableTypeOK, NEW c \in Conn, NEW id, NEW n, StartBroadcast(c, id, n)
  PROVE  /\ Len(log) \in Nat /\ DOMAIN log = 1 .. Len(log) /\ DOMAIN log' = 1 .. Len(log) + 1
         /\ Len(log') = Len(log) + 1
         /\ \A k \in 1 .. Len(log) : log'[k] = log[k]
         /\ log'[Len(log) + 1] = [src |-> c, id |-> id, upto |-> n]
         /\ UNCHANGED <<clients, total_connections, joined, idOf>>
<1>1. log \in Seq(Message) /\ log' = Append(log, [src |-> c, id |-> id, upto |-> n])
  BY DEF TableTypeOK, StartBroadcast
<1>2. Len(log) \in Nat /\ DOMAIN log = 1 .. Len(log)
  BY <1>1
<1>. QED BY <1>1, <1>2 DEF StartBroadcast

\* Only the quit notice of c is a goodbye, and only its own.
LEMMA ByeSaid ==
  ASSUME TableTypeOK, NEW c \in Conn, NEW id, NEW n, StartBroadcast(c, id, n)
  PROVE  \A d \in Conn : SaidBye(d)' <=> SaidBye(d) \/ (d = c /\ n = 0)
<1>1. /\ Len(log) \in Nat /\ DOMAIN log = 1 .. Len(log) /\ DOMAIN log' = 1 .. Len(log) + 1
      /\ \A k \in 1 .. Len(log) : log'[k] = log[k]
      /\ log'[Len(log) + 1].src = c /\ log'[Len(log) + 1].upto = n
  <2>1. log'[Len(log) + 1] = [src |-> c, id |-> id, upto |-> n]
    BY LogGrows
  <2>. QED BY <2>1, LogGrows
<1>. QED BY <1>1 DEF SaidBye

\* A broadcast says a message of a member, or its goodbye, once everybody has heard
\* what was said before.
LEMMA RoomSays ==
  ASSUME TableTypeOK, NEW c \in Conn, NEW id, NEW n \in Nat, StartBroadcast(c, id, n),
         Room!AllHaveHeard, Members[c] = "in", UNCHANGED <<fdt, inbox>>,
         Unreachable' = Unreachable
  PROVE  Room!Say(c) \/ Room!Quit(c)
<1>1. /\ Len(log) \in Nat /\ DOMAIN log = 1 .. Len(log) /\ DOMAIN log' = 1 .. Len(log) + 1
      /\ \A k \in 1 .. Len(log) : log'[k] = log[k]
      /\ log'[Len(log) + 1].src = c /\ log'[Len(log) + 1].upto = n
      /\ UNCHANGED <<clients, joined, idOf>>
  <2>1. log'[Len(log) + 1] = [src |-> c, id |-> id, upto |-> n]
    BY LogGrows
  <2>. QED BY <2>1, LogGrows
<1>. DEFINE entry == [from |-> c, bye |-> n = 0]
<1>2. Said' = Append(Said, entry)
  <2>1. Said' = [k \in 1 .. Len(log) + 1 |-> IF k = Len(log) + 1 THEN entry ELSE Said[k]]
    BY <1>1 DEF Said
  <2>2. Said = [k \in 1 .. Len(log) |-> Said[k]]
    BY <1>1 DEF Said
  <2>. QED BY <1>1, <2>1, <2>2, RoomLog
<1>3. \A d \in Conn : Listed(d)' <=> Listed(d)
  BY <1>1 DEF Listed, ConnIn
<1>4. \A d \in Conn : SaidBye(d)' <=> SaidBye(d) \/ (d = c /\ n = 0)
  BY ByeSaid
<1>5. \A d \in Conn : d # c => Members'[d] = Members[d]
  BY <1>1, <1>3, <1>4, MemberStays
<1>6. idOf[c] # 0 /\ Listed(c) /\ ~SaidBye(c)
  BY DEF Members
<1>7. CASE n = 0
  <2>1. Members'[c] = "quit"
    BY <1>1, <1>3, <1>4, <1>6, <1>7 DEF Members
  <2>2. Members' = [Members EXCEPT ![c] = "quit"]
    BY <1>5, <2>1, OneMember
  <2>3. Said' = Append(Said, [from |-> c, bye |-> TRUE])
    BY <1>2, <1>7
  <2>. QED BY <1>1, <2>2, <2>3 DEF Room!Quit
<1>8. CASE n # 0
  <2>1. Members'[c] = Members[c]
    BY <1>1, <1>3, <1>4, <1>8, MemberStays
  <2>2. Members' = Members
    BY <1>5, <2>1 DEF Members
  <2>3. Said' = Append(Said, [from |-> c, bye |-> FALSE])
    BY <1>2, <1>8
  <2>. QED BY <1>1, <2>2, <2>3 DEF Room!Say
<1>. QED BY <1>7, <1>8

-----------------------------------------------------------------------------
(* The steps of a server and those of the room *)

SlotsApart ==
  \A i, j \in Slot :
    clients[i].is_active /\ clients[j].is_active /\ ConnIn(i) = ConnIn(j) => i = j

\* nothing was given to, and nothing was said by, a client that never got a number
RoomInv ==
  /\ \A c \in Conn : joined[c] <= Len(log)
  /\ \A c \in Conn : idOf[c] = 0 => inbox[c] = <<>>
  /\ \A k \in DOMAIN log : idOf[log[k].src] # 0

\* Nothing was said at the start.
LEMMA InitRoom == SocketsInit /\ TableInit => RoomInv /\ SlotsApart /\ SlotsLive
BY DEF SocketsInit, TableInit, RoomInv, SlotsApart, SlotsLive

\* The room is the same while the log, the numbers and the streams are.
LEMMA RoomKept ==
  ASSUME RoomInv, UNCHANGED <<joined, log, idOf, inbox>>
  PROVE  RoomInv'
BY DEF RoomInv

\* A message joins the log; its number is due to everybody who heard the others.
LEMMA SayKeeps ==
  ASSUME TableTypeOK, RoomInv, NEW c \in Conn, idOf[c] # 0, NEW id, NEW n,
         StartBroadcast(c, id, n), UNCHANGED inbox
  PROVE  /\ RoomInv' /\ Len(log') = Len(log) + 1 /\ log'[Len(log')].src = c
         /\ \A d \in Conn : joined'[d] < Len(log')
<1>1. /\ Len(log) \in Nat /\ DOMAIN log = 1 .. Len(log) /\ DOMAIN log' = 1 .. Len(log) + 1
      /\ Len(log') = Len(log) + 1
      /\ \A k \in 1 .. Len(log) : log'[k] = log[k]
      /\ log'[Len(log) + 1].src = c
      /\ UNCHANGED <<joined, idOf>>
  <2>1. log'[Len(log) + 1] = [src |-> c, id |-> id, upto |-> n]
    BY LogGrows
  <2>. QED BY <2>1, LogGrows
<1>2. \A d \in Conn : joined'[d] < Len(log')
  BY <1>1 DEF RoomInv, TableTypeOK
<1>3. \A d \in Conn : joined'[d] <= Len(log')
  BY <1>1, <1>2 DEF TableTypeOK
<1>4. \A k \in DOMAIN log' : idOf'[log'[k].src] # 0
  BY <1>1 DEF RoomInv
<1>. QED BY <1>1, <1>2, <1>3, <1>4 DEF RoomInv

\* A stream exact to the end of the log is so still when the next message is said.
LEMMA SayHeard ==
  ASSUME TableTypeOK, NEW i \in Slot, NEW m, m = Len(log), Heard(i, m),
         NEW c \in Conn, NEW id, NEW n, StartBroadcast(c, id, n), UNCHANGED <<fdt, inbox>>,
         peer'[ConnIn(i)] = "open" => peer[ConnIn(i)] = "open",
         clients[i].is_active => ConnIn(i) \in Conn
  PROVE  Heard(i, m)'
<1>1. /\ m \in Nat /\ \A k \in 1 .. m : log'[k] = log[k]
      /\ UNCHANGED <<clients, joined>>
  BY LogGrows
<1>. SUFFICES ASSUME clients[i].is_active, peer'[ConnIn(i)] = "open"
              PROVE  HasExactly(ConnIn(i), m)'
  BY <1>1 DEF Heard, ConnIn
<1>2. HasExactly(ConnIn(i), m) /\ ConnIn(i)' = ConnIn(i) /\ joined[ConnIn(i)] \in Nat
  BY <1>1 DEF Heard, ConnIn, TableTypeOK
<1>3. {k \in joined[ConnIn(i)] + 1 .. m : log'[k].src # ConnIn(i)}
        = {k \in joined[ConnIn(i)] + 1 .. m : log[k].src # ConnIn(i)}
  BY <1>1, <1>2
<1>. QED BY <1>1, <1>2, <1>3 DEF HasExactly, Elems, Increasing

\* A client that gets its slot has heard all it has to.
LEMMA JoinHeard ==
  ASSUME TableTypeOK, NEW i \in Slot, NEW m, m = Len(log), Heard(i, m),
         NEW c \in Conn, NEW f, Register(c, f), UNCHANGED <<inbox, peer>>, inbox[c] = <<>>,
         clients'[i].is_active =>
           \/ ConnIn(i)' = c
           \/ clients[i].is_active /\ ConnIn(i)' = ConnIn(i) /\ ConnIn(i) \in Conn \ {c}
  PROVE  Heard(i, m)'
<1>. SUFFICES ASSUME clients'[i].is_active, peer[ConnIn(i)'] = "open"
              PROVE  HasExactly(ConnIn(i), m)'
  BY DEF Heard
<1>1. UNCHANGED log /\ joined'[c] = m /\ m \in Nat /\ \A d \in Conn : d # c => joined'[d] = joined[d]
  BY DEF Register, TableTypeOK
<1>2. CASE ConnIn(i)' = c
  BY <1>1, <1>2 DEF HasExactly, Elems, Increasing
<1>3. CASE clients[i].is_active /\ ConnIn(i)' = ConnIn(i) /\ ConnIn(i) \in Conn \ {c}
  BY <1>1, <1>3 DEF Heard, HasExactly, Elems, Increasing
<1>. QED BY <1>2, <1>3

\* A client that gets its slot leaves the room as it was.
LEMMA JoinKeeps ==
  ASSUME TableTypeOK, RoomInv, NEW c \in Conn, NEW f, Register(c, f), UNCHANGED inbox
  PROVE  RoomInv'
<1>1. /\ total_connections + 1 \in Nat /\ total_connections + 1 # 0
      /\ idOf \in [Conn -> Nat] /\ joined \in [Conn -> Nat] /\ Len(log) \in Nat
  BY DEF TableTypeOK
<1>2. /\ UNCHANGED log /\ joined' = [joined EXCEPT ![c] = Len(log)]
      /\ idOf' = [idOf EXCEPT ![c] = total_connections + 1]
  BY DEF Register
<1>3. \A d \in Conn : idOf'[d] = 0 => idOf[d] = 0
  BY <1>1, <1>2
<1>4. \A k \in DOMAIN log : log[k].src \in Conn
  BY LogEntry
<1>5. \A d \in Conn : idOf[d] # 0 => idOf'[d] # 0
  BY <1>1, <1>2
<1>. QED BY <1>1, <1>2, <1>3, <1>4, <1>5 DEF RoomInv

\* One iteration of the broadcast gives the last message to the next member that has
\* not heard it, or the room does not notice.
LEMMA RoomHears ==
  ASSUME SocketsTypeOK, TableTypeOK, RoomInv, SlotsLive, SlotsApart,
         NEW i \in Slot, NEW f, BroadcastTo(i, f), UNCHANGED tableVars,
         NEW m \in Nat, m + 1 = Len(log), Heard(i, m),
         \A d \in Conn : joined[d] <= m,
         clients[i].is_active /\ clients[i].fd # f => ConnIn(i) # log[m + 1].src,
         clients[i].is_active /\ clients[i].fd = f => ConnIn(i) = log[m + 1].src,
         clients[i].is_active /\ clients[i].fd # f /\ peer[ConnIn(i)] = "open" =>
           ~SaidBye(ConnIn(i))
  PROVE  /\ (\E c \in Conn : Room!Hear(c)) \/ UNCHANGED Room!roomVars
         /\ RoomInv' /\ Heard(i, m + 1)'
         /\ \A j \in Slot, n \in Nat : j # i /\ Heard(j, n) => Heard(j, n)'
<1>. DEFINE c == ConnIn(i)
<1>0. /\ UNCHANGED <<fdt, backlog>> /\ UNCHANGED <<clients, log, joined, idOf>>
      /\ \A d \in Conn : joined[d] \in Nat
  BY DEF BroadcastTo, tableVars, TableTypeOK
<1>1. \A d \in Conn : Listed(d)' <=> Listed(d)
  BY <1>0 DEF Listed, ConnIn
<1>2. CASE UNCHANGED inbox /\ Unreachable' = Unreachable /\ (peer[c] # "open" \/ ~clients[i].is_active \/ clients[i].fd = f)
  <2>1. UNCHANGED Room!roomVars /\ RoomInv'
    BY <1>0, <1>1, <1>2, RoomStutters, RoomKept
  <2>2. \A d \in Conn : peer'[d] = "open" => peer[d] = "open" \/ peer[d] = "idle"
    BY <1>2 DEF Unreachable
  <2>3. \A j \in Slot : clients[j].is_active /\ peer'[ConnIn(j)] = "open" => peer[ConnIn(j)] = "open"
    BY <2>2 DEF SlotsLive
  <2>4. \A j \in Slot, n \in Nat : j # i /\ Heard(j, n) => Heard(j, n)'
    <3>. SUFFICES ASSUME NEW j \in Slot, NEW n \in Nat, Heard(j, n), clients[j].is_active
                  PROVE  Heard(j, n)'
      BY <1>0 DEF Heard
    <3>1. ConnIn(j)' = ConnIn(j)
      BY <1>0 DEF ConnIn
    <3>. QED BY <1>0, <1>2, <2>3, <3>1, HeardStays
  <2>5. Heard(i, m + 1)'
    <3>. SUFFICES ASSUME clients[i].is_active, peer'[c] = "open"
                  PROVE  HasExactly(c, m + 1)'
      BY <1>0 DEF Heard, ConnIn
    <3>1. peer[c] = "open" /\ clients[i].fd = f /\ c = log[m + 1].src /\ c \in Conn
      BY <1>2, <2>3 DEF SlotsLive
    <3>2. HasExactly(c, m) /\ c' = c
      BY <1>0, <3>1 DEF Heard, ConnIn
    <3>3. {k \in joined[c] + 1 .. m + 1 : log[k].src # c}
            = {k \in joined[c] + 1 .. m : log[k].src # c}
      BY <1>0, <3>1
    <3>. QED BY <1>0, <1>2, <3>2, <3>3 DEF HasExactly, Elems, Increasing
  <2>. QED BY <2>1, <2>4, <2>5
<1>3. CASE /\ clients[i].is_active /\ clients[i].fd # f /\ peer[c] = "open"
           /\ inbox' = [inbox EXCEPT ![c] = Append(@, Len(log))] /\ UNCHANGED peer
  <2>1. c \in Conn /\ c # log[m + 1].src /\ ~SaidBye(c) /\ idOf[c] # 0
    BY <1>3 DEF SlotsLive
  <2>2. HasExactly(c, m) /\ joined[c] \in Nat /\ joined[c] <= m /\ inbox[c] \in Seq(Nat)
    BY <1>0, <1>3, <2>1 DEF Heard, SocketsTypeOK
  <2>3. inbox'[c] = Append(inbox[c], m + 1) /\ \A d \in Conn : d # c => inbox'[d] = inbox[d]
    BY <1>3, <2>1 DEF SocketsTypeOK
  <2>4. /\ Increasing(Append(inbox[c], m + 1))
        /\ Elems(Append(inbox[c], m + 1)) = Elems(inbox[c]) \cup {m + 1}
    BY <2>2, AppendNext DEF HasExactly
  <2>5. {k \in joined[c] + 1 .. m + 1 : log[k].src # c}
          = {k \in joined[c] + 1 .. m : log[k].src # c} \cup {m + 1}
    BY <2>1, <2>2
  <2>6. Heard(i, m + 1)'
    <3>0. PICK d \in Conn : d = c
      BY <2>1
    <3>1. ConnIn(i)' = d /\ UNCHANGED <<log, joined>>
      BY <1>0, <3>0 DEF ConnIn
    <3>2. Increasing(inbox'[d]) /\ Elems(inbox'[d]) = {k \in joined[d] + 1 .. m + 1 : log[k].src # d}
      BY <2>2, <2>3, <2>4, <2>5, <3>0 DEF HasExactly
    <3>3. HasExactly(d, m + 1)'
      BY <3>1, <3>2 DEF HasExactly, Elems, Increasing
    <3>. QED BY <3>1, <3>3 DEF Heard
  <2>7. \A j \in Slot, n \in Nat : j # i /\ Heard(j, n) => Heard(j, n)'
    <3>. SUFFICES ASSUME NEW j \in Slot, NEW n \in Nat, j # i, Heard(j, n), clients[j].is_active,
                         peer[ConnIn(j)] = "open"
                  PROVE  HasExactly(ConnIn(j), n)'
      BY <1>0, <1>3 DEF Heard, ConnIn
    <3>1. ConnIn(j)' = ConnIn(j) /\ ConnIn(j) # c /\ ConnIn(j) \in Conn
      BY <1>0, <1>3 DEF ConnIn, SlotsApart, SlotsLive
    <3>2. inbox'[ConnIn(j)] = inbox[ConnIn(j)]
      BY <2>3, <3>1
    <3>. QED BY <1>0, <3>1, <3>2 DEF Heard, HasExactly, Elems, Increasing
  <2>8. RoomInv'
    BY <1>0, <2>1, <2>3 DEF RoomInv
  <2>9. Room!Hear(c)
    <3>1. Members[c] = "in"
      BY <1>3, <2>1 DEF Members, Listed
    <3>2. Room!Owed(c) = {m + 1}
      <4>1. /\ Len(Said) = m + 1 /\ \A k \in 1 .. m + 1 : Said[k].from = log[k].src
        BY RoomLog
      <4>2. \A k : Room!HasHeard(c, k) <=> k \in {n \in joined[c] + 1 .. m : log[n].src # c}
        BY <2>2 DEF Room!HasHeard, HasExactly, Elems
      <4>3. \A k : k \in Room!Owed(c) <=> k \in joined[c] + 1 .. m + 1 /\ log[k].src # c
                                          /\ ~Room!HasHeard(c, k)
        BY <2>2, <4>1 DEF Room!Owed
      <4>. QED BY <2>1, <2>2, <4>2, <4>3
    <3>3. Members' = Members
      BY <1>0, <1>1 DEF Members, SaidBye
    <3>4. Said' = Said /\ Unreachable' = Unreachable
      BY <1>0, <1>3 DEF Said, Unreachable
    <3>5. m + 1 \in Room!Owed(c) /\ \A j \in Room!Owed(c) : m + 1 <= j
      BY <3>2
    <3>6. inbox' = [inbox EXCEPT ![c] = Append(@, m + 1)]
      BY <1>3
    <3>. QED BY <1>0, <3>1, <3>3, <3>4, <3>5, <3>6 DEF Room!Hear
  <2>. QED BY <2>1, <2>6, <2>7, <2>8, <2>9
<1>4. CASE UNCHANGED <<inbox, unread, peer, proc>> /\ ~(clients[i].is_active /\ clients[i].fd # f)
  BY <1>2, <1>4 DEF Unreachable
<1>5. CASE clients[i].is_active /\ clients[i].fd # f /\ Send(clients[i].fd, Len(log))
  <2>1. c \in Conn /\ c = fdt[clients[i].fd] /\ c # NoConn
    BY <1>5, SocketsAssumption DEF SlotsLive, ConnIn
  <2>2. CASE peer[c] = "open"
    BY <1>3, <1>5, <2>1, <2>2 DEF Send
  <2>3. CASE peer[c] # "open"
    <3>1. UNCHANGED inbox
      BY <1>5, <2>1, <2>3 DEF Send
    <3>2. UNCHANGED peer \/ (peer[c] \in {"fin", "rst"} /\ \E p \in {"fin", "gone"} : peer' = [peer EXCEPT ![c] = p])
      BY <1>5, <2>1, <2>3 DEF Send
    <3>3. Unreachable' = Unreachable
      BY <2>1, <3>2 DEF Unreachable, SocketsTypeOK
    <3>. QED BY <1>2, <2>3, <3>1, <3>3
  <2>. QED BY <2>2, <2>3
<1>. QED BY <1>4, <1>5 DEF BroadcastTo

\* Filling a slot lists the client it is for, and nobody else.
LEMMA RegisterLists ==
  ASSUME TableTypeOK, NEW c \in Conn, NEW f, Register(c, f), fdt'[f] = c, ~Listed(c),
         \A i \in Slot : clients[i].is_active => fdt'[clients[i].fd] = fdt[clients[i].fd]
  PROVE  /\ Listed(c)' /\ \A d \in Conn : d # c => (Listed(d)' <=> Listed(d))
         /\ \A i \in Slot : clients'[i].is_active =>
              \/ ConnIn(i)' = c
              \/ clients[i].is_active /\ ConnIn(i)' = ConnIn(i) /\ ConnIn(i) # c
         /\ InTable(f)' /\ \A g : InTable(g) => InTable(g)'
<1>1. PICK i \in Slot :
        /\ ~clients[i].is_active
        /\ clients' = [clients EXCEPT ![i] =
             [fd |-> f, id |-> total_connections + 1, is_active |-> TRUE]]
  BY DEF Register
<1>2. DOMAIN clients = Slot
  BY DEF TableTypeOK
<1>3. /\ clients'[i].fd = f /\ clients'[i].is_active
      /\ \A j \in Slot : j # i => clients'[j] = clients[j]
  BY <1>1, <1>2
<1>4. ConnIn(i)' = c
  BY <1>3 DEF ConnIn
<1>5. ASSUME NEW j \in Slot, j # i
      PROVE  /\ clients'[j].is_active <=> clients[j].is_active
             /\ clients[j].is_active => ConnIn(j)' = ConnIn(j) /\ ConnIn(j) # c
  <2>1. clients'[j] = clients[j]
    BY <1>3, <1>5
  <2>. QED BY <2>1 DEF ConnIn, Listed
<1>6. Listed(c)'
  BY <1>3, <1>4 DEF Listed
<1>7. ASSUME NEW d \in Conn, d # c PROVE Listed(d)' <=> Listed(d)
  BY <1>1, <1>3, <1>4, <1>5, <1>7 DEF Listed
<1>8. InTable(f)' /\ \A g : InTable(g) => InTable(g)'
  BY <1>1, <1>3 DEF InTable
<1>. QED BY <1>4, <1>5, <1>6, <1>7, <1>8

\* A client is listed when one of its descriptors is in the table.
LEMMA ListedIs ==
  TableInv => \A c \in Conn : Listed(c) <=> \E f \in Fd : fdt[f] = c /\ InTable(f)
BY DEF TableInv, SlotsHold, Holds, Listed, ConnIn, InTable

\* What listed means in the table holds after a step too.
LEMMA ListedNext ==
  (TableInv => \A c \in Conn : Listed(c) <=> \E f \in Fd : fdt[f] = c /\ InTable(f))'
BY ListedIs, PTL

\* With the table in order, its slots are about different connections, accepted ones.
LEMMA TableSlots ==
  ASSUME TableInv
  PROVE  /\ SlotsLive /\ SlotsApart
         /\ \A c \in Conn : idOf[c] = 0 => ~Listed(c)
<1>1. ASSUME NEW i \in Slot, clients[i].is_active
      PROVE  /\ ConnIn(i) \in Conn /\ peer[ConnIn(i)] # "idle" /\ idOf[ConnIn(i)] # 0
             /\ clients[i].fd \in Fd
  <2>1. Holds(i)
    BY <1>1 DEF TableInv, SlotsHold
  <2>2. ConnIn(i) \in Conn /\ clients[i].fd \in Fd /\ idOf[ConnIn(i)] # 0
    BY <2>1 DEF Holds, ConnIn
  <2>3. ~Pending(ConnIn(i))
    BY <2>2 DEF TableInv, PendingFresh, ConnIn
  <2>. QED BY <2>2, <2>3 DEF Pending
<1>2. SlotsLive
  BY <1>1 DEF SlotsLive
<1>3. SlotsApart
  <2>. SUFFICES ASSUME NEW i \in Slot, NEW j \in Slot, clients[i].is_active, clients[j].is_active,
                       ConnIn(i) = ConnIn(j)
                PROVE  i = j
    BY DEF SlotsApart
  <2>1. clients[i].fd = clients[j].fd
    BY <1>1, SocketsAssumption DEF TableInv, OneFd, ConnIn
  <2>. QED BY <2>1 DEF TableInv, SlotsDiffer
<1>. QED BY <1>1, <1>2, <1>3 DEF Listed, InTable, ConnIn
=============================================================================
