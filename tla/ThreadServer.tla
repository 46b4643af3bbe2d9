----------------------------- MODULE ThreadServer -----------------------------
(***************************************************************************)
(* hw4/server_thread.c: main() accepts connections and starts one detached *)
(* thread, client_handler, per connection; client_mutex protects the table *)
(* of clients in broadcast_msg and in both places that write it, but not   *)
(* in the loop in which a new handler looks up its own id.                 *)
(*                                                                         *)
(* A critical section without a blocking call is one step.  The broadcast  *)
(* loop is one step per slot, because send() may block there.  The lookup  *)
(* runs unlocked and races with main's writes, so it is two steps per      *)
(* slot: the comparison of fd and the read of id.                          *)
(***************************************************************************)
EXTENDS ChatServer

CONSTANT Faults   \* calls that may fail: a subset of {"accept", "spawn"}

ASSUME ThreadServerAssumption == Faults \subseteq {"accept", "spawn"}

VARIABLES
  mpc,            \* where main is
  mfd,            \* its client_fd, 0 between two rounds
  client_mutex,   \* the connection whose handler holds it, or NoConn
  hpc,            \* where the handler of each connection is
  hfd,            \* its client_fd
  client_id,      \* its client_id, 0 while uninitialised
  hi,             \* its loop counter i
  hmsg            \* the message it formatted: last byte, or 0 for the notice

threadVars == <<mpc, mfd, client_mutex, hpc, hfd, client_id, hi, hmsg>>
vars == <<sockVars, tableVars, threadVars>>

HandlerPc ==
  {"none", "scan", "id", "recv", "lock", "send", "unlist", "close", "done"}

ThreadTypeOK ==
  /\ mpc \in {"call", "accept", "register", "reject", "spawn"}
  /\ mfd \in Fd \cup {0}
  /\ client_mutex \in Conn \cup {NoConn}
  /\ hpc \in [Conn -> HandlerPc]
  /\ hfd \in [Conn -> Fd \cup {0}]
  /\ client_id \in [Conn -> Nat]
  /\ hi \in [Conn -> 0 .. MaxClients + 1]
  /\ hmsg \in [Conn -> Nat]

TypeOK == SocketsTypeOK /\ TableTypeOK /\ ThreadTypeOK

Init ==
  /\ SocketsInit
  /\ TableInit
  /\ mpc = "call" /\ mfd = 0
  /\ client_mutex = NoConn
  /\ hpc = [c \in Conn |-> "none"]
  /\ hfd = [c \in Conn |-> 0]
  /\ client_id = [c \in Conn |-> 0]
  /\ hi = [c \in Conn |-> 0]
  /\ hmsg = [c \in Conn |-> 0]

-----------------------------------------------------------------------------
(* main() *)

At(l) == proc = "running" /\ mpc = l

\* accept() takes the lowest free descriptor when it is called and returns
\* when there is a connection for it; with no free one it fails at once
AcceptCall ==
  /\ At("call")
  /\ \E f \in Fd : LowestFree(f) /\ mfd' = f
  /\ mpc' = "accept"
  /\ UNCHANGED <<sockVars, tableVars, client_mutex, hpc, hfd, client_id, hi, hmsg>>

AcceptReturn ==
  /\ At("accept")
  /\ \E c \in backlog : AcceptConn(c, mfd)
  /\ mpc' = "register"
  /\ UNCHANGED <<tableVars, mfd, client_mutex, hpc, hfd, client_id, hi, hmsg>>

\* accept() < 0: main returns, which ends the process and every handler
AcceptFail ==
  /\ \/ At("call") /\ NoFreeFd
     \/ At("accept") /\ "accept" \in Faults /\ backlog # {}
  /\ proc' = "exited"
  /\ UNCHANGED <<fdt, backlog, peer, sent, taken, inbox, unread,
                 tableVars, threadVars>>

\* mutant: the registration without client_mutex
RegisterNoLock ==
  /\ At("register")
  /\ IF TableFull
     THEN mpc' = "reject" /\ UNCHANGED tableVars
     ELSE mpc' = "spawn" /\ Register(fdt[mfd], mfd)
  /\ UNCHANGED <<sockVars, mfd, client_mutex, hpc, hfd, client_id, hi, hmsg>>

RegisterClient ==
  /\ At("register") /\ client_mutex = NoConn
  /\ IF TableFull
     THEN mpc' = "reject" /\ UNCHANGED tableVars
     ELSE mpc' = "spawn" /\ Register(fdt[mfd], mfd)
  /\ UNCHANGED <<sockVars, mfd, client_mutex, hpc, hfd, client_id, hi, hmsg>>

Reject ==
  /\ At("reject")
  /\ CloseFd(mfd)
  /\ mpc' = "call" /\ mfd' = 0
  /\ UNCHANGED <<tableVars, client_mutex, hpc, hfd, client_id, hi, hmsg>>

\* mutant: the search of the new handler starts at the second slot
SpawnFromSecond ==
  /\ At("spawn")
  /\ LET c == fdt[mfd] IN
       /\ hpc' = [hpc EXCEPT ![c] = "scan"]
       /\ hfd' = [hfd EXCEPT ![c] = mfd]
       /\ hi' = [hi EXCEPT ![c] = 2]
  /\ mpc' = "call" /\ mfd' = 0
  /\ UNCHANGED <<sockVars, tableVars, client_mutex, client_id, hmsg>>

Spawn ==
  /\ At("spawn")
  /\ LET c == fdt[mfd] IN
       /\ hpc' = [hpc EXCEPT ![c] = "scan"]
       /\ hfd' = [hfd EXCEPT ![c] = mfd]
       /\ hi' = [hi EXCEPT ![c] = 1]
  /\ mpc' = "call" /\ mfd' = 0
  /\ UNCHANGED <<sockVars, tableVars, client_mutex, client_id, hmsg>>

\* pthread_create returns a positive error number, which "< 0" takes for
\* success; pthread_detach of the unset thread_id may end the process or not
SpawnFail ==
  /\ At("spawn") /\ "spawn" \in Faults
  /\ mpc' = "call" /\ mfd' = 0
  /\ proc' \in {"running", "killed"}
  /\ UNCHANGED <<fdt, backlog, peer, sent, taken, inbox, unread, tableVars,
                 client_mutex, hpc, hfd, client_id, hi, hmsg>>

-----------------------------------------------------------------------------
(* client_handler(), for the connection c behind its client_fd *)

HandlerAt(c, l) == proc = "running" /\ hpc[c] = l

Advance(c) ==
  /\ hi' = [hi EXCEPT ![c] = IF @ < MaxClients THEN @ + 1 ELSE 0]
  /\ hpc' = [hpc EXCEPT ![c] = IF hi[c] < MaxClients THEN "scan" ELSE "recv"]

ScanSlot(c) ==
  /\ HandlerAt(c, "scan")
  /\ IF clients[hi[c]].fd = hfd[c]
     THEN hpc' = [hpc EXCEPT ![c] = "id"] /\ UNCHANGED hi
     ELSE Advance(c)
  /\ UNCHANGED <<sockVars, tableVars, mpc, mfd, client_mutex, hfd, client_id,
                 hmsg>>

ReadId(c) ==
  /\ HandlerAt(c, "id")
  /\ client_id' = [client_id EXCEPT ![c] = clients[hi[c]].id]
  /\ Advance(c)
  /\ UNCHANGED <<sockVars, tableVars, mpc, mfd, client_mutex, hfd, hmsg>>

\* mutant: a disconnect is announced before the remaining bytes are read
RecvEarlyEof(c) ==
  /\ HandlerAt(c, "recv")
  /\ \/ /\ RecvData(c)
        /\ hmsg' = [hmsg EXCEPT ![c] = taken'[c]]
        /\ hpc' = [hpc EXCEPT ![c] = "lock"]
     \/ /\ peer[c] \in {"fin", "gone"} /\ UNCHANGED sockVars
        /\ hmsg' = [hmsg EXCEPT ![c] = 0]
        /\ hpc' = [hpc EXCEPT ![c] = "lock"]
     \/ /\ RecvError(c)
        /\ hpc' = [hpc EXCEPT ![c] = "unlist"]
        /\ UNCHANGED hmsg
  /\ UNCHANGED <<tableVars, mpc, mfd, client_mutex, hfd, client_id, hi>>

\* mutant: an error is broadcast like a message of length -1
RecvErrorAsData(c) ==
  /\ HandlerAt(c, "recv")
  /\ \/ RecvData(c) /\ hmsg' = [hmsg EXCEPT ![c] = taken'[c]]
     \/ RecvEof(c) /\ hmsg' = [hmsg EXCEPT ![c] = 0]
     \/ RecvError(c) /\ hmsg' = [hmsg EXCEPT ![c] = -1]
  /\ hpc' = [hpc EXCEPT ![c] = "lock"]
  /\ UNCHANGED <<tableVars, mpc, mfd, client_mutex, hfd, client_id, hi>>

\* mutant: the thread ends at an error without cleaning up
RecvErrorEnds(c) ==
  /\ HandlerAt(c, "recv")
  /\ \/ RecvData(c) /\ hmsg' = [hmsg EXCEPT ![c] = taken'[c]]
          /\ hpc' = [hpc EXCEPT ![c] = "lock"]
     \/ RecvEof(c) /\ hmsg' = [hmsg EXCEPT ![c] = 0]
          /\ hpc' = [hpc EXCEPT ![c] = "lock"]
     \/ RecvError(c) /\ UNCHANGED hmsg
          /\ hpc' = [hpc EXCEPT ![c] = "done"]
  /\ UNCHANGED <<tableVars, mpc, mfd, client_mutex, hfd, client_id, hi>>

Recv(c) ==
  /\ HandlerAt(c, "recv")
  /\ \/ /\ RecvData(c)
        /\ hmsg' = [hmsg EXCEPT ![c] = taken'[c]]
        /\ hpc' = [hpc EXCEPT ![c] = "lock"]
     \/ /\ RecvEof(c)
        /\ hmsg' = [hmsg EXCEPT ![c] = 0]
        /\ hpc' = [hpc EXCEPT ![c] = "lock"]
     \/ /\ RecvError(c)
        /\ hpc' = [hpc EXCEPT ![c] = "unlist"]
        /\ UNCHANGED hmsg
  /\ UNCHANGED <<tableVars, mpc, mfd, client_mutex, hfd, client_id, hi>>

\* broadcast_msg: lock, one step per slot, unlock
BroadcastLock(c) ==
  /\ HandlerAt(c, "lock") /\ client_mutex = NoConn
  /\ client_mutex' = c
  /\ StartBroadcast(c, client_id[c], hmsg[c])
  /\ hpc' = [hpc EXCEPT ![c] = "send"]
  /\ hi' = [hi EXCEPT ![c] = 1]
  /\ UNCHANGED <<sockVars, mpc, mfd, hfd, client_id, hmsg>>

BroadcastSend(c) ==
  /\ HandlerAt(c, "send") /\ hi[c] <= MaxClients
  /\ BroadcastTo(hi[c], hfd[c])
  /\ hi' = [hi EXCEPT ![c] = @ + 1]
  /\ UNCHANGED <<tableVars, mpc, mfd, client_mutex, hpc, hfd, client_id, hmsg>>

BroadcastUnlock(c) ==
  /\ HandlerAt(c, "send") /\ hi[c] > MaxClients
  /\ client_mutex' = NoConn
  /\ hpc' = [hpc EXCEPT ![c] = IF hmsg[c] = 0 THEN "unlist" ELSE "recv"]
  /\ hi' = [hi EXCEPT ![c] = 0]
  /\ UNCHANGED <<sockVars, tableVars, mpc, mfd, hfd, client_id, hmsg>>

\* mutant: the descriptor is closed first and the slot is left listed
CloseBeforeUnlist(c) ==
  /\ HandlerAt(c, "unlist")
  /\ CloseFd(hfd[c])
  /\ hpc' = [hpc EXCEPT ![c] = "close"]
  /\ UNCHANGED <<tableVars, mpc, mfd, client_mutex, hfd, client_id, hi, hmsg>>

Unlist(c) ==
  /\ HandlerAt(c, "unlist") /\ client_mutex = NoConn
  /\ Unregister(hfd[c])
  /\ hpc' = [hpc EXCEPT ![c] = "close"]
  /\ UNCHANGED <<sockVars, mpc, mfd, client_mutex, hfd, client_id, hi, hmsg>>

Close(c) ==
  /\ HandlerAt(c, "close")
  /\ CloseFd(hfd[c])
  /\ hpc' = [hpc EXCEPT ![c] = "done"]
  /\ hfd' = [hfd EXCEPT ![c] = 0]
  /\ client_id' = [client_id EXCEPT ![c] = 0]
  /\ UNCHANGED <<tableVars, mpc, mfd, client_mutex, hi, hmsg>>

-----------------------------------------------------------------------------
Main ==
  \/ AcceptCall \/ AcceptReturn \/ AcceptFail
  \/ RegisterClient \/ Reject \/ Spawn \/ SpawnFail

Handler(c) ==
  \/ ScanSlot(c) \/ ReadId(c) \/ Recv(c)
  \/ BroadcastLock(c) \/ BroadcastSend(c) \/ BroadcastUnlock(c)
  \/ Unlist(c) \/ Close(c)

Client == ClientNext /\ UNCHANGED <<tableVars, threadVars>>

Next ==
  \/ Main
  \/ \E c \in Conn : Handler(c)
  \/ Client

Spec == Init /\ [][Next]_vars

(***************************************************************************)
(* Every thread runs, a mutex that is free is granted in the end, and a    *)
(* client's receiving thread keeps reading.  Clients need not connect,     *)
(* send or leave, and no failure has to happen.                            *)
(***************************************************************************)
FairSpec ==
  /\ Spec
  /\ WF_vars(AcceptCall \/ AcceptReturn \/ RegisterClient \/ Reject \/ Spawn)
  /\ \A c \in Conn :
       /\ WF_vars(Handler(c))
       /\ WF_vars(ClientReads(c) /\ UNCHANGED <<tableVars, threadVars>>)

-----------------------------------------------------------------------------
(* Safety *)

Alive(c) == hpc[c] \notin {"none", "done"}

\* A handler's descriptor stays its own until it closes it, and a listed slot
\* always holds the descriptor and the number of one and the same connection:
\* closing after unlisting, in threads that are never joined, must not let a
\* broadcast reach a descriptor that is closed or has been given away again.
DescriptorsOwned ==
  /\ \A c \in Conn : Alive(c) => hfd[c] \in Fd /\ fdt[hfd[c]] = c
  /\ \A i \in Slot : clients[i].is_active =>
       /\ clients[i].fd \in Fd /\ ConnIn(i) # NoConn
       /\ idOf[ConnIn(i)] = clients[i].id

\* number of the last broadcast whose loop has passed slot i
PassedBy(i) ==
  IF client_mutex = NoConn THEN Len(log)
  ELSE IF hi[client_mutex] > i THEN Len(log) ELSE Len(log) - 1

\* Total order: because broadcast_msg keeps client_mutex for its whole loop,
\* every connected client has been sent exactly the messages of the others
\* since it was listed, in the one order in which their broadcasts began.
ExactDelivery ==
  \A i \in Slot :
    clients[i].is_active /\ peer[ConnIn(i)] = "open"
      => HasExactly(ConnIn(i), PassedBy(i))

\* The unlocked search of client_handler always finds some slot, so that
\* client_id, which has no initial value, is set before it is first printed.
LabelIsSet ==
  \A c \in Conn :
    hpc[c] \in {"recv", "lock", "send", "unlist", "close"} => client_id[c] > 0

\* However a handler leaves its loop, its slot is freed before it ends: only a
\* slot whose pthread_create failed has no handler.
SlotsServed ==
  \A i \in Slot : clients[i].is_active => Alive(ConnIn(i)) \/ hpc[ConnIn(i)] = "none"

\* The number in "[Client %d]: %s" is the number its sender was given when it
\* was listed (server_thread.c:57).
LabelsAreTrue ==
  \A k \in DOMAIN log : log[k].id = idOf[log[k].src]

-----------------------------------------------------------------------------
(* Liveness *)

\* Everything a listed client sent is broadcast in the end, also when the
\* client has left since, unless the server process ends.
EveryByteBroadcast ==
  \A c \in Conn : \A n \in 1 .. MaxSend :
    (Alive(c) /\ sent[c] >= n) ~>
      (proc # "running" \/ \E k \in DOMAIN log : log[k].src = c /\ log[k].upto >= n)

\* A departed client's slot and descriptor are given back in the end, unless
\* the server process ends.
DeparturesCleaned ==
  \A c \in Conn :
    (Alive(c) /\ peer[c] \in {"fin", "rst", "gone"}) ~>
      \/ proc # "running"
      \/ /\ hpc[c] = "done" /\ \A f \in Fd : fdt[f] # c
         /\ \A i \in Slot : clients[i].is_active => clients[i].id # idOf[c]

=============================================================================
