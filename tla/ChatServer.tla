------------------------------ MODULE ChatServer ------------------------------
(***************************************************************************)
(* What server_thread.c, server_epoll.c and server_io_uring.c have in      *)
(* common, each in its own copy: the table of clients, the counter that    *)
(* numbers them, and one iteration of the loop of broadcast_msg.           *)
(*                                                                         *)
(* Three history variables, which no action reads, record what the table   *)
(* and the streams are judged against: log is the sequence of messages in  *)
(* the order their broadcasts began, joined[c] its length when c entered   *)
(* the table and idOf[c] the number c was given then (0: never entered).   *)
(***************************************************************************)
EXTENDS Sockets

CONSTANT MaxClients          \* MAX_CLIENTS

ASSUME ChatServerAssumption == MaxClients \in Nat \ {0}

VARIABLES clients, total_connections, log, joined, idOf

tableVars == <<clients, total_connections, log, joined, idOf>>

Slot == 1 .. MaxClients

\* upto is the last byte the message carries; 0 marks a quit notice
Message == [src : Conn, id : Int, upto : Nat]

TableTypeOK ==
  /\ clients \in [Slot -> [fd : Fd \cup {0}, id : Nat, is_active : BOOLEAN]]
  /\ total_connections \in Nat
  /\ log \in Seq(Message)
  /\ joined \in [Conn -> Nat] /\ idOf \in [Conn -> Nat]

TableInit ==
  /\ clients = [i \in Slot |-> [fd |-> 0, id |-> 0, is_active |-> FALSE]]
  /\ total_connections = 0
  /\ log = <<>>
  /\ joined = [c \in Conn |-> 0] /\ idOf = [c \in Conn |-> 0]

TableFull == \A i \in Slot : clients[i].is_active

\* the lowest slot that is not active takes the new connection
Register(c, f) ==
  /\ \E i \in Slot :
       /\ ~clients[i].is_active
       /\ \A j \in Slot : j < i => clients[j].is_active
       /\ clients' = [clients EXCEPT ![i] =
            [fd |-> f, id |-> total_connections + 1, is_active |-> TRUE]]
  /\ total_connections' = total_connections + 1
  /\ idOf' = [idOf EXCEPT ![c] = total_connections + 1]
  /\ joined' = [joined EXCEPT ![c] = Len(log)]
  /\ UNCHANGED log

\* the loops that look for a client by descriptor stop at the first match
FirstWithFd(i, f) ==
  /\ clients[i].is_active /\ clients[i].fd = f
  /\ \A j \in Slot : j < i => ~(clients[j].is_active /\ clients[j].fd = f)

Unregister(f) ==
  /\ clients' = [i \in Slot |-> IF FirstWithFd(i, f)
                                THEN [clients[i] EXCEPT !.is_active = FALSE]
                                ELSE clients[i]]
  /\ UNCHANGED <<total_connections, log, joined, idOf>>

\* client_id of the single-threaded servers: -1 when no active slot has f
IdOfFd(f) ==
  IF \E i \in Slot : FirstWithFd(i, f)
  THEN clients[CHOOSE i \in Slot : FirstWithFd(i, f)].id
  ELSE -1

\* a broadcast begins; its number is the new length of the log
StartBroadcast(c, id, upto) ==
  /\ log' = Append(log, [src |-> c, id |-> id, upto |-> upto])
  /\ UNCHANGED <<clients, total_connections, joined, idOf>>

\* mutant: the sender is not left out
BroadcastToAll(i, f) ==
  /\ IF clients[i].is_active
     THEN Send(clients[i].fd, Len(log))
     ELSE UNCHANGED <<inbox, unread, peer, proc>>
  /\ UNCHANGED <<fdt, backlog, sent, taken>>

\* one iteration of broadcast_msg, for slot i and sender descriptor f
BroadcastTo(i, f) ==
  /\ IF clients[i].is_active /\ clients[i].fd # f
     THEN Send(clients[i].fd, Len(log))
     ELSE UNCHANGED <<inbox, unread, peer, proc>>
  /\ UNCHANGED <<fdt, backlog, sent, taken>>

-----------------------------------------------------------------------------
\* the connection behind the descriptor in slot i
ConnIn(i) == fdt[clients[i].fd]

Listed(c) == \E i \in Slot : clients[i].is_active /\ ConnIn(i) = c

Elems(s) == {s[k] : k \in DOMAIN s}
Increasing(s) == \A j, k \in DOMAIN s : j < k => s[j] < s[k]

(***************************************************************************)
(* What the client in slot i must have on its stream when the messages up  *)
(* to number seen have passed its slot: every message broadcast since it   *)
(* entered the table except its own, once each and in the one order all    *)
(* clients share.                                                          *)
(***************************************************************************)
HasExactly(c, seen) ==
  /\ Increasing(inbox[c])
  /\ Elems(inbox[c]) = {k \in joined[c] + 1 .. seen : log[k].src # c}

\* A client's quit notice is the last message broadcast from it.
QuitNoticeIsLast ==
  \A j, k \in DOMAIN log :
    j < k /\ log[j].upto = 0 => log[k].src # log[j].src

-----------------------------------------------------------------------------
(* Refinement: threads, events or completions, each server is one room. *)

SaidBye(c) == \E k \in DOMAIN log : log[k].src = c /\ log[k].upto = 0

Members == [c \in Conn |-> IF idOf[c] = 0 THEN "out"
                          ELSE IF ~Listed(c) THEN "left"
                          ELSE IF SaidBye(c) THEN "quit" ELSE "in"]
Said == [k \in DOMAIN log |-> [from |-> log[k].src, bye |-> log[k].upto = 0]]
Unreachable == {c \in Conn : peer[c] \notin {"idle", "open"}}

Room == INSTANCE ChatRoom
  WITH member <- Members, room <- Said, since <- joined, heard <- inbox, gone <- Unreachable

\* Every run of the server is a run of the room of ChatRoom: membership is what the
\* table says, and what a member heard is what send() put on its stream.
IsChatRoom == Room!RoomSpec
=============================================================================
