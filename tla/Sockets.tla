------------------------------- MODULE Sockets -------------------------------
(***************************************************************************)
(* What the chat servers of hw4 use of the kernel, and the chat clients at *)
(* the other end of it: the descriptor table of the server process, the    *)
(* backlog of the listening socket, and one TCP connection per client.     *)
(* The three servers extend this module.  It is external to src/: it is    *)
(* modelled from the calls the servers and client.c make.                  *)
(*                                                                         *)
(* A byte stream is counted, not spelled: sent[c] bytes were written by    *)
(* client c and taken[c] of them were returned by recv.  What send() put   *)
(* on the stream to c is inbox[c], a sequence of broadcast numbers, the    *)
(* last unread[c] of which the client's receiving thread has not read yet. *)
(***************************************************************************)
EXTENDS Integers, FiniteSets, Sequences

CONSTANTS
  Conn,     \* the connections clients may open
  NoConn,   \* "this descriptor is not in use"
  MaxFd,    \* descriptors the process may have open for connections
  Backlog,  \* second argument of listen()
  SockBuf,  \* broadcasts that fit between a send() and the reading client
  RecvMax,  \* longest result of one recv() (BUFFER_SIZE - 1)
  MaxSend   \* bound of the model: bytes one client ever sends

ASSUME SocketsAssumption ==
  /\ NoConn \notin Conn
  /\ MaxFd \in Nat /\ Backlog \in Nat /\ MaxSend \in Nat
  /\ SockBuf \in Nat \ {0} /\ RecvMax \in Nat \ {0}

VARIABLES
  proc,     \* the server process: "running", "exited" or "killed"
  fdt,      \* its descriptor table: the connection behind each descriptor
  backlog,  \* connections accept() has not returned yet
  peer,     \* state of each connection as the server's calls can tell it
  sent,     \* bytes the client has sent
  taken,    \* bytes recv() has returned to the server
  inbox,    \* broadcasts send() put on the stream to the client, in order
  unread    \* how many of them the client has not read

sockVars == <<proc, fdt, backlog, peer, sent, taken, inbox, unread>>

Fd == 1 .. MaxFd

(***************************************************************************)
(* "fin": the client closed and had read everything.  "rst": it closed     *)
(* with unread data, or died, and the reset has not been reported to the   *)
(* server.  "gone": the reset has been reported or the stream is past it.  *)
(* "shut": the server closed its descriptor.                               *)
(***************************************************************************)
PeerState == {"idle", "open", "fin", "rst", "gone", "shut"}

SocketsTypeOK ==
  /\ proc \in {"running", "exited", "killed"}
  /\ fdt \in [Fd -> Conn \cup {NoConn}]
  /\ backlog \in SUBSET Conn
  /\ peer \in [Conn -> PeerState]
  /\ sent \in [Conn -> Nat] /\ taken \in [Conn -> Nat]
  /\ inbox \in [Conn -> Seq(Nat)]
  /\ unread \in [Conn -> Nat]

SocketsInit ==
  /\ proc = "running"
  /\ fdt = [f \in Fd |-> NoConn]
  /\ backlog = {}
  /\ peer = [c \in Conn |-> "idle"]
  /\ sent = [c \in Conn |-> 0] /\ taken = [c \in Conn |-> 0]
  /\ inbox = [c \in Conn |-> <<>>]
  /\ unread = [c \in Conn |-> 0]

-----------------------------------------------------------------------------
(***************************************************************************)
(* The clients.  connect() returns as soon as the backlog takes the        *)
(* connection, so a client may send, and leave, before it is accepted.     *)
(***************************************************************************)
Connect(c) ==
  /\ peer[c] = "idle"
  /\ Cardinality(backlog) < Backlog
  /\ peer' = [peer EXCEPT ![c] = "open"]
  /\ backlog' = backlog \cup {c}
  /\ UNCHANGED <<proc, fdt, sent, taken, inbox, unread>>

\* send() in the client's main loop
ClientSend(c) ==
  /\ peer[c] = "open" /\ sent[c] < MaxSend
  /\ sent' = [sent EXCEPT ![c] = @ + 1]
  /\ UNCHANGED <<proc, fdt, backlog, peer, taken, inbox, unread>>

\* recv() in the client's receiving thread
ClientRead(c) ==
  /\ peer[c] = "open" /\ unread[c] > 0
  /\ unread' = [unread EXCEPT ![c] = @ - 1]
  /\ UNCHANGED <<proc, fdt, backlog, peer, sent, taken, inbox>>

\* "exit" typed, or the client process ends: unread data makes it a reset
ClientExit(c) ==
  /\ peer[c] = "open"
  /\ peer' = [peer EXCEPT ![c] = IF unread[c] = 0 THEN "fin" ELSE "rst"]
  /\ UNCHANGED <<proc, fdt, backlog, sent, taken, inbox, unread>>

\* the model ends with the server process
ClientReads(c) == proc = "running" /\ ClientRead(c)

ClientNext ==
  /\ proc = "running"
  /\ \E c \in Conn : Connect(c) \/ ClientSend(c) \/ ClientReads(c) \/ ClientExit(c)

-----------------------------------------------------------------------------
(***************************************************************************)
(* The server's side.  Descriptors are allocated lowest first.             *)
(***************************************************************************)
LowestFree(f) ==
  /\ f \in Fd /\ fdt[f] = NoConn
  /\ \A g \in Fd : fdt[g] = NoConn => f <= g

NoFreeFd == \A f \in Fd : fdt[f] # NoConn

\* accept() returns descriptor f for connection c
AcceptConn(c, f) ==
  /\ c \in backlog
  /\ backlog' = backlog \ {c}
  /\ fdt' = [fdt EXCEPT ![f] = c]
  /\ UNCHANGED <<proc, peer, sent, taken, inbox, unread>>

CloseFd(f) ==
  /\ fdt' = [fdt EXCEPT ![f] = NoConn]
  /\ peer' = [c \in Conn |-> IF c = fdt[f] THEN "shut" ELSE peer[c]]
  /\ UNCHANGED <<proc, backlog, sent, taken, inbox, unread>>

HasData(c) == taken[c] < sent[c]

\* recv() would not block
Readable(c) == HasData(c) \/ peer[c] \in {"fin", "rst", "gone"}

\* recv() > 0: some of the waiting bytes, split or merged as TCP pleases
RecvData(c) ==
  /\ HasData(c)
  /\ \E n \in 1 .. RecvMax :
       /\ taken[c] + n <= sent[c]
       /\ taken' = [taken EXCEPT ![c] = @ + n]
  /\ UNCHANGED <<proc, fdt, backlog, peer, sent, inbox, unread>>

\* recv() = 0
RecvEof(c) ==
  /\ ~HasData(c) /\ peer[c] \in {"fin", "gone"}
  /\ UNCHANGED sockVars

\* recv() < 0: the reset is reported once
RecvError(c) ==
  /\ ~HasData(c) /\ peer[c] = "rst"
  /\ peer' = [peer EXCEPT ![c] = "gone"]
  /\ UNCHANGED <<proc, fdt, backlog, sent, taken, inbox, unread>>

(***************************************************************************)
(* send() of broadcast number k on descriptor f.  It blocks, that is, no   *)
(* disjunct is enabled, while a connected client's buffer is full.  On a   *)
(* client that left, the first send succeeds and its bytes are lost; once  *)
(* the reset has come back, send raises SIGPIPE, which no server handles.  *)
(***************************************************************************)
Send(f, k) ==
  LET c == fdt[f] IN
  \/ /\ c = NoConn                                            \* EBADF
     /\ UNCHANGED <<inbox, unread, peer, proc>>
  \/ /\ c # NoConn /\ peer[c] = "open" /\ unread[c] < SockBuf
     /\ inbox' = [inbox EXCEPT ![c] = Append(@, k)]
     /\ unread' = [unread EXCEPT ![c] = @ + 1]
     /\ UNCHANGED <<peer, proc>>
  \/ /\ c # NoConn /\ peer[c] = "fin"
     /\ \E p \in {"fin", "gone"} : peer' = [peer EXCEPT ![c] = p]
     /\ UNCHANGED <<inbox, unread, proc>>
  \/ /\ c # NoConn /\ peer[c] = "rst"                         \* ECONNRESET
     /\ peer' = [peer EXCEPT ![c] = "gone"]
     /\ UNCHANGED <<inbox, unread, proc>>
  \/ /\ c # NoConn /\ peer[c] = "gone"                        \* SIGPIPE
     /\ proc' = "killed"
     /\ UNCHANGED <<inbox, unread, peer>>
=============================================================================
