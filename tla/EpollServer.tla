----------------------------- MODULE EpollServer -----------------------------
(***************************************************************************)
(* hw4/server_epoll.c: one thread, level-triggered epoll.  epoll_wait      *)
(* returns at most MaxEvents of the ready descriptors, and the loop serves *)
(* that batch, which grows old while it does, before it asks again.        *)
(*                                                                         *)
(* Nothing in one iteration blocks except send(), so an accept event is    *)
(* one step, and a recv event is the recv with the lookup of the number,   *)
(* one step per slot of the broadcast, and the clean-up.  0 stands for     *)
(* server_fd among the descriptors of a batch.                             *)
(***************************************************************************)
EXTENDS ChatServer, FiniteSetsExt

CONSTANTS
  MaxEvents,   \* MAX_EVENTS
  Faults       \* calls that may fail: a subset of {"accept", "epoll_ctl", "wait"}

ASSUME EpollServerAssumption ==
  MaxEvents \in Nat \ {0} /\ Faults \subseteq {"accept", "epoll_ctl", "wait"}

VARIABLES
  pc,          \* "wait", "dispatch", "send" or "clean"
  interest,    \* descriptors registered with epoll_ctl
  events,      \* the batch: descriptors whose event is still to be served
  of,          \* the connection each of those descriptors was when it was ready
  curr,        \* curr_client_fd of the event being served, or 0
  read_size,   \* bytes its recv returned; 0 end of stream, -1 error
  bi           \* loop counter of broadcast_msg

loopVars == <<pc, interest, events, of, curr, read_size, bi>>
vars == <<sockVars, tableVars, loopVars>>

TypeOK ==
  /\ SocketsTypeOK /\ TableTypeOK
  /\ pc \in {"wait", "dispatch", "send", "clean"}
  /\ interest \in SUBSET Fd
  /\ events \in SUBSET (Fd \cup {0})
  /\ of \in [Fd -> Conn \cup {NoConn}]
  /\ curr \in Fd \cup {0}
  /\ read_size \in Int
  /\ bi \in 0 .. MaxClients + 1

Init ==
  /\ SocketsInit /\ TableInit
  /\ pc = "wait" /\ interest = {} /\ events = {}
  /\ of = [f \in Fd |-> NoConn]
  /\ curr = 0 /\ read_size = 0 /\ bi = 0

-----------------------------------------------------------------------------
At(l) == proc = "running" /\ pc = l

Ready ==
  {f \in interest : fdt[f] # NoConn /\ Readable(fdt[f])}
    \cup (IF backlog # {} THEN {0} ELSE {})

\* the ready list may hold more than a batch, in any order
EpollWait ==
  /\ At("wait") /\ Ready # {}
  /\ \E S \in SUBSET Ready :
       /\ Cardinality(S) = Min({MaxEvents, Cardinality(Ready)})
       /\ events' = S
       /\ of' = [f \in Fd |-> IF f \in S THEN fdt[f] ELSE NoConn]
  /\ pc' = "dispatch"
  /\ UNCHANGED <<sockVars, tableVars, interest, curr, read_size, bi>>

\* the event served next; after the last one the loop waits again
Take(e) ==
  /\ e \in events
  /\ events' = events \ {e}
  /\ of' = [f \in Fd |-> IF f = e THEN NoConn ELSE of[f]]
NextEvent == pc' = IF events' = {} THEN "wait" ELSE "dispatch"

\* accept() fails: the event is dropped, and comes back with the next batch
AcceptFails ==
  /\ At("dispatch") /\ Take(0)
  /\ NoFreeFd \/ "accept" \in Faults
  /\ NextEvent
  /\ UNCHANGED <<sockVars, tableVars, interest, curr, read_size, bi>>

Accept ==
  /\ At("dispatch") /\ Take(0)
  /\ \E c \in backlog, f \in Fd :
       /\ LowestFree(f) /\ AcceptConn(c, f)
       /\ Register(c, f)
       /\ interest' = interest \cup {f}
  /\ NextEvent
  /\ UNCHANGED <<curr, read_size, bi>>

\* the connection is closed at once: the table is full, or epoll_ctl fails,
\* and then the slot that was just filled stays active
AcceptAndClose ==
  /\ At("dispatch") /\ Take(0) /\ ~NoFreeFd
  /\ \E c \in backlog, f \in Fd :
       /\ LowestFree(f)
       /\ \/ TableFull /\ UNCHANGED tableVars
          \/ "epoll_ctl" \in Faults /\ Register(c, f)
       /\ backlog' = backlog \ {c}
       /\ peer' = [peer EXCEPT ![c] = "shut"]
  /\ NextEvent
  /\ UNCHANGED <<proc, fdt, sent, taken, inbox, unread, interest, curr, read_size,
                 bi>>

Broadcasting(c, upto) ==
  /\ StartBroadcast(c, IdOfFd(curr'), upto)
  /\ pc' = "send" /\ bi' = 1

\* mutant: a hang-up is taken for the end of the stream before the data is read
RecvHangupFirst ==
  /\ At("dispatch")
  /\ \E f \in Fd :
       LET c == fdt[f] IN
       /\ c # NoConn /\ Take(f) /\ curr' = f
       /\ IF peer[c] \in {"fin", "gone"}
          THEN UNCHANGED sockVars /\ read_size' = 0 /\ Broadcasting(c, 0)
          ELSE \/ RecvData(c) /\ read_size' = 1 /\ Broadcasting(c, taken'[c])
               \/ RecvError(c) /\ read_size' = -1 /\ pc' = "clean"
                  /\ UNCHANGED <<tableVars, bi>>
  /\ UNCHANGED interest

Recv ==
  /\ At("dispatch")
  /\ \E f \in Fd :
       LET c == fdt[f] IN
       /\ c # NoConn /\ Take(f) /\ curr' = f
       /\ \/ RecvData(c) /\ read_size' = 1 /\ Broadcasting(c, taken'[c])
          \/ RecvEof(c) /\ read_size' = 0 /\ Broadcasting(c, 0)
          \/ RecvError(c) /\ read_size' = -1 /\ pc' = "clean"
             /\ UNCHANGED <<tableVars, bi>>
  /\ UNCHANGED interest

\* mutant: a client that cannot be reached is closed on the spot
SendOrClose ==
  /\ At("send") /\ bi <= MaxClients
  /\ IF clients[bi].is_active /\ clients[bi].fd # curr
        /\ fdt[clients[bi].fd] # NoConn /\ peer[fdt[clients[bi].fd]] = "rst"
     THEN CloseFd(clients[bi].fd) /\ Unregister(clients[bi].fd)
     ELSE BroadcastTo(bi, curr) /\ UNCHANGED tableVars
  /\ bi' = bi + 1
  /\ UNCHANGED <<pc, interest, events, of, curr, read_size>>

BroadcastSend ==
  /\ At("send") /\ bi <= MaxClients
  /\ BroadcastTo(bi, curr)
  /\ bi' = bi + 1
  /\ UNCHANGED <<tableVars, pc, interest, events, of, curr, read_size>>

BroadcastDone ==
  /\ At("send") /\ bi > MaxClients
  /\ bi' = 0
  /\ IF read_size > 0
     THEN events' = events /\ NextEvent /\ curr' = 0 /\ UNCHANGED read_size
     ELSE pc' = "clean" /\ UNCHANGED <<events, curr, read_size>>
  /\ UNCHANGED <<sockVars, tableVars, interest, of>>

\* mutant: the descriptor is closed and the slot is forgotten
CloseOnly ==
  /\ At("clean")
  /\ interest' = interest \ {curr}
  /\ CloseFd(curr)
  /\ events' = events /\ NextEvent
  /\ curr' = 0 /\ read_size' = 0
  /\ UNCHANGED <<tableVars, of, bi>>

CleanUp ==
  /\ At("clean")
  /\ interest' = interest \ {curr}
  /\ CloseFd(curr)
  /\ Unregister(curr)
  /\ events' = events /\ NextEvent
  /\ curr' = 0 /\ read_size' = 0
  /\ UNCHANGED <<of, bi>>

\* epoll_wait() < 0: main returns
WaitFails ==
  /\ At("wait") /\ "wait" \in Faults
  /\ proc' = "exited"
  /\ UNCHANGED <<fdt, backlog, peer, sent, taken, inbox, unread, tableVars, loopVars>>

-----------------------------------------------------------------------------
Loop ==
  \/ EpollWait \/ AcceptFails \/ Accept \/ AcceptAndClose
  \/ Recv \/ BroadcastSend \/ BroadcastDone \/ CleanUp

Next == Loop \/ WaitFails \/ (ClientNext /\ UNCHANGED <<tableVars, loopVars>>)

Spec == Init /\ [][Next]_vars

(***************************************************************************)
(* The loop runs; clients keep reading; and a descriptor that is ready     *)
(* again and again is in a batch in the end, because epoll_wait moves what *)
(* it reports to the tail of its ready list.                               *)
(***************************************************************************)
FairSpec ==
  /\ Spec
  /\ WF_vars(Loop)
  /\ \A f \in Fd \cup {0} : SF_vars(EpollWait /\ f \in events')
  /\ \A c \in Conn : WF_vars(ClientReads(c) /\ UNCHANGED <<tableVars, loopVars>>)

-----------------------------------------------------------------------------
(* Safety *)

\* A listed slot always holds the descriptor and the number of one and the same
\* open connection, which epoll watches, so that a broadcast reaches nobody
\* else and everyone listed is heard.
DescriptorsOwned ==
  \A i \in Slot : clients[i].is_active =>
    /\ clients[i].fd \in interest /\ ConnIn(i) # NoConn
    /\ idOf[ConnIn(i)] = clients[i].id

\* An event still waiting in the batch is about the connection it was reported
\* for: serving the earlier events has not closed the descriptor or given it
\* to another client, and recv will not block the only thread.
EventsCurrent ==
  \A f \in events \ {0} :
    fdt[f] = of[f] /\ of[f] # NoConn /\ Readable(of[f])

-----------------------------------------------------------------------------
(* Liveness *)

\* c was listed and has its descriptor
Connected(c) == idOf[c] > 0 /\ \E f \in Fd : fdt[f] = c

\* Everything a listed client sent is broadcast in the end, also when the
\* client has left since, unless the server process ends.
EveryByteBroadcast ==
  \A c \in Conn : \A n \in 1 .. MaxSend :
    (Connected(c) /\ sent[c] >= n) ~>
      (proc # "running" \/ \E k \in DOMAIN log : log[k].src = c /\ log[k].upto >= n)

\* a slot is listed under number id
Numbered(id) == \E i \in Slot : clients[i].is_active /\ clients[i].id = id

\* A failed epoll_ctl has left a slot before that of c with c's descriptor in it
\* (server_epoll.c:122-125).
Shadowed(c) ==
  \E i, j \in Slot :
    /\ i < j /\ clients[i].is_active /\ clients[j].is_active
    /\ clients[i].fd = clients[j].fd /\ clients[j].id = idOf[c]

\* A departed client's descriptor is given back in the end, and so is its slot,
\* unless a slot that a failed epoll_ctl had left is given back instead, and unless
\* the server process ends (server_epoll.c:160-169).
DeparturesCleaned ==
  \A c \in Conn :
    LET Left == Connected(c) /\ peer[c] \in {"fin", "rst", "gone"} IN
    /\ Left ~> (proc # "running" \/ \A f \in Fd : fdt[f] # c)
    /\ (Left /\ ~Shadowed(c)) ~> (proc # "running" \/ ~Numbered(idOf[c]))

=============================================================================
