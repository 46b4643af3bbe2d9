----------------------------- MODULE UringServer -----------------------------
(***************************************************************************)
(* hw4/server_io_uring.c: one thread and two kinds of requests to the      *)
(* kernel, one accept on the listening socket at a time and one recv on    *)
(* each client, each submitted again by the handler of its completion.     *)
(* The kernel completes requests while the thread is elsewhere, so bytes   *)
(* leave a connection, and descriptors appear, before the loop looks.  A   *)
(* request the kernel does not take stays in the submission queue.         *)
(*                                                                         *)
(* Nothing in one iteration blocks except send(): an accept completion is  *)
(* one step, and a recv completion is the lookup of the number, one step   *)
(* per slot of the broadcast, and the resubmission or the clean-up.  The   *)
(* clean-up is two steps, close() and the loop that gives the slot up: in  *)
(* between the kernel may give the descriptor to the next connection,      *)
(* while a slot lists it for the client that has left.                     *)
(***************************************************************************)
EXTENDS ChatServer

CONSTANT Faults   \* calls that may fail: a subset of {"accept", "submit", "wait"}

ASSUME UringServerAssumption == Faults \subseteq {"accept", "submit", "wait"}

VARIABLES
  pc,          \* "wait", "send", "finish" or "unlist"
  sq,          \* requests prepared and not submitted: NoConn stands for an accept
  accepting,   \* accept requests the kernel holds
  recvs,       \* recv requests the kernel holds on each connection
  reqfd,       \* fd in the IoRequest of each connection's recv
  cq,          \* completions not seen yet
  cqe,         \* the completion being handled
  bi           \* loop counter of broadcast_msg

ringVars == <<pc, sq, accepting, recvs, reqfd, cq, cqe, bi>>
vars == <<sockVars, tableVars, ringVars>>

\* conn is the connection the request was made on, upto the last byte received;
\* res is 1 for a positive result, 0 for end of stream and -1 for an error
Completion ==
  [type : {"accept", "recv"}, conn : Conn \cup {NoConn}, fd : Fd \cup {0},
   res : {-1, 0, 1}, upto : Nat]
NoCqe == [type |-> "accept", conn |-> NoConn, fd |-> 0, res |-> -1, upto |-> 0]

TypeOK ==
  /\ SocketsTypeOK /\ TableTypeOK
  /\ pc \in {"wait", "send", "finish", "unlist"}
  /\ sq \in Seq(Conn \cup {NoConn})
  /\ accepting \in Nat
  /\ recvs \in [Conn -> Nat]
  /\ reqfd \in [Conn -> Fd \cup {0}]
  /\ cq \in Seq(Completion) /\ cqe \in Completion
  /\ bi \in 0 .. MaxClients + 1

\* main submits the first accept before the loop
Init ==
  /\ SocketsInit /\ TableInit
  /\ pc = "wait"
  /\ \/ sq = <<>> /\ accepting = 1
     \/ "submit" \in Faults /\ sq = <<NoConn>> /\ accepting = 0
  /\ recvs = [c \in Conn |-> 0] /\ reqfd = [c \in Conn |-> 0]
  /\ cq = <<>> /\ cqe = NoCqe /\ bi = 0

-----------------------------------------------------------------------------
(* The kernel's side of the ring *)

KernelAccept ==
  /\ proc = "running" /\ accepting > 0
  /\ \E c \in backlog, f \in Fd :
       /\ LowestFree(f) /\ AcceptConn(c, f)
       /\ cq' = Append(cq, [type |-> "accept", conn |-> c, fd |-> f,
                            res |-> 1, upto |-> 0])
  /\ accepting' = accepting - 1
  /\ UNCHANGED <<tableVars, pc, sq, recvs, reqfd, cqe, bi>>

KernelAcceptFails ==
  /\ proc = "running" /\ accepting > 0
  /\ NoFreeFd \/ ("accept" \in Faults /\ backlog # {})
  /\ cq' = Append(cq, NoCqe)
  /\ accepting' = accepting - 1
  /\ UNCHANGED <<sockVars, tableVars, pc, sq, recvs, reqfd, cqe, bi>>

KernelRecv(c) ==
  /\ proc = "running" /\ recvs[c] > 0
  /\ recvs' = [recvs EXCEPT ![c] = @ - 1]
  /\ \E r \in {-1, 0, 1} :
       /\ CASE r = 1 -> RecvData(c) [] r = 0 -> RecvEof(c) [] OTHER -> RecvError(c)
       /\ cq' = Append(cq, [type |-> "recv", conn |-> c, fd |-> reqfd[c],
                            res |-> r, upto |-> IF r = 1 THEN taken'[c] ELSE 0])
  /\ UNCHANGED <<tableVars, pc, sq, accepting, reqfd, cqe, bi>>

Kernel ==
  \/ KernelAccept \/ KernelAcceptFails \/ \E c \in Conn : KernelRecv(c)

-----------------------------------------------------------------------------
(* main() *)

At(l) == proc = "running" /\ pc = l

\* io_uring_wait_cqe and io_uring_cqe_seen return the oldest completion
Seen(type) == cq # <<>> /\ Head(cq).type = type /\ cq' = Tail(cq)

Count(s, r) == Cardinality({n \in DOMAIN s : s[n] = r})

\* The requests rs are prepared and submitted, with those an earlier call left.
\* Nobody looks at the result: what the kernel does not take stays.
io_uring_submit(rs) ==
  LET all == sq \o rs IN
  \E n \in 0 .. Len(all) :
    /\ n = Len(all) \/ "submit" \in Faults
    /\ LET given == SubSeq(all, 1, n) IN
         /\ accepting' = accepting + Count(given, NoConn)
         /\ recvs' = [c \in Conn |-> recvs[c] + Count(given, c)]
    /\ sq' = SubSeq(all, n + 1, Len(all))

add_accept_request == <<NoConn>>

\* mutant: a client gets two requests, "to keep one always pending"
RecvTwice(c) == <<c, c>>

add_recv_request(c) == <<c>>

\* mutant: a listed client gets no receive
AcceptDoneNoRecv ==
  /\ At("wait") /\ Seen("accept")
  /\ LET c == Head(cq).conn
         f == Head(cq).fd
     IN
     \/ Head(cq).res = 1 /\ ~TableFull /\ Register(c, f) /\ UNCHANGED sockVars
     \/ Head(cq).res = 1 /\ TableFull /\ CloseFd(f) /\ UNCHANGED tableVars
     \/ Head(cq).res = -1 /\ UNCHANGED <<sockVars, tableVars>>
  /\ io_uring_submit(add_accept_request)
  /\ UNCHANGED <<pc, cqe, bi, reqfd>>

AcceptDone ==
  /\ At("wait") /\ Seen("accept")
  /\ LET c == Head(cq).conn
         f == Head(cq).fd
     IN
     \/ /\ Head(cq).res = 1 /\ ~TableFull
        /\ Register(c, f)
        /\ io_uring_submit(add_recv_request(c) \o add_accept_request)
        /\ reqfd' = [reqfd EXCEPT ![c] = f]
        /\ UNCHANGED sockVars
     \/ /\ Head(cq).res = 1 /\ TableFull
        /\ CloseFd(f)
        /\ io_uring_submit(add_accept_request)
        /\ UNCHANGED <<tableVars, reqfd>>
     \/ /\ Head(cq).res = -1
        /\ io_uring_submit(add_accept_request)
        /\ UNCHANGED <<sockVars, tableVars, reqfd>>
  /\ UNCHANGED <<pc, cqe, bi>>

\* mutant: an error is handled as data
RecvErrorAsData ==
  /\ At("wait") /\ Seen("recv")
  /\ cqe' = Head(cq)
  /\ StartBroadcast(cqe'.conn, IdOfFd(cqe'.fd), IF cqe'.res < 0 THEN -1 ELSE cqe'.upto)
  /\ pc' = "send" /\ bi' = 1
  /\ UNCHANGED <<sockVars, sq, accepting, recvs, reqfd>>

RecvDone ==
  /\ At("wait") /\ Seen("recv")
  /\ cqe' = Head(cq)
  /\ IF cqe'.res >= 0
     THEN /\ StartBroadcast(cqe'.conn, IdOfFd(cqe'.fd), cqe'.upto)
          /\ pc' = "send" /\ bi' = 1
     ELSE pc' = "finish" /\ UNCHANGED <<tableVars, bi>>
  /\ UNCHANGED <<sockVars, sq, accepting, recvs, reqfd>>

BroadcastSend ==
  /\ At("send") /\ bi <= MaxClients
  /\ BroadcastTo(bi, cqe.fd)
  /\ bi' = bi + 1
  /\ UNCHANGED <<tableVars, pc, sq, accepting, recvs, reqfd, cq, cqe>>

BroadcastDone ==
  /\ At("send") /\ bi > MaxClients
  /\ pc' = "finish" /\ bi' = 0
  /\ UNCHANGED <<sockVars, tableVars, sq, accepting, recvs, reqfd, cq, cqe>>

\* mutant: the request is not submitted again
NoResubmit ==
  /\ At("finish") /\ cqe.res = 1
  /\ pc' = "wait" /\ cqe' = NoCqe
  /\ UNCHANGED <<sockVars, tableVars, sq, accepting, recvs, reqfd, cq, bi>>

Resubmit ==
  /\ At("finish") /\ cqe.res = 1
  /\ io_uring_submit(add_recv_request(cqe.conn))
  /\ pc' = "wait" /\ cqe' = NoCqe
  /\ UNCHANGED <<sockVars, tableVars, reqfd, cq, bi>>

CloseClient ==
  /\ At("finish") /\ cqe.res <= 0
  /\ CloseFd(cqe.fd)
  /\ pc' = "unlist"
  /\ UNCHANGED <<tableVars, sq, accepting, recvs, reqfd, cq, cqe, bi>>

\* mutant: the slot of the closed descriptor is forgotten
ForgetSlot ==
  /\ At("unlist")
  /\ pc' = "wait" /\ cqe' = NoCqe
  /\ UNCHANGED <<sockVars, tableVars, sq, accepting, recvs, reqfd, cq, bi>>

\* the slot is found by the number of the descriptor, whoever has it now
Unlist ==
  /\ At("unlist")
  /\ Unregister(cqe.fd)
  /\ pc' = "wait" /\ cqe' = NoCqe
  /\ UNCHANGED <<sockVars, sq, accepting, recvs, reqfd, cq, bi>>

\* io_uring_wait_cqe() < 0: the loop ends and main returns
WaitFails ==
  /\ At("wait") /\ "wait" \in Faults
  /\ proc' = "exited"
  /\ UNCHANGED <<fdt, backlog, peer, sent, taken, inbox, unread, tableVars, ringVars>>

-----------------------------------------------------------------------------
Loop ==
  \/ AcceptDone \/ RecvDone \/ BroadcastSend \/ BroadcastDone
  \/ Resubmit \/ CloseClient \/ Unlist

Next ==
  \/ Kernel \/ Loop \/ WaitFails
  \/ (ClientNext /\ UNCHANGED <<tableVars, ringVars>>)

Spec == Init /\ [][Next]_vars

\* What the server's progress rests on: the client reads what it is sent.
ClientFairness(c) == WF_vars(ClientReads(c) /\ UNCHANGED <<tableVars, ringVars>>)

-----------------------------------------------------------------------------
(* Safety *)

\* A listed slot holds the descriptor and the number of one and the same open
\* connection, and every completion is about the connection its descriptor still
\* belongs to: the kernel, which hands out descriptors on its own, never gives one
\* away between a completion and its handler.  It may give away the one that was
\* closed while its slot is still listed: that slot then has the number of the client
\* that has left, and whoever has the descriptor has no slot yet that the loop which
\* looks for the descriptor could find instead.
DescriptorsOwned ==
  /\ \A i \in Slot : clients[i].is_active =>
       IF pc = "unlist" /\ clients[i].fd = cqe.fd
       THEN clients[i].id = idOf[cqe.conn]
       ELSE /\ clients[i].fd \in Fd /\ ConnIn(i) # NoConn
            /\ idOf[ConnIn(i)] = clients[i].id
  /\ \A k \in DOMAIN cq : cq[k].res # -1 => fdt[cq[k].fd] = cq[k].conn
  /\ pc \in {"send", "finish"} => fdt[cqe.fd] = cqe.conn
  /\ pc = "unlist" => \A c \in Conn : fdt[cqe.fd] = c => idOf[c] = 0

\* the receives of c: not submitted, held by the kernel, completed, or being handled
\* until the client's descriptor is closed
RecvsOf(c) ==
  Count(sq, c) + recvs[c] + Cardinality({k \in DOMAIN cq : cq[k].type = "recv" /\ cq[k].conn = c})
    + (IF pc \in {"send", "finish"} /\ cqe.conn = c THEN 1 ELSE 0)

\* Exactly one receive is under way for a listed client and none for any other,
\* whatever its results were: two would let the bytes of one client overtake
\* each other, and without one nobody would notice what the client does.  And
\* exactly one accept is, also after one that failed or was refused.  A request
\* that could not be submitted is not lost: it goes with the next one.  (A client
\* without a number is not listed, though it may have a descriptor that a slot still
\* lists for the client before it.)
RequestsUnderWay ==
  /\ \A c \in Conn : RecvsOf(c) = IF Listed(c) /\ idOf[c] > 0 THEN 1 ELSE 0
  /\ Count(sq, NoConn) + accepting + Cardinality({k \in DOMAIN cq : cq[k].type = "accept"}) = 1

-----------------------------------------------------------------------------
\* c was listed and has its descriptor
Connected(c) == idOf[c] > 0 /\ \E f \in Fd : fdt[f] = c

=============================================================================
