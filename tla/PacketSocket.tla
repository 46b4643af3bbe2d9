----------------------------- MODULE PacketSocket -----------------------------
(***************************************************************************)
(* What the two sniffers of hw5, HW5_1.c (capture) and HW5_1_5.c           *)
(* (modifier), do alike: open a packet socket, save the flags of the       *)
(* interface and set IFF_PROMISC, bind the socket to the interface, and    *)
(* put the saved flags back at the end.  Several of them may run at once,  *)
(* and share nothing but the interface.                                    *)
(*                                                                         *)
(* Every system call is a step.  A call that fails has no effect, so the   *)
(* clean-up of its error path belongs to the same step.                    *)
(***************************************************************************)
EXTENDS Naturals, Sequences, FiniteSets

CONSTANTS
  Proc,       \* the sniffers started on the interface
  Device,     \* the interface they name
  MaxFrames,  \* bound of the model: how many frames arrive
  Faults      \* what may happen: a subset of AllFaults

AllFaults == {"ioctl", "bind", "recv", "send", "restore", "kill"}

ASSUME PacketSocketAssumption ==
  /\ MaxFrames \in Nat
  /\ Faults \subseteq AllFaults

VARIABLES
  promisc,   \* IFF_PROMISC among the flags of the interface
  before,    \* what it was before the first sniffer started (history)
  pc,        \* where each sniffer is
  old_ifr,   \* the value of the flag each sniffer saved
  bound,     \* whether its socket is bound to the interface
  queue,     \* frames in the receive queue of its socket
  arrived,   \* how many frames have arrived
  calls,     \* history: which calls on the flags each made with success
  older      \* history: who had saved the flags, and not put them back, when each
             \* set them

flagVars == <<promisc, before, old_ifr, calls, older>>
sockVars == <<flagVars, pc, bound, queue, arrived>>

Pc == {"start", "address", "getflags", "setflags", "index", "bind", "run",
       "restore", "exited", "killed"}

\* F: the frames the queues may hold
SocketTypeOK(F) ==
  /\ promisc \in BOOLEAN /\ before \in BOOLEAN
  /\ pc \in [Proc -> Pc]
  /\ old_ifr \in [Proc -> BOOLEAN]
  /\ bound \in [Proc -> BOOLEAN]
  /\ queue \in [Proc -> Seq(F)]
  /\ arrived \in 0 .. MaxFrames
  /\ calls \in [Proc -> SUBSET {"get", "set", "put"}]
  /\ older \in [Proc -> SUBSET Proc]

SocketInit ==
  /\ promisc \in BOOLEAN /\ before = promisc
  /\ pc = [p \in Proc |-> "start"]
  /\ old_ifr = [p \in Proc |-> FALSE]
  /\ bound = [p \in Proc |-> FALSE]
  /\ queue = [p \in Proc |-> <<>>]
  /\ arrived = 0
  /\ calls = [p \in Proc |-> {}] /\ older = [p \in Proc |-> {}]

-----------------------------------------------------------------------------
Open(p) == pc[p] \notin {"start", "exited", "killed"}

\* the queues q after f has come to the sockets of to: a packet socket takes the
\* frames of all interfaces until it is bound to one
Delivered(q, f, to) ==
  [p \in Proc |-> IF p \in to /\ Open(p) /\ (bound[p] => f.iface = Device)
                  THEN Append(q[p], f) ELSE q[p]]

\* One of the frames F comes in.  Its fields iface and mine say on which interface,
\* and whether it needs no promiscuous mode.
ArriveOf(F) ==
  /\ arrived < MaxFrames
  /\ \E f \in F :
       /\ f.iface = Device /\ ~f.mine => promisc
       /\ queue' = Delivered(queue, f, Proc)
  /\ arrived' = arrived + 1
  /\ UNCHANGED <<flagVars, pc, bound>>

Goto(p, l) == pc' = [pc EXCEPT ![p] = l] /\ UNCHANGED queue

\* close(), by the program or by the end of the process
End(p, l) ==
  /\ pc' = [pc EXCEPT ![p] = l]
  /\ queue' = [queue EXCEPT ![p] = <<>>]

OpenSocket(p, next) ==
  /\ pc[p] = "start"
  /\ Goto(p, next)
  /\ UNCHANGED <<flagVars, bound, arrived>>

Succeeds(p, call) == calls' = [calls EXCEPT ![p] = @ \cup {call}]

\* the saved flags are put back; that call may fail as well
RestoreFlags(p) ==
  \/ promisc' = old_ifr[p] /\ Succeeds(p, "put")
  \/ "restore" \in Faults /\ UNCHANGED <<promisc, calls>>

\* SIOCGIFFLAGS, and the copy of its result in old_ifr
GetFlags(p) ==
  /\ pc[p] = "getflags"
  /\ \/ /\ Goto(p, "setflags") /\ Succeeds(p, "get")
        /\ old_ifr' = [old_ifr EXCEPT ![p] = promisc]
     \/ "ioctl" \in Faults /\ End(p, "exited") /\ UNCHANGED <<old_ifr, calls>>
  /\ UNCHANGED <<promisc, before, older, bound, arrived>>

\* those that have saved the flags and not put them back
Holding == {q \in Proc : "get" \in calls[q] /\ "put" \notin calls[q]}

FlagsSet(p) ==
  /\ Goto(p, "index") /\ Succeeds(p, "set")
  /\ promisc' = TRUE
  /\ older' = [older EXCEPT ![p] = Holding \ {p}]

\* mutant: the clean-up of the later errors also when the flags could not be set
SetFlagsOrRestore(p) ==
  /\ pc[p] = "setflags"
  /\ \/ FlagsSet(p)
     \/ "ioctl" \in Faults /\ End(p, "exited") /\ RestoreFlags(p) /\ UNCHANGED older
  /\ UNCHANGED <<before, old_ifr, bound, arrived>>

\* SIOCSIFFLAGS
SetFlags(p) ==
  /\ pc[p] = "setflags"
  /\ \/ FlagsSet(p)
     \/ "ioctl" \in Faults /\ End(p, "exited") /\ UNCHANGED <<promisc, calls, older>>
  /\ UNCHANGED <<before, old_ifr, bound, arrived>>

\* mutant: an error after the flags were set is treated like one before it
GetIndexNoRestore(p) ==
  /\ pc[p] = "index"
  /\ \/ Goto(p, "bind")
     \/ "ioctl" \in Faults /\ End(p, "exited")
  /\ UNCHANGED <<flagVars, bound, arrived>>

\* SIOCGIFINDEX; on failure the flags are put back
GetIndex(p) ==
  /\ pc[p] = "index"
  /\ \/ Goto(p, "bind") /\ UNCHANGED <<promisc, calls>>
     \/ "ioctl" \in Faults /\ End(p, "exited") /\ RestoreFlags(p)
  /\ UNCHANGED <<before, old_ifr, older, bound, arrived>>

\* bind(); frames that are in the queue already stay there
Bind(p) ==
  /\ pc[p] = "bind"
  /\ \/ /\ Goto(p, "run") /\ bound' = [bound EXCEPT ![p] = TRUE]
        /\ UNCHANGED <<promisc, calls>>
     \/ "bind" \in Faults /\ End(p, "exited") /\ RestoreFlags(p) /\ UNCHANGED bound
  /\ UNCHANGED <<before, old_ifr, older, arrived>>

\* recvfrom() returns the oldest frame
CanReceive(p) == pc[p] = "run" /\ queue[p] # <<>>
Oldest(p) == Head(queue[p])

RecvFails(p) ==
  /\ pc[p] = "run" /\ "recv" \in Faults
  /\ Goto(p, "restore")
  /\ UNCHANGED <<flagVars, bound, arrived>>

Restore(p) ==
  /\ pc[p] = "restore"
  /\ End(p, "exited") /\ RestoreFlags(p)
  /\ UNCHANGED <<before, old_ifr, older, bound, arrived>>

\* Ctrl-C or another signal: the kernel closes the socket, nobody the flags
Kill(p) ==
  /\ Open(p) /\ "kill" \in Faults
  /\ End(p, "killed")
  /\ UNCHANGED <<flagVars, bound, arrived>>

Sniffer(p) ==
  \/ GetFlags(p) \/ SetFlags(p) \/ GetIndex(p) \/ Bind(p) \/ Restore(p) \/ Kill(p)

-----------------------------------------------------------------------------
Over == \A p \in Proc : pc[p] \in {"start", "exited", "killed"}

\* When the sniffers have ended the interface has the flags it had before, unless
\* a sniffer was killed, the call that restores them failed, or one sniffer took
\* what another had set for the flags to restore.  Every error path restores them
\* ("interface flags restore on %s", HW5_1.c:321).
FlagsRestoredAlone ==
  Over /\ promisc # before =>
    \/ "restore" \in Faults
    \/ \E p \in Proc : pc[p] = "killed"
    \/ \E p, q \in Proc : old_ifr[p] /\ ~old_ifr[q] /\ pc[q] = "exited"

\* q has set the flags, and then put back those it had saved, which were clear
HasCleared(q) == {"set", "put"} \subseteq calls[q] /\ ~old_ifr[q]

\* A sniffer that has set the flags, and is receiving or about to, has the interface
\* in promiscuous mode, unless another saved the flags before it set them and put
\* them back after that, having set them itself: one that fails earlier puts nothing
\* back (HW5_1.c:262-285).
ListensWhileRunning ==
  \A p \in Proc : pc[p] \in {"index", "bind", "run"} =>
    promisc \/ \E q \in older[p] : HasCleared(q)
=============================================================================
