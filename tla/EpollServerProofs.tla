-------------------------- MODULE EpollServerProofs --------------------------
(***************************************************************************)
(* Theorems about server_epoll.c, for any number of clients, slots,        *)
(* descriptors and events in a batch.                                      *)
(***************************************************************************)
EXTENDS EpollServer, ChatServerProofs

-----------------------------------------------------------------------------
(* The inductive invariant *)

TypeInv ==
  /\ TypeOK
  /\ pc = "send" => bi >= 1

\* The batch is about connections that are still there, and the event being
\* served has left it.
BatchInv ==
  /\ EventsCurrent
  /\ pc \in {"send", "clean"} => curr \in Fd /\ curr \notin events

EventsInv == TypeInv /\ DescInv /\ BatchInv

\* What holds of the table unless epoll_ctl fails, which leaves a slot active
\* whose descriptor is closed.
Watched == \A i \in Slot : clients[i].is_active => clients[i].fd \in interest

OwnInv == EventsInv /\ TableInv /\ Watched

-----------------------------------------------------------------------------
(* Types *)

\* The initial state has the types.
LEMMA InitTypes == Init => TypeInv
<1>. SUFFICES ASSUME Init PROVE TypeInv
  OBVIOUS
<1>1. SocketsTypeOK
  BY SocketsAssumption DEF Init, SocketsInit, SocketsTypeOK, PeerState
<1>2. TableTypeOK
  BY DEF Init, TableInit, TableTypeOK
<1>3. bi \in 0 .. MaxClients + 1
  BY ChatServerAssumption DEF Init
<1>. QED BY <1>1, <1>2, <1>3 DEF Init, TypeInv, TypeOK

\* Taking an event leaves a batch.
LEMMA TakeTypes ==
  ASSUME TypeOK, NEW e, Take(e)
  PROVE  /\ e \in Fd \cup {0} /\ events' = events \ {e} /\ events' \in SUBSET (Fd \cup {0})
         /\ of' \in [Fd -> Conn \cup {NoConn}]
         /\ \A g \in events' \ {0} : g \in Fd /\ g # e /\ of'[g] = of[g]
<1>1. events \in SUBSET (Fd \cup {0}) /\ of \in [Fd -> Conn \cup {NoConn}]
  BY DEF TypeOK
<1>. QED BY <1>1 DEF Take

\* client_id is a number, -1 when no slot has the descriptor.
LEMMA IdType ==
  ASSUME TableTypeOK, NEW f
  PROVE  IdOfFd(f) \in Int
<1>1. \A i \in Slot : clients[i].id \in Int
  BY DEF TableTypeOK
<1>2. CASE \E i \in Slot : FirstWithFd(i, f)
  <2>1. (CHOOSE i \in Slot : FirstWithFd(i, f)) \in Slot
    BY <1>2
  <2>. QED BY <1>1, <1>2, <2>1 DEF IdOfFd
<1>3. CASE ~\E i \in Slot : FirstWithFd(i, f)
  BY <1>3 DEF IdOfFd
<1>. QED BY <1>2, <1>3

\* Every step of the loop keeps the types.
LEMMA LoopTypes == TypeInv /\ Loop => TypeInv'
<1>. SUFFICES ASSUME TypeInv, Loop PROVE TypeInv'
  OBVIOUS
<1>1. /\ TypeOK /\ SocketsTypeOK /\ TableTypeOK
      /\ pc \in {"wait", "dispatch", "send", "clean"} /\ interest \in SUBSET Fd
      /\ events \in SUBSET (Fd \cup {0}) /\ of \in [Fd -> Conn \cup {NoConn}]
      /\ curr \in Fd \cup {0} /\ read_size \in Int /\ bi \in 0 .. MaxClients + 1
      /\ pc = "send" => bi >= 1
      /\ MaxClients \in Nat \ {0}
  BY ChatServerAssumption DEF TypeInv, TypeOK
<1>2. ASSUME SocketsTypeOK', TableTypeOK',
             pc' \in {"wait", "dispatch", "send", "clean"}, interest' \in SUBSET Fd,
             events' \in SUBSET (Fd \cup {0}), of' \in [Fd -> Conn \cup {NoConn}],
             curr' \in Fd \cup {0}, read_size' \in Int, bi' \in 0 .. MaxClients + 1,
             pc' = "send" => bi' >= 1
      PROVE  TypeInv'
  BY <1>2 DEF TypeInv, TypeOK
<1>3. UNCHANGED sockVars => SocketsTypeOK'
  BY <1>1 DEF sockVars, SocketsTypeOK
<1>4. UNCHANGED tableVars => TableTypeOK'
  BY <1>1 DEF tableVars, TableTypeOK
<1>5. NextEvent => pc' \in {"wait", "dispatch", "send", "clean"} /\ pc' # "send"
  BY DEF NextEvent
<1>6. CASE EpollWait
  <2>1. PICK S \in SUBSET Ready :
          events' = S /\ of' = [f \in Fd |-> IF f \in S THEN fdt[f] ELSE NoConn]
    BY <1>6 DEF EpollWait
  <2>2. S \in SUBSET (Fd \cup {0})
    BY <1>1, <2>1 DEF Ready
  <2>3. of' \in [Fd -> Conn \cup {NoConn}]
    BY <1>1, <2>1 DEF SocketsTypeOK
  <2>. QED BY <1>1, <1>2, <1>3, <1>4, <1>6, <2>1, <2>2, <2>3 DEF EpollWait
<1>7. CASE AcceptFails
  BY <1>1, <1>2, <1>3, <1>4, <1>5, <1>7, TakeTypes DEF AcceptFails
<1>8. CASE Accept
  <2>1. PICK c \in backlog, f \in Fd :
          AcceptConn(c, f) /\ Register(c, f) /\ interest' = interest \cup {f}
    BY <1>8 DEF Accept
  <2>2. SocketsTypeOK'
    BY <1>1, <2>1 DEF AcceptConn, SocketsTypeOK
  <2>3. TableTypeOK'
    BY <1>1, <2>1, RegisterTypes
  <2>. QED BY <1>1, <1>2, <1>5, <1>8, <2>1, <2>2, <2>3, TakeTypes DEF Accept
<1>9. CASE AcceptAndClose
  <2>1. PICK c \in backlog, f \in Fd :
          /\ UNCHANGED tableVars \/ Register(c, f)
          /\ backlog' = backlog \ {c} /\ peer' = [peer EXCEPT ![c] = "shut"]
    BY <1>9 DEF AcceptAndClose
  <2>2. SocketsTypeOK'
    BY <1>1, <1>9, <2>1 DEF AcceptAndClose, SocketsTypeOK, PeerState
  <2>3. TableTypeOK'
    BY <1>1, <1>4, <2>1, RegisterTypes
  <2>. QED BY <1>1, <1>2, <1>5, <1>9, <2>2, <2>3, TakeTypes DEF AcceptAndClose
<1>10. CASE Recv
  <2>1. PICK f \in Fd :
          /\ fdt[f] # NoConn /\ Take(f) /\ curr' = f
          /\ \/ /\ RecvData(fdt[f]) /\ read_size' = 1 /\ Broadcasting(fdt[f], taken'[fdt[f]])
             \/ RecvEof(fdt[f]) /\ read_size' = 0 /\ Broadcasting(fdt[f], 0)
             \/ RecvError(fdt[f]) /\ read_size' = -1 /\ pc' = "clean" /\ UNCHANGED <<tableVars, bi>>
    BY <1>10 DEF Recv
  <2>2. PICK c \in Conn : c = fdt[f]
    BY <1>1, <2>1 DEF SocketsTypeOK
  <2>3. SocketsTypeOK'
    BY <1>1, <2>1, <2>2, RecvTypes
  <2>4. taken'[fdt[f]] \in Nat
    BY <2>2, <2>3 DEF SocketsTypeOK
  <2>5. ASSUME NEW n \in Nat, Broadcasting(fdt[f], n)
        PROVE  TableTypeOK' /\ pc' = "send" /\ bi' = 1
    <3>1. StartBroadcast(fdt[f], IdOfFd(curr'), n)
      BY <2>5 DEF Broadcasting
    <3>2. TableTypeOK'
      BY <1>1, <2>2, <3>1, StartTypes, IdType
    <3>. QED BY <2>5, <3>2 DEF Broadcasting
  <2>6. /\ TableTypeOK' /\ pc' \in {"send", "clean"} /\ bi' \in 0 .. MaxClients + 1
        /\ pc' = "send" => bi' >= 1
        /\ read_size' \in Int
    <3>1. CASE read_size' = 1 /\ Broadcasting(fdt[f], taken'[fdt[f]])
      BY <1>1, <2>4, <2>5, <3>1
    <3>2. CASE read_size' = 0 /\ Broadcasting(fdt[f], 0)
      BY <1>1, <2>5, <3>2
    <3>3. CASE read_size' = -1 /\ pc' = "clean" /\ UNCHANGED <<tableVars, bi>>
      BY <1>1, <1>4, <3>3
    <3>. QED BY <2>1, <3>1, <3>2, <3>3
  <2>7. UNCHANGED interest
    BY <1>10 DEF Recv
  <2>8. curr' \in Fd \cup {0} /\ events' \in SUBSET (Fd \cup {0}) /\ of' \in [Fd -> Conn \cup {NoConn}]
    BY <1>1, <2>1, TakeTypes
  <2>. QED BY <1>1, <1>2, <2>3, <2>6, <2>7, <2>8
<1>11. CASE BroadcastSend
  <2>1. bi \in Slot
    BY <1>1, <1>11 DEF BroadcastSend, At, Slot
  <2>2. SocketsTypeOK'
    BY <1>1, <1>11, <2>1, BroadcastTypes DEF BroadcastSend
  <2>3. bi' \in 0 .. MaxClients + 1 /\ bi' >= 1
    BY <1>1, <1>11, <2>1 DEF BroadcastSend, Slot
  <2>. QED BY <1>1, <1>2, <1>4, <1>11, <2>2, <2>3 DEF BroadcastSend
<1>12. CASE BroadcastDone
  <2>1. /\ UNCHANGED <<sockVars, tableVars, interest, of, events>> /\ bi' = 0
        /\ pc' \in {"wait", "dispatch", "clean"} /\ curr' \in {0, curr} /\ UNCHANGED read_size
    BY <1>12 DEF BroadcastDone, NextEvent
  <2>. QED BY <1>1, <1>2, <1>3, <1>4, <2>1
<1>13. CASE CleanUp
  <2>1. SocketsTypeOK'
    BY <1>1, <1>13, CloseTypes DEF CleanUp
  <2>2. TableTypeOK'
    BY <1>1, <1>13 DEF CleanUp, Unregister, TableTypeOK
  <2>. QED BY <1>1, <1>2, <1>5, <1>13, <2>1, <2>2 DEF CleanUp
<1>. QED BY <1>6, <1>7, <1>8, <1>9, <1>10, <1>11, <1>12, <1>13 DEF Loop

\* Every step keeps the types.
LEMMA StepTypes == TypeInv /\ [Next]_vars => TypeInv'
<1>. SUFFICES ASSUME TypeInv, [Next]_vars PROVE TypeInv'
  OBVIOUS
<1>1. TypeOK /\ SocketsTypeOK /\ TableTypeOK
  BY DEF TypeInv, TypeOK
<1>2. ASSUME SocketsTypeOK', UNCHANGED <<tableVars, loopVars>> PROVE TypeInv'
  <2>1. TableTypeOK'
    BY <1>1, <1>2 DEF TableTypeOK, tableVars
  <2>. QED BY <1>2, <2>1 DEF TypeInv, TypeOK, loopVars
<1>3. CASE WaitFails
  <2>1. SocketsTypeOK'
    BY <1>1, <1>3 DEF WaitFails, SocketsTypeOK
  <2>. QED BY <1>2, <1>3, <2>1 DEF WaitFails
<1>4. CASE ClientNext /\ UNCHANGED <<tableVars, loopVars>>
  BY <1>1, <1>2, <1>4, ClientTypes
<1>5. CASE UNCHANGED vars
  <2>1. SocketsTypeOK'
    BY <1>1, <1>5 DEF vars, sockVars, SocketsTypeOK
  <2>. QED BY <1>2, <1>5, <2>1 DEF vars
<1>. QED BY <1>3, <1>4, <1>5, LoopTypes DEF Next

-----------------------------------------------------------------------------
(* The events of a batch *)

\* A step after which the events left have the connections they had, and those can
\* still be read.
LEMMA KeepEvents ==
  ASSUME TypeOK, EventsCurrent, events' \subseteq events,
         \A g \in events' \ {0} : of'[g] = of[g] /\ fdt'[g] = fdt[g],
         \A d \in Conn : (\E g \in events' \ {0} : fdt[g] = d) /\ Readable(d) => Readable(d)'
  PROVE  EventsCurrent'
<1>1. of \in [Fd -> Conn \cup {NoConn}] /\ events \subseteq Fd \cup {0}
  BY DEF TypeOK
<1>2. ASSUME NEW g \in events' \ {0}
      PROVE  \E d \in Conn : fdt'[g] = d /\ of'[g] = d /\ Readable(d)'
  <2>1. fdt[g] = of[g] /\ of[g] # NoConn /\ Readable(of[g]) /\ g \in Fd
    BY <1>1 DEF EventsCurrent
  <2>2. PICK d \in Conn : d = of[g]
    BY <1>1, <2>1
  <2>3. Readable(d)'
    BY <2>1, <2>2
  <2>. QED BY <2>1, <2>2, <2>3
<1>. QED BY <1>2, SocketsAssumption DEF EventsCurrent, Readable, HasData

\* No step of the loop closes the descriptor of an event that waits in the batch, gives
\* it to another client, or reads what was to be read from it.
LEMMA LoopEvents == EventsInv /\ Loop => DescInv' /\ BatchInv'
<1>. SUFFICES ASSUME EventsInv, Loop PROVE DescInv' /\ BatchInv'
  OBVIOUS
<1>1. TypeOK /\ SocketsTypeOK /\ TableTypeOK /\ DescInv /\ EventsCurrent
  BY DEF EventsInv, TypeInv, TypeOK, BatchInv
<1>2. /\ fdt \in [Fd -> Conn \cup {NoConn}] /\ events \subseteq Fd \cup {0}
      /\ interest \subseteq Fd /\ 0 \notin Fd /\ NoConn \notin Conn
  BY <1>1, SocketsAssumption DEF TypeOK, SocketsTypeOK, Fd
<1>3. \A g \in events \ {0} : g \in Fd /\ fdt[g] \in Conn
  BY <1>1, <1>2 DEF EventsCurrent
<1>4. \A g, h \in Fd : fdt[g] = fdt[h] /\ fdt[g] # NoConn => g = h
  BY <1>1 DEF DescInv, OneFd
<1>5. UNCHANGED <<fdt, backlog, peer, idOf>> => DescInv'
  BY <1>1, NobodyPends DEF DescInv, PendingFresh, Pending
<1>6. NextEvent => pc' \notin {"send", "clean"}
  BY DEF NextEvent
<1>7. ASSUME NEW e, Take(e)
      PROVE  /\ events' = events \ {e} /\ \A g \in events' \ {0} : of'[g] = of[g]
  BY <1>1, <1>7, TakeTypes
<1>8. UNCHANGED sockVars => \A d \in Conn : Readable(d) => Readable(d)'
  BY DEF sockVars, Readable, HasData
<1>9. CASE EpollWait
  <2>1. PICK S \in SUBSET Ready :
          events' = S /\ of' = [f \in Fd |-> IF f \in S THEN fdt[f] ELSE NoConn]
    BY <1>9 DEF EpollWait
  <2>2. UNCHANGED sockVars /\ UNCHANGED tableVars /\ pc' = "dispatch"
    BY <1>9 DEF EpollWait
  <2>3. ASSUME NEW g \in events' \ {0}
        PROVE  \E d \in Conn : fdt'[g] = d /\ of'[g] = d /\ Readable(d)'
    <3>1. g \in interest /\ fdt[g] # NoConn /\ Readable(fdt[g])
      BY <2>1 DEF Ready
    <3>2. PICK d \in Conn : d = fdt[g]
      BY <1>2, <3>1
    <3>3. of'[g] = d /\ fdt'[g] = d
      BY <1>2, <2>1, <2>2, <3>1, <3>2 DEF sockVars
    <3>4. Readable(d)'
      BY <1>8, <2>2, <3>1, <3>2
    <3>. QED BY <3>3, <3>4
  <2>4. EventsCurrent'
    BY <1>2, <2>3 DEF EventsCurrent, Readable, HasData
  <2>. QED BY <1>5, <2>2, <2>4 DEF sockVars, tableVars, BatchInv
<1>10. CASE AcceptFails
  <2>1. EventsCurrent'
    BY <1>1, <1>7, <1>8, <1>10, KeepEvents DEF AcceptFails, sockVars
  <2>. QED BY <1>5, <1>6, <1>10, <2>1 DEF AcceptFails, BatchInv, sockVars, tableVars
<1>11. CASE Accept
  <2>1. PICK c \in backlog, f \in Fd : LowestFree(f) /\ AcceptConn(c, f) /\ Register(c, f)
    BY <1>11 DEF Accept
  <2>2. \A d \in Conn : d # c => idOf'[d] = idOf[d]
    BY <1>1, <2>1 DEF Register, TableTypeOK
  <2>3. fdt[f] = NoConn
    BY <2>1 DEF LowestFree
  <2>4. DescInv' /\ \A g \in Fd : g # f => fdt'[g] = fdt[g]
    BY <1>1, <2>1, <2>2, <2>3, AcceptDesc
  <2>5. \A d \in Conn : Readable(d) => Readable(d)'
    BY <2>1 DEF AcceptConn, Readable, HasData
  <2>6. EventsCurrent'
    BY <1>1, <1>2, <1>3, <1>7, <1>11, <2>3, <2>4, <2>5, KeepEvents DEF Accept
  <2>. QED BY <1>6, <1>11, <2>4, <2>6 DEF Accept, BatchInv
<1>12. CASE AcceptAndClose
  <2>1. PICK c \in backlog :
          /\ backlog' = backlog \ {c} /\ peer' = [peer EXCEPT ![c] = "shut"]
          /\ UNCHANGED tableVars \/ \E f : Register(c, f)
    BY <1>12 DEF AcceptAndClose
  <2>2. c \in Conn /\ peer[c] # "idle" /\ \A g \in Fd : fdt[g] # c
    BY <1>1, <2>1 DEF DescInv, PendingFresh, Pending, SocketsTypeOK
  <2>3. UNCHANGED <<fdt, sent, taken>>
    BY <1>12 DEF AcceptAndClose
  <2>4. \A d \in Conn : d # c => peer'[d] = peer[d] /\ idOf'[d] = idOf[d]
    BY <1>1, <2>1 DEF Register, TableTypeOK, SocketsTypeOK, tableVars
  <2>5. peer'[c] = "shut"
    BY <1>1, <2>1, <2>2 DEF SocketsTypeOK
  <2>6. DescInv'
    BY <1>1, <2>1, <2>2, <2>3, <2>4, <2>5, NobodyPends DEF DescInv, PendingFresh, Pending, SocketsTypeOK
  <2>7. \A d \in Conn : d # c /\ Readable(d) => Readable(d)'
    BY <2>3, <2>4 DEF Readable, HasData
  <2>8. EventsCurrent'
    BY <1>1, <1>2, <1>3, <1>7, <1>12, <2>2, <2>3, <2>7, KeepEvents DEF AcceptAndClose
  <2>. QED BY <1>6, <1>12, <2>6, <2>8 DEF AcceptAndClose, BatchInv
<1>13. CASE Recv
  <2>1. PICK f \in Fd :
          /\ fdt[f] # NoConn /\ Take(f) /\ curr' = f
          /\ \/ RecvData(fdt[f]) /\ Broadcasting(fdt[f], taken'[fdt[f]])
             \/ RecvEof(fdt[f]) /\ Broadcasting(fdt[f], 0)
             \/ RecvError(fdt[f]) /\ UNCHANGED tableVars
    BY <1>13 DEF Recv
  <2>2. PICK c \in Conn : c = fdt[f]
    BY <1>2, <2>1
  <2>3. UNCHANGED idOf
    BY <2>1 DEF Broadcasting, StartBroadcast, tableVars
  <2>4. /\ DescInv' /\ UNCHANGED <<fdt, backlog>>
        /\ \A d \in Conn : d # c /\ Readable(d) => Readable(d)'
    BY <1>1, <2>1, <2>2, <2>3, RecvDesc
  <2>5. events' = events \ {f} /\ \A g \in events' \ {0} : of'[g] = of[g]
    BY <1>7, <2>1
  <2>6. \A g \in events' \ {0} : fdt[g] # c
    BY <1>3, <1>4, <2>1, <2>2, <2>5
  <2>7. EventsCurrent'
    BY <1>1, <2>4, <2>5, <2>6, KeepEvents
  <2>. QED BY <2>1, <2>4, <2>5, <2>7 DEF BatchInv
<1>14. CASE BroadcastSend
  <2>1. bi \in Slot
    BY <1>14, ChatServerAssumption DEF EventsInv, TypeInv, TypeOK, BroadcastSend, At, Slot
  <2>2. /\ DescInv' /\ UNCHANGED <<fdt, backlog>>
        /\ \A d \in Conn : Readable(d) => Readable(d)'
    BY <1>1, <1>14, <2>1, BroadcastDesc DEF BroadcastSend, tableVars
  <2>3. UNCHANGED <<events, of, curr, pc>>
    BY <1>14 DEF BroadcastSend
  <2>4. EventsCurrent'
    BY <1>1, <2>2, <2>3, KeepEvents
  <2>. QED BY <2>2, <2>3, <2>4 DEF EventsInv, BatchInv
<1>15. CASE BroadcastDone
  <2>1. /\ UNCHANGED sockVars /\ UNCHANGED tableVars /\ UNCHANGED <<events, of>>
        /\ pc' \in {"wait", "dispatch"} \/ (pc' = "clean" /\ pc = "send" /\ UNCHANGED curr)
    BY <1>15 DEF BroadcastDone, NextEvent, At
  <2>2. EventsCurrent'
    BY <1>1, <1>8, <2>1, KeepEvents DEF sockVars
  <2>. QED BY <1>5, <2>1, <2>2 DEF EventsInv, BatchInv, sockVars, tableVars
<1>16. CASE CleanUp
  <2>1. curr \in Fd /\ curr \notin events /\ CloseFd(curr) /\ Unregister(curr)
    BY <1>16 DEF CleanUp, At, EventsInv, BatchInv
  <2>2. UNCHANGED idOf
    BY <2>1 DEF Unregister
  <2>3. /\ DescInv' /\ \A g \in Fd : g # curr => fdt'[g] = fdt[g]
        /\ \A d \in Conn : d # fdt[curr] /\ Readable(d) => Readable(d)'
    BY <1>1, <2>1, <2>2, CloseDesc
  <2>4. UNCHANGED <<events, of>>
    BY <1>16 DEF CleanUp
  <2>5. \A g \in events \ {0} : g # curr /\ fdt[g] # fdt[curr]
    BY <1>2, <1>3, <1>4, <2>1
  <2>6. EventsCurrent'
    BY <1>1, <1>3, <2>3, <2>4, <2>5, KeepEvents
  <2>. QED BY <1>6, <1>16, <2>3, <2>6 DEF CleanUp, BatchInv
<1>. QED BY <1>9, <1>10, <1>11, <1>12, <1>13, <1>14, <1>15, <1>16 DEF Loop

\* Every step keeps the invariant of the batch, whatever call fails.
LEMMA StepEvents == EventsInv /\ [Next]_vars => EventsInv'
<1>. SUFFICES ASSUME EventsInv, [Next]_vars PROVE EventsInv'
  OBVIOUS
<1>1. TypeInv' /\ TypeInv /\ TypeOK /\ SocketsTypeOK /\ DescInv /\ EventsCurrent
  BY StepTypes DEF EventsInv, TypeInv, TypeOK, BatchInv
<1>2. ASSUME DescInv', UNCHANGED <<fdt, events, of, pc, curr>>,
             \A d \in Conn : Readable(d) => Readable(d)'
      PROVE  EventsInv'
  BY <1>1, <1>2, KeepEvents DEF EventsInv, BatchInv
<1>3. ASSUME UNCHANGED <<fdt, backlog, peer, sent, taken, idOf>>
      PROVE  DescInv' /\ \A d \in Conn : Readable(d) => Readable(d)'
  <2>1. DescInv'
    BY <1>1, <1>3, NobodyPends DEF DescInv, PendingFresh, Pending
  <2>. QED BY <1>3, <2>1 DEF Readable, HasData
<1>4. CASE WaitFails
  BY <1>2, <1>3, <1>4 DEF WaitFails, tableVars, loopVars
<1>5. CASE ClientNext /\ UNCHANGED <<tableVars, loopVars>>
  BY <1>1, <1>2, <1>5, ClientDesc DEF tableVars, loopVars
<1>6. CASE UNCHANGED vars
  BY <1>2, <1>3, <1>6 DEF vars, sockVars, tableVars, loopVars
<1>7. CASE Loop
  BY <1>1, <1>7, LoopEvents DEF EventsInv
<1>. QED BY <1>4, <1>5, <1>6, <1>7 DEF Next

\* The invariant of the batch is one.
LEMMA EventsInvariant == Spec => []EventsInv
<1>1. Init => EventsInv
  <2>. SUFFICES ASSUME Init PROVE EventsInv
    OBVIOUS
  <2>1. DescInv
    BY InitTable DEF Init, TableInv, DescInv
  <2>2. BatchInv
    BY DEF Init, BatchInv, EventsCurrent
  <2>. QED BY InitTypes, <2>1, <2>2 DEF EventsInv
<1>. QED BY <1>1, StepEvents, PTL DEF Spec

\* The variables of the epoll server keep their types.
THEOREM TypeCorrect == Spec => []TypeOK
<1>1. EventsInv => TypeOK
  BY DEF EventsInv, TypeInv
<1>. QED BY <1>1, EventsInvariant, PTL

\* An event that waits in the batch of epoll_wait is about the connection it was
\* reported for, and recv on it does not block the only thread, however many events,
\* accepts and clean-ups were served before it and whatever call failed.
THEOREM EventsStayCurrent == Spec => []EventsCurrent
<1>1. EventsInv => EventsCurrent
  BY DEF EventsInv, BatchInv
<1>. QED BY <1>1, EventsInvariant, PTL

-----------------------------------------------------------------------------
(* The table and the descriptors *)

\* Every step keeps the ownership of the slots.  epoll_ctl may not fail: the slot it
\* would leave active has no connection.
LEMMA StepOwn ==
  ASSUME "epoll_ctl" \notin Faults, OwnInv, [Next]_vars
  PROVE  OwnInv'
<1>1. /\ EventsInv /\ EventsInv' /\ TableInv /\ Watched /\ TypeOK /\ SocketsTypeOK /\ TableTypeOK
      /\ DescInv' /\ clients \in [Slot -> [fd : Fd \cup {0}, id : Nat, is_active : BOOLEAN]]
  BY StepEvents DEF OwnInv, EventsInv, TypeInv, TypeOK, TableTypeOK
<1>2. SUFFICES TableInv' /\ Watched'
  BY <1>1 DEF OwnInv
<1>3. UNCHANGED <<clients, interest>> => Watched'
  BY <1>1 DEF Watched
<1>4. UNCHANGED <<fdt, clients, idOf>> => TableInv'
  BY <1>1, SameTable
<1>5. CASE EpollWait \/ AcceptFails \/ BroadcastDone \/ WaitFails \/ UNCHANGED vars
  BY <1>3, <1>4, <1>5
  DEF EpollWait, AcceptFails, BroadcastDone, WaitFails, vars, sockVars, tableVars, loopVars
<1>6. CASE Accept
  <2>1. PICK c \in backlog, f \in Fd :
          LowestFree(f) /\ AcceptConn(c, f) /\ Register(c, f) /\ interest' = interest \cup {f}
    BY <1>6 DEF Accept
  <2>2. fdt[f] = NoConn
    BY <2>1 DEF LowestFree
  <2>3. /\ TableInv'
        /\ \A i \in Slot : clients'[i].is_active =>
             clients'[i].fd = f \/ (clients[i].is_active /\ clients'[i].fd = clients[i].fd)
    BY <1>1, <2>1, <2>2, AcceptRegisterTable
  <2>. QED BY <1>1, <2>1, <2>3 DEF Watched
<1>7. CASE AcceptAndClose
  BY <1>3, <1>4, <1>7 DEF AcceptAndClose, tableVars
<1>8. CASE Recv
  <2>1. UNCHANGED <<fdt, clients, idOf, interest>>
    BY <1>8 DEF Recv, RecvData, RecvEof, RecvError, Broadcasting, StartBroadcast, sockVars, tableVars
  <2>. QED BY <1>3, <1>4, <2>1
<1>9. CASE BroadcastSend
  BY <1>3, <1>4, <1>9 DEF BroadcastSend, BroadcastTo, tableVars
<1>10. CASE CleanUp
  <2>1. curr \in Fd /\ CloseFd(curr) /\ Unregister(curr) /\ interest' = interest \ {curr}
    BY <1>1, <1>10 DEF CleanUp, At, EventsInv, BatchInv
  <2>2. /\ TableInv'
        /\ \A i \in Slot : clients'[i].is_active =>
             clients[i].is_active /\ clients[i].fd # curr /\ clients'[i].fd = clients[i].fd
    BY <1>1, <2>1, CleanTable
  <2>. QED BY <1>1, <2>1, <2>2 DEF Watched
<1>11. CASE ClientNext /\ UNCHANGED <<tableVars, loopVars>>
  <2>1. UNCHANGED fdt
    BY <1>11 DEF ClientNext, Connect, ClientSend, ClientReads, ClientRead, ClientExit
  <2>. QED BY <1>3, <1>4, <1>11, <2>1 DEF tableVars, loopVars
<1>. QED BY <1>5, <1>6, <1>7, <1>8, <1>9, <1>10, <1>11 DEF Next, Loop

\* Nobody owns anything at the start.
LEMMA InitOwn == Init => OwnInv
<1>. SUFFICES ASSUME Init PROVE OwnInv
  OBVIOUS
<1>1. TypeInv /\ TableInv
  BY InitTypes, InitTable DEF Init
<1>2. BatchInv
  BY DEF Init, BatchInv, EventsCurrent
<1>3. Watched
  BY DEF Init, TableInit, Watched
<1>. QED BY <1>1, <1>2, <1>3 DEF OwnInv, EventsInv, TableInv, DescInv

\* Unless epoll_ctl fails, a listed slot always holds the descriptor and the number of
\* one and the same open connection, and epoll watches it.
THEOREM DescriptorsAreOwned ==
  ASSUME "epoll_ctl" \notin Faults
  PROVE  Spec => []DescriptorsOwned
<1>1. Init => OwnInv
  BY InitOwn
<1>2. OwnInv /\ [Next]_vars => OwnInv'
  BY StepOwn
<1>3. OwnInv => DescriptorsOwned
  BY SocketsAssumption DEF OwnInv, Watched, TableInv, SlotsHold, Holds, DescriptorsOwned, ConnIn
<1>. QED BY <1>1, <1>2, <1>3, PTL DEF Spec

-----------------------------------------------------------------------------
(* The server is one room *)

\* how many messages the client in slot i is behind the log: while a message is being
\* broadcast, those in the slots ahead have not got it yet
Behind(i) == IF pc = "send" /\ bi <= i THEN 1 ELSE 0

HearInv == \A i \in Slot : Heard(i, Len(log) - Behind(i))

\* The message being broadcast is the last one, it is from the client being served,
\* and a client that is cleaned up has gone.
ServeInv ==
  /\ pc = "send" => /\ Len(log) > 0 /\ log[Len(log)].src = fdt[curr]
                    /\ \A d \in Conn : joined[d] < Len(log)
  /\ pc \in {"send", "clean"} => fdt[curr] \in Conn
  /\ pc = "clean" \/ (pc = "send" /\ read_size <= 0) =>
       read_size <= 0 /\ peer[fdt[curr]] \notin {"idle", "open"}

\* a listed client that said goodbye is being served, up to its clean-up
ByeInv ==
  \A c \in Conn : SaidBye(c) /\ Listed(c) =>
    pc \in {"send", "clean"} /\ read_size <= 0 /\ fdt[curr] = c

\* every open connection is in the table
OpenListed == \A f \in Fd : fdt[f] # NoConn => InTable(f)

RoomServed == RoomInv /\ HearInv /\ ServeInv /\ ByeInv /\ OpenListed

\* The room is empty at the start.
LEMMA InitServed == Init => RoomServed
<1>. SUFFICES ASSUME Init PROVE RoomServed
  OBVIOUS
<1>1. RoomInv
  BY InitRoom DEF Init
<1>2. HearInv /\ ServeInv /\ OpenListed
  BY DEF Init, SocketsInit, TableInit, HearInv, Heard, ServeInv, OpenListed
<1>3. ByeInv
  BY DEF Init, TableInit, ByeInv, SaidBye
<1>. QED BY <1>1, <1>2, <1>3 DEF RoomServed

\* A step that leaves the table and the streams alone, and the broadcast where it was.
LEMMA QuietServed ==
  ASSUME SlotsLive, RoomInv, HearInv, OpenListed,
         UNCHANGED tableVars, UNCHANGED <<fdt, inbox>>,
         \A i \in Slot : Behind(i)' = Behind(i),
         \A d \in Conn : peer[d] # "idle" /\ peer'[d] = "open" => peer[d] = "open"
  PROVE  /\ RoomInv' /\ HearInv' /\ OpenListed'
         /\ \A d \in Conn : (Listed(d)' <=> Listed(d)) /\ (SaidBye(d)' <=> SaidBye(d))
<1>1. UNCHANGED <<clients, log, joined, idOf>>
  BY DEF tableVars
<1>2. RoomInv' /\ OpenListed'
  BY <1>1, RoomKept DEF OpenListed, InTable
<1>3. ASSUME NEW i \in Slot PROVE Heard(i, Len(log) - Behind(i))'
  <2>1. PICK m : m = Len(log) - Behind(i)
    OBVIOUS
  <2>2. Heard(i, m)
    BY <2>1 DEF HearInv
  <2>3. ConnIn(i)' = ConnIn(i)
    BY <1>1 DEF ConnIn
  <2>4. clients[i].is_active /\ peer'[ConnIn(i)] = "open" => peer[ConnIn(i)] = "open"
    BY DEF SlotsLive
  <2>5. Heard(i, m)'
    <3>1. CASE clients[i].is_active
      BY <1>1, <2>2, <2>3, <2>4, <3>1, HeardStays
    <3>2. CASE ~clients[i].is_active
      BY <1>1, <3>2 DEF Heard
    <3>. QED BY <3>1, <3>2
  <2>6. (Len(log) - Behind(i))' = m
    BY <1>1, <2>1
  <2>. QED BY <2>5, <2>6
<1>4. \A d \in Conn : (Listed(d)' <=> Listed(d)) /\ (SaidBye(d)' <=> SaidBye(d))
  BY <1>1 DEF Listed, ConnIn, SaidBye
<1>. QED BY <1>2, <1>3, <1>4 DEF HearInv

\* Between two broadcasts everybody has heard everything.
LEMMA AllHeard ==
  ASSUME TableTypeOK, SlotsLive, HearInv, pc # "send"
  PROVE  Room!AllHaveHeard /\ \A i \in Slot : Heard(i, Len(log))
<1>1. Len(log) \in Nat
  BY DEF TableTypeOK
<1>2. \A i \in Slot : Heard(i, Len(log))
  <2>. TAKE i \in Slot
  <2>1. Len(log) - Behind(i) = Len(log)
    BY <1>1 DEF Behind
  <2>. QED BY <2>1 DEF HearInv
<1>. QED BY <1>2, RoomHasHeard

\* What the clients do: one of them may vanish.
LEMMA ClientRoom ==
  ASSUME SocketsTypeOK, SlotsLive, RoomServed, ClientNext, UNCHANGED <<tableVars, loopVars>>
  PROVE  RoomServed' /\ [Room!RoomNext]_(Room!roomVars)
<1>1. PICK c \in Conn : Connect(c) \/ ClientSend(c) \/ ClientReads(c) \/ ClientExit(c)
  BY DEF ClientNext
<1>2. UNCHANGED <<fdt, inbox>> /\ UNCHANGED <<idOf, log, joined>>
  BY <1>1 DEF Connect, ClientSend, ClientReads, ClientRead, ClientExit, tableVars
<1>3. \A d \in Conn :
        /\ peer[d] # "idle" /\ peer'[d] = "open" => peer[d] = "open"
        /\ peer[d] \notin {"idle", "open"} => peer'[d] \notin {"idle", "open"}
  BY <1>1 DEF Connect, ClientSend, ClientReads, ClientRead, ClientExit, SocketsTypeOK
<1>4. UNCHANGED <<pc, curr, read_size, bi>>
  BY DEF loopVars
<1>5. \A i \in Slot : Behind(i)' = Behind(i)
  BY <1>4 DEF Behind
<1>6. /\ RoomInv' /\ HearInv' /\ OpenListed'
      /\ \A d \in Conn : (Listed(d)' <=> Listed(d)) /\ (SaidBye(d)' <=> SaidBye(d))
  BY <1>2, <1>3, <1>5, QuietServed DEF RoomServed
<1>7. ByeInv'
  BY <1>2, <1>4, <1>6 DEF RoomServed, ByeInv
<1>8. ServeInv'
  BY <1>2, <1>3, <1>4 DEF RoomServed, ServeInv
<1>9. Unreachable' = Unreachable \/ Unreachable' = Unreachable \cup {c}
  BY <1>1 DEF Connect, ClientSend, ClientReads, ClientRead, ClientExit, SocketsTypeOK, Unreachable
<1>10. [Room!RoomNext]_(Room!roomVars)
  BY <1>2, <1>6, <1>9, RoomStutters, RoomVanishes DEF Room!RoomNext
<1>. QED BY <1>6, <1>7, <1>8, <1>10 DEF RoomServed

\* A new client joins.
LEMMA AcceptRoom ==
  ASSUME OwnInv, OwnInv', RoomServed, Accept
  PROVE  RoomServed' /\ [Room!RoomNext]_(Room!roomVars)
<1>1. /\ SocketsTypeOK /\ TableTypeOK /\ TableInv /\ DescInv /\ SlotsLive
      /\ \A d \in Conn : idOf[d] = 0 => ~Listed(d)
  BY TableSlots DEF OwnInv, EventsInv, TypeInv, TypeOK
<1>2. PICK c \in backlog, f \in Fd : LowestFree(f) /\ AcceptConn(c, f) /\ Register(c, f)
  BY DEF Accept
<1>3. pc = "dispatch" /\ pc' \in {"wait", "dispatch"}
  BY DEF Accept, At, NextEvent
<1>4. /\ c \in Conn /\ idOf[c] = 0 /\ fdt[f] = NoConn /\ fdt'[f] = c
      /\ \A g \in Fd : g # f => fdt'[g] = fdt[g]
      /\ UNCHANGED <<inbox, peer>>
  <2>1. fdt[f] = NoConn
    BY <1>2 DEF LowestFree
  <2>2. \A d \in Conn : d # c => idOf'[d] = idOf[d]
    BY <1>1, <1>2 DEF Register, TableTypeOK
  <2>. QED BY <1>1, <1>2, <2>1, <2>2, AcceptDesc DEF AcceptConn
<1>5. \A i \in Slot : clients[i].is_active => fdt'[clients[i].fd] = fdt[clients[i].fd]
  BY <1>1, <1>4, SocketsAssumption DEF TableInv, SlotsHold, Holds
<1>6. ~Listed(c) /\ ~SaidBye(c) /\ inbox[c] = <<>>
  BY <1>1, <1>4 DEF RoomServed, RoomInv, SaidBye
<1>7. /\ Listed(c)' /\ \A d \in Conn : d # c => (Listed(d)' <=> Listed(d))
      /\ \A i \in Slot : clients'[i].is_active =>
           \/ ConnIn(i)' = c
           \/ clients[i].is_active /\ ConnIn(i)' = ConnIn(i) /\ ConnIn(i) # c
      /\ InTable(f)' /\ \A g : InTable(g) => InTable(g)'
  BY <1>1, <1>2, <1>4, <1>5, <1>6, RegisterLists
<1>8. Room!AllHaveHeard /\ \A i \in Slot : Heard(i, Len(log))
  BY <1>1, <1>3, AllHeard DEF RoomServed
<1>9. Unreachable' = Unreachable
  BY <1>4 DEF Unreachable
<1>10. Room!Join(c)
  BY <1>1, <1>2, <1>4, <1>6, <1>7, <1>8, <1>9, RoomJoins
<1>11. RoomInv'
  BY <1>1, <1>2, <1>4, JoinKeeps DEF RoomServed
<1>12. UNCHANGED log
  BY <1>2 DEF Register
<1>13. ASSUME NEW i \in Slot PROVE Heard(i, Len(log) - Behind(i))'
  <2>1. PICK m : m = Len(log)
    OBVIOUS
  <2>2. clients'[i].is_active =>
           \/ ConnIn(i)' = c
           \/ clients[i].is_active /\ ConnIn(i)' = ConnIn(i) /\ ConnIn(i) \in Conn \ {c}
    BY <1>1, <1>7 DEF SlotsLive
  <2>3. Heard(i, m)'
    BY <1>1, <1>2, <1>4, <1>6, <1>8, <2>1, <2>2, JoinHeard
  <2>4. (Len(log) - Behind(i))' = m
    BY <1>1, <1>3, <1>12, <2>1 DEF Behind, TableTypeOK
  <2>. QED BY <2>3, <2>4
<1>14. HearInv'
  BY <1>13 DEF HearInv
<1>15. OpenListed'
  BY <1>4, <1>7 DEF RoomServed, OpenListed
<1>16. ByeInv'
  <2>1. \A d \in Conn : SaidBye(d)' <=> SaidBye(d)
    BY <1>12 DEF SaidBye
  <2>2. \A d \in Conn : SaidBye(d) => ~Listed(d)
    BY <1>3 DEF RoomServed, ByeInv
  <2>. QED BY <1>6, <1>7, <2>1, <2>2 DEF ByeInv
<1>17. ServeInv'
  BY <1>3 DEF ServeInv
<1>. QED BY <1>4, <1>10, <1>11, <1>14, <1>15, <1>16, <1>17 DEF RoomServed, Room!RoomNext

\* What the client being served sent is said, and the end of its stream is its goodbye.
LEMMA RecvRoom ==
  ASSUME OwnInv, OwnInv', RoomServed, Recv
  PROVE  RoomServed' /\ [Room!RoomNext]_(Room!roomVars)
<1>1. /\ SocketsTypeOK /\ SocketsTypeOK' /\ TableTypeOK /\ TableInv /\ SlotsLive /\ TypeOK
      /\ \A d \in Conn : Listed(d) <=> \E f \in Fd : fdt[f] = d /\ InTable(f)
  BY TableSlots, ListedIs DEF OwnInv, EventsInv, TypeInv, TypeOK
<1>2. PICK f \in Fd :
        /\ fdt[f] # NoConn /\ Take(f) /\ curr' = f
        /\ \/ RecvData(fdt[f]) /\ read_size' = 1 /\ Broadcasting(fdt[f], taken'[fdt[f]])
           \/ RecvEof(fdt[f]) /\ read_size' = 0 /\ Broadcasting(fdt[f], 0)
           \/ RecvError(fdt[f]) /\ read_size' = -1 /\ pc' = "clean" /\ UNCHANGED <<tableVars, bi>>
  BY DEF Recv
<1>3. PICK c \in Conn : c = fdt[f]
  BY <1>1, <1>2 DEF SocketsTypeOK
<1>4. pc = "dispatch"
  BY DEF Recv, At
<1>5. Listed(c) /\ idOf[c] # 0 /\ ~SaidBye(c)
  <2>1. Listed(c)
    BY <1>1, <1>2, <1>3 DEF RoomServed, OpenListed
  <2>2. idOf[c] # 0
    BY <2>1, <1>1 DEF SlotsLive, Listed
  <2>3. ~SaidBye(c)
    BY <1>4, <2>1 DEF RoomServed, ByeInv
  <2>. QED BY <2>1, <2>2, <2>3
<1>6. Room!AllHaveHeard /\ \A i \in Slot : Heard(i, Len(log))
  BY <1>1, <1>4, AllHeard DEF RoomServed
<1>7. UNCHANGED <<fdt, inbox>>
  BY <1>2 DEF RecvData, RecvEof, RecvError, sockVars
<1>8. fdt'[curr'] = c
  BY <1>2, <1>3, <1>7
<1>9. ASSUME NEW n \in Nat, Broadcasting(c, n), UNCHANGED peer,
             read_size' = (IF n = 0 THEN 0 ELSE 1),
             n = 0 => peer[c] \notin {"idle", "open"}
      PROVE  RoomServed' /\ [Room!RoomNext]_(Room!roomVars)
  <2>1. PICK id : StartBroadcast(c, id, n)
    BY <1>9 DEF Broadcasting
  <2>2. pc' = "send" /\ bi' = 1
    BY <1>9 DEF Broadcasting
  <2>3. UNCHANGED <<clients, joined, idOf>>
    BY <2>1 DEF StartBroadcast
  <2>4. \A d \in Conn : SaidBye(d)' <=> SaidBye(d) \/ (d = c /\ n = 0)
    BY <1>1, <2>1, ByeSaid
  <2>5. Members[c] = "in"
    BY <1>5 DEF Members
  <2>6. Unreachable' = Unreachable
    BY <1>9 DEF Unreachable
  <2>7. Room!Say(c) \/ Room!Quit(c)
    BY <1>1, <1>6, <1>7, <2>1, <2>5, <2>6, RoomSays
  <2>8. /\ RoomInv' /\ Len(log') = Len(log) + 1 /\ log'[Len(log')].src = c
        /\ \A d \in Conn : joined'[d] < Len(log')
    BY <1>1, <1>5, <1>7, <2>1, SayKeeps DEF RoomServed
  <2>9. ASSUME NEW i \in Slot PROVE Heard(i, Len(log) - Behind(i))'
    <3>1. PICK m : m = Len(log)
      OBVIOUS
    <3>2. clients[i].is_active => ConnIn(i) \in Conn
      BY <1>1 DEF SlotsLive
    <3>3. Heard(i, m)'
      BY <1>1, <1>6, <1>7, <1>9, <2>1, <3>1, <3>2, SayHeard
    <3>4. Len(log) \in Nat
      BY <1>1 DEF TableTypeOK
    <3>5. Behind(i)' = 1
      BY <2>2, ChatServerAssumption DEF Behind, Slot
    <3>6. (Len(log) - Behind(i))' = m
      BY <2>8, <3>1, <3>4, <3>5
    <3>. QED BY <3>3, <3>6
  <2>10. HearInv'
    BY <2>9 DEF HearInv
  <2>11. OpenListed'
    BY <1>7, <2>3 DEF RoomServed, OpenListed, InTable
  <2>12. ByeInv'
    <3>1. \A d \in Conn : Listed(d)' <=> Listed(d)
      BY <1>7, <2>3 DEF Listed, ConnIn
    <3>2. \A d \in Conn : SaidBye(d) => ~Listed(d)
      BY <1>4 DEF RoomServed, ByeInv
    <3>. QED BY <1>8, <1>9, <2>2, <2>4, <3>1, <3>2 DEF ByeInv
  <2>13. ServeInv'
    <3>1. Len(log) \in Nat
      BY <1>1 DEF TableTypeOK
    <3>. QED BY <1>8, <1>9, <2>2, <2>8, <3>1 DEF ServeInv
  <2>. QED BY <2>7, <2>8, <2>10, <2>11, <2>12, <2>13 DEF RoomServed, Room!RoomNext
<1>10. CASE RecvData(c) /\ read_size' = 1 /\ Broadcasting(c, taken'[c])
  <2>1. taken'[c] \in Nat /\ taken'[c] # 0
    <3>1. PICK n \in 1 .. RecvMax : taken' = [taken EXCEPT ![c] = @ + n]
      BY <1>10 DEF RecvData
    <3>2. taken'[c] = taken[c] + n /\ taken[c] \in Nat
      BY <1>1, <3>1 DEF SocketsTypeOK
    <3>. QED BY <3>1, <3>2, SocketsAssumption
  <2>2. UNCHANGED peer
    BY <1>10 DEF RecvData
  <2>. QED BY <1>9, <1>10, <2>1, <2>2
<1>11. CASE RecvEof(c) /\ read_size' = 0 /\ Broadcasting(c, 0)
  <2>1. UNCHANGED peer /\ peer[c] \notin {"idle", "open"}
    BY <1>11 DEF RecvEof, sockVars
  <2>. QED BY <1>9, <1>11, <2>1
<1>12. CASE RecvError(c) /\ read_size' = -1 /\ pc' = "clean" /\ UNCHANGED <<tableVars, bi>>
  <2>1. peer[c] = "rst" /\ peer' = [peer EXCEPT ![c] = "gone"]
    BY <1>12 DEF RecvError
  <2>2. /\ peer'[c] = "gone"
        /\ \A d \in Conn : peer[d] # "idle" /\ peer'[d] = "open" => peer[d] = "open"
        /\ Unreachable' = Unreachable
    BY <1>1, <2>1 DEF SocketsTypeOK, Unreachable
  <2>3. \A i \in Slot : Behind(i)' = Behind(i)
    BY <1>4, <1>12 DEF Behind
  <2>4. /\ RoomInv' /\ HearInv' /\ OpenListed'
        /\ \A d \in Conn : (Listed(d)' <=> Listed(d)) /\ (SaidBye(d)' <=> SaidBye(d))
    BY <1>1, <1>7, <1>12, <2>2, <2>3, QuietServed DEF RoomServed
  <2>5. ByeInv'
    BY <1>4, <2>4 DEF RoomServed, ByeInv
  <2>6. ServeInv'
    BY <1>8, <1>12, <2>2 DEF ServeInv
  <2>7. UNCHANGED Room!roomVars
    BY <1>7, <1>12, <2>2, <2>4, RoomStutters DEF tableVars
  <2>. QED BY <2>4, <2>5, <2>6, <2>7 DEF RoomServed
<1>. QED BY <1>2, <1>3, <1>10, <1>11, <1>12

\* One iteration of the broadcast.
LEMMA SendRoom ==
  ASSUME OwnInv, OwnInv', RoomServed, BroadcastSend
  PROVE  RoomServed' /\ [Room!RoomNext]_(Room!roomVars)
<1>1. /\ SocketsTypeOK /\ TableTypeOK /\ TableInv /\ SlotsLive /\ SlotsApart /\ TypeOK
      /\ MaxClients \in Nat /\ pc = "send" /\ bi \in Nat /\ bi >= 1
  BY TableSlots, ChatServerAssumption
  DEF OwnInv, EventsInv, TypeInv, TypeOK, BroadcastSend, At
<1>2. PICK i \in Slot : i = bi
  BY <1>1 DEF BroadcastSend, Slot
<1>3. /\ BroadcastTo(i, curr) /\ UNCHANGED tableVars /\ bi' = bi + 1
      /\ UNCHANGED <<pc, curr, read_size>>
  BY <1>2 DEF BroadcastSend
<1>4. /\ curr \in Fd /\ fdt[curr] \in Conn /\ Len(log) > 0 /\ log[Len(log)].src = fdt[curr]
      /\ \A d \in Conn : joined[d] < Len(log)
  BY <1>1 DEF OwnInv, EventsInv, BatchInv, RoomServed, ServeInv
<1>5. PICK m \in Nat : m + 1 = Len(log)
  <2>1. Len(log) \in Nat
    BY <1>1 DEF TableTypeOK
  <2>2. Len(log) - 1 \in Nat /\ (Len(log) - 1) + 1 = Len(log)
    BY <1>4, <2>1
  <2>. QED BY <2>2
<1>6. Heard(i, m) /\ \A d \in Conn : joined[d] <= m
  <2>1. Behind(i) = 1
    BY <1>1, <1>2 DEF Behind
  <2>2. Len(log) - Behind(i) = m
    BY <1>5, <2>1
  <2>3. Heard(i, m)
    BY <2>2 DEF RoomServed, HearInv
  <2>4. \A d \in Conn : joined[d] \in Nat
    BY <1>1 DEF TableTypeOK
  <2>. QED BY <1>4, <1>5, <2>3, <2>4
<1>7. clients[i].is_active /\ clients[i].fd # curr => ConnIn(i) # fdt[curr] /\ ConnIn(i) \in Conn
  <2>. SUFFICES ASSUME clients[i].is_active, clients[i].fd # curr
                PROVE  ConnIn(i) # fdt[curr] /\ ConnIn(i) \in Conn
    OBVIOUS
  <2>1. Holds(i)
    BY <1>1 DEF TableInv, SlotsHold
  <2>. QED BY <1>1, <1>4, <2>1, SocketsAssumption DEF TableInv, OneFd, Holds, ConnIn
<1>8. /\ clients[i].is_active /\ clients[i].fd # curr => ConnIn(i) # log[m + 1].src
      /\ clients[i].is_active /\ clients[i].fd = curr => ConnIn(i) = log[m + 1].src
  BY <1>4, <1>5, <1>7 DEF ConnIn
<1>9. clients[i].is_active /\ clients[i].fd # curr => ~SaidBye(ConnIn(i))
  BY <1>7 DEF RoomServed, ByeInv, Listed
<1>10. /\ (\E c \in Conn : Room!Hear(c)) \/ UNCHANGED Room!roomVars
       /\ RoomInv' /\ Heard(i, m + 1)'
       /\ \A j \in Slot, n \in Nat : j # i /\ Heard(j, n) => Heard(j, n)'
  BY <1>1, <1>3, <1>5, <1>6, <1>8, <1>9, RoomHears DEF RoomServed
<1>11. UNCHANGED <<clients, log, joined, fdt, idOf>>
  BY <1>3 DEF BroadcastTo, tableVars
<1>12. ASSUME NEW j \in Slot PROVE Heard(j, Len(log) - Behind(j))'
  <2>1. CASE j = i
    <3>1. (Len(log) - Behind(j))' = m + 1
      BY <1>1, <1>2, <1>3, <1>5, <1>11, <2>1 DEF Behind
    <3>. QED BY <1>10, <2>1, <3>1
  <2>2. CASE j # i
    <3>1. Behind(j)' = Behind(j)
      BY <1>1, <1>2, <1>3, <2>2 DEF Behind, Slot
    <3>2. PICK n \in Nat : n = Len(log) - Behind(j)
      BY <1>5 DEF Behind
    <3>3. Heard(j, n)
      BY <3>2 DEF RoomServed, HearInv
    <3>4. Heard(j, n)'
      BY <1>10, <2>2, <3>3
    <3>5. (Len(log) - Behind(j))' = n
      BY <1>11, <3>1, <3>2
    <3>. QED BY <3>4, <3>5
  <2>. QED BY <2>1, <2>2
<1>13. HearInv'
  BY <1>12 DEF HearInv
<1>14. OpenListed'
  BY <1>11 DEF RoomServed, OpenListed, InTable
<1>15. ByeInv'
  <2>1. \A d \in Conn : (Listed(d)' <=> Listed(d)) /\ (SaidBye(d)' <=> SaidBye(d))
    BY <1>11 DEF Listed, ConnIn, SaidBye
  <2>. QED BY <1>3, <1>11, <2>1 DEF RoomServed, ByeInv
<1>16. \A d \in Conn : peer[d] \notin {"idle", "open"} => peer'[d] \notin {"idle", "open"}
  <2>1. CASE UNCHANGED peer
    BY <2>1
  <2>2. CASE Send(clients[i].fd, Len(log))
    BY <1>1, <2>2 DEF Send, SocketsTypeOK
  <2>. QED BY <1>3, <2>1, <2>2 DEF BroadcastTo
<1>17. ServeInv'
  BY <1>1, <1>3, <1>4, <1>11, <1>16 DEF RoomServed, ServeInv
<1>. QED BY <1>10, <1>13, <1>14, <1>15, <1>17 DEF RoomServed, Room!RoomNext

\* A client that has gone leaves.
LEMMA CleanRoom ==
  ASSUME OwnInv, OwnInv', RoomServed, CleanUp
  PROVE  RoomServed' /\ [Room!RoomNext]_(Room!roomVars)
<1>0. SocketsTypeOK /\ TableTypeOK /\ TableInv
  BY DEF OwnInv, EventsInv, TypeInv, TypeOK
<1>1. /\ SocketsTypeOK /\ TableTypeOK /\ TableInv /\ TableInv' /\ SlotsLive
      /\ \A d \in Conn : Listed(d) <=> \E g \in Fd : fdt[g] = d /\ InTable(g)
  BY TableSlots, ListedIs DEF OwnInv, EventsInv, TypeInv, TypeOK
<1>2. pc = "clean" /\ pc' \in {"wait", "dispatch"}
  BY DEF CleanUp, At, NextEvent
<1>f. PICK f \in Fd : f = curr /\ CloseFd(f) /\ Unregister(f)
  BY DEF CleanUp, At, OwnInv, EventsInv, BatchInv
<1>3. PICK c \in Conn : c = fdt[f]
  BY <1>2, <1>f DEF RoomServed, ServeInv
<1>4. peer[c] \notin {"idle", "open"} /\ Listed(c) /\ idOf[c] # 0
  <2>1. Listed(c)
    BY <1>1, <1>3, SocketsAssumption DEF RoomServed, OpenListed
  <2>. QED BY <1>1, <1>2, <1>f, <1>3, <2>1 DEF RoomServed, ServeInv, SlotsLive, Listed
<1>5. /\ fdt'[f] = NoConn /\ \A g \in Fd : g # f => fdt'[g] = fdt[g]
      /\ ~InTable(f)'
      /\ \A g : g # f => InTable(g)' = InTable(g)
      /\ \A i \in Slot : clients'[i].is_active =>
           /\ clients[i].is_active /\ clients[i].fd # f
           /\ clients'[i].fd = clients[i].fd /\ clients'[i].id = clients[i].id
  BY <1>0, <1>f, CleanTable
<1>6. \A d \in Conn : Listed(d)' <=> \E g \in Fd : fdt'[g] = d /\ InTable(g)'
  BY <1>1, ListedNext
<1>7. \A g \in Fd : fdt[g] = c => g = f
  BY <1>1, <1>3, SocketsAssumption DEF TableInv, OneFd
<1>8. ~Listed(c)' /\ \A d \in Conn : d # c => (Listed(d)' <=> Listed(d))
  BY <1>1, <1>3, <1>5, <1>6, <1>7, SocketsAssumption
<1>9. UNCHANGED <<idOf, log, joined, inbox>>
  BY <1>f DEF Unregister, CloseFd
<1>10. /\ \A d \in Conn : d # c => peer'[d] = peer[d]
       /\ peer'[c] = "shut"
  BY <1>f, <1>3 DEF CloseFd
<1>11. Unreachable' = Unreachable
  BY <1>4, <1>10 DEF Unreachable
<1>12. Members[c] \in {"in", "quit"}
  BY <1>4 DEF Members
<1>13. Room!Leave(c)
  BY <1>8, <1>9, <1>11, <1>12, RoomLeaves
<1>14. RoomInv'
  BY <1>9, RoomKept DEF RoomServed
<1>15. ASSUME NEW i \in Slot PROVE Heard(i, Len(log) - Behind(i))'
  <2>1. PICK m : m = Len(log) - Behind(i)
    OBVIOUS
  <2>2. Heard(i, m)
    BY <2>1 DEF RoomServed, HearInv
  <2>3. clients'[i].is_active =>
          /\ clients[i].is_active /\ ConnIn(i)' = ConnIn(i)
          /\ ConnIn(i) \in Conn /\ ConnIn(i) # c
    <3>. SUFFICES ASSUME clients'[i].is_active
                  PROVE  /\ clients[i].is_active /\ ConnIn(i)' = ConnIn(i)
                         /\ ConnIn(i) \in Conn /\ ConnIn(i) # c
      OBVIOUS
    <3>1. clients[i].is_active /\ clients[i].fd # f /\ clients'[i].fd = clients[i].fd
      BY <1>5
    <3>2. Holds(i)
      BY <1>1, <3>1 DEF TableInv, SlotsHold
    <3>. QED BY <1>5, <1>7, <3>1, <3>2 DEF Holds, ConnIn
  <2>4. Heard(i, m)'
    <3>1. CASE clients'[i].is_active
      BY <1>9, <1>10, <2>2, <2>3, <3>1, HeardStays
    <3>2. CASE ~clients'[i].is_active
      BY <3>2 DEF Heard
    <3>. QED BY <3>1, <3>2
  <2>5. (Len(log) - Behind(i))' = m
    BY <1>2, <1>9, <2>1 DEF Behind
  <2>. QED BY <2>4, <2>5
<1>16. HearInv'
  BY <1>15 DEF HearInv
<1>17. OpenListed'
  BY <1>5 DEF RoomServed, OpenListed
<1>18. ByeInv'
  <2>1. \A d \in Conn : SaidBye(d)' <=> SaidBye(d)
    BY <1>9 DEF SaidBye
  <2>. QED BY <1>f, <1>3, <1>8, <2>1 DEF RoomServed, ByeInv
<1>19. ServeInv'
  BY <1>2 DEF ServeInv
<1>. QED BY <1>13, <1>14, <1>16, <1>17, <1>18, <1>19 DEF RoomServed, Room!RoomNext

\* A connection that finds the table full vanishes.
LEMMA RefuseRoom ==
  ASSUME "epoll_ctl" \notin Faults, OwnInv, OwnInv', RoomServed, AcceptAndClose
  PROVE  RoomServed' /\ [Room!RoomNext]_(Room!roomVars)
<1>1. SocketsTypeOK /\ TableTypeOK /\ TableInv /\ SlotsLive
  BY TableSlots DEF OwnInv, EventsInv, TypeInv, TypeOK
<1>2. PICK c \in backlog :
        /\ peer' = [peer EXCEPT ![c] = "shut"]
        /\ UNCHANGED tableVars /\ UNCHANGED <<fdt, inbox>>
  BY DEF AcceptAndClose
<1>3. pc = "dispatch" /\ pc' \in {"wait", "dispatch"}
  BY DEF AcceptAndClose, At, NextEvent
<1>4. c \in Conn /\ peer'[c] = "shut" /\ \A d \in Conn : d # c => peer'[d] = peer[d]
  BY <1>1, <1>2 DEF SocketsTypeOK
<1>5. \A i \in Slot : Behind(i)' = Behind(i)
  BY <1>3 DEF Behind
<1>6. /\ RoomInv' /\ HearInv' /\ OpenListed'
      /\ \A d \in Conn : (Listed(d)' <=> Listed(d)) /\ (SaidBye(d)' <=> SaidBye(d))
  BY <1>1, <1>2, <1>4, <1>5, QuietServed DEF RoomServed
<1>7. ByeInv' /\ ServeInv'
  BY <1>3, <1>6 DEF RoomServed, ByeInv, ServeInv
<1>8. Unreachable' = Unreachable \cup {c}
  BY <1>4 DEF Unreachable
<1>9. Room!Vanish(c)
  BY <1>2, <1>6, <1>8, RoomVanishes DEF tableVars
<1>. QED BY <1>4, <1>6, <1>7, <1>9 DEF RoomServed, Room!RoomNext

\* Every step of the server is a step of the room or none.
LEMMA StepRoom ==
  ASSUME "epoll_ctl" \notin Faults, OwnInv, RoomServed, [Next]_vars
  PROVE  RoomServed' /\ [Room!RoomNext]_(Room!roomVars)
<1>1. OwnInv' /\ SocketsTypeOK /\ TableTypeOK /\ SlotsLive
  BY StepOwn, TableSlots DEF OwnInv, EventsInv, TypeInv, TypeOK
<1>2. ASSUME UNCHANGED tableVars, UNCHANGED <<fdt, inbox, peer>>,
             \A i \in Slot : Behind(i)' = Behind(i),
             \/ pc' \in {"wait", "dispatch"} /\ pc \in {"wait", "dispatch"}
             \/ pc' \in {"wait", "dispatch"} /\ pc = "send" /\ read_size > 0
             \/ pc' = "clean" /\ pc = "send" /\ read_size <= 0 /\ UNCHANGED <<read_size, curr>>
             \/ UNCHANGED loopVars
      PROVE  RoomServed' /\ [Room!RoomNext]_(Room!roomVars)
  <2>1. /\ RoomInv' /\ HearInv' /\ OpenListed'
        /\ \A d \in Conn : (Listed(d)' <=> Listed(d)) /\ (SaidBye(d)' <=> SaidBye(d))
    BY <1>1, <1>2, QuietServed DEF RoomServed
  <2>2. ServeInv'
    BY <1>2 DEF RoomServed, ServeInv, loopVars, tableVars
  <2>3. ByeInv'
    <3>1. read_size \in Int
      BY DEF OwnInv, EventsInv, TypeInv, TypeOK
    <3>. QED BY <1>2, <2>1, <3>1 DEF RoomServed, ByeInv, loopVars
  <2>4. UNCHANGED Room!roomVars
    BY <1>2, <2>1, RoomStutters DEF tableVars, Unreachable
  <2>. QED BY <2>1, <2>2, <2>3, <2>4 DEF RoomServed
<1>3. CASE EpollWait \/ AcceptFails
  <2>1. /\ UNCHANGED sockVars /\ UNCHANGED tableVars
        /\ pc \in {"wait", "dispatch"} /\ pc' \in {"wait", "dispatch"}
    BY <1>3 DEF EpollWait, AcceptFails, At, NextEvent
  <2>. QED BY <1>2, <2>1 DEF sockVars, Behind
<1>4. CASE BroadcastDone
  <2>1. /\ UNCHANGED sockVars /\ UNCHANGED tableVars /\ pc = "send" /\ bi > MaxClients
        /\ \/ read_size > 0 /\ pc' \in {"wait", "dispatch"}
           \/ ~(read_size > 0) /\ pc' = "clean" /\ UNCHANGED <<read_size, curr>>
    BY <1>4 DEF BroadcastDone, At, NextEvent
  <2>2. bi \in Int /\ read_size \in Int /\ MaxClients \in Nat
    BY ChatServerAssumption DEF OwnInv, EventsInv, TypeInv, TypeOK
  <2>3. \A i \in Slot : Behind(i) = 0 /\ Behind(i)' = 0
    BY <2>1, <2>2 DEF Behind, Slot
  <2>. QED BY <1>2, <2>1, <2>2, <2>3 DEF sockVars
<1>5. CASE WaitFails \/ UNCHANGED vars
  <2>1. UNCHANGED tableVars /\ UNCHANGED loopVars /\ UNCHANGED <<fdt, inbox, peer>>
    BY <1>5 DEF WaitFails, vars, sockVars
  <2>. QED BY <1>2, <2>1 DEF Behind, loopVars
<1>6. CASE Accept
  BY <1>1, <1>6, AcceptRoom
<1>7. CASE AcceptAndClose
  BY <1>1, <1>7, RefuseRoom
<1>8. CASE Recv
  BY <1>1, <1>8, RecvRoom
<1>9. CASE BroadcastSend
  BY <1>1, <1>9, SendRoom
<1>10. CASE CleanUp
  BY <1>1, <1>10, CleanRoom
<1>11. CASE ClientNext /\ UNCHANGED <<tableVars, loopVars>>
  BY <1>1, <1>11, ClientRoom
<1>. QED BY <1>3, <1>4, <1>5, <1>6, <1>7, <1>8, <1>9, <1>10, <1>11 DEF Next, Loop

\* Unless epoll_ctl fails, every behaviour of the server is one of the room: its members
\* hear each message of the others once, in the one order, before the next is said, and
\* say nothing after their goodbye.
THEOREM IsOneRoom ==
  ASSUME "epoll_ctl" \notin Faults
  PROVE  Spec => IsChatRoom
<1>1. Init => Room!RoomInit /\ OwnInv /\ RoomServed
  BY RoomStarts, InitOwn, InitServed DEF Init
<1>2. OwnInv /\ RoomServed /\ [Next]_vars
        => OwnInv' /\ RoomServed' /\ [Room!RoomNext]_(Room!roomVars)
  BY StepOwn, StepRoom
<1>. QED BY <1>1, <1>2, PTL DEF Spec, IsChatRoom, Room!RoomSpec
=============================================================================
