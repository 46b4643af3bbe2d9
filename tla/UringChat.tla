------------------------------- MODULE UringChat -------------------------------
(***************************************************************************)
(* The io_uring server and the programs of its clients.  The clients of    *)
(* Sockets, which may do anything at any time, are replaced by the two     *)
(* threads of client.c.                                                    *)
(***************************************************************************)
EXTENDS UringServer, ChatClient

chatVars == <<vars, clientVars>>

ChatInit == Init /\ ClientInit

ServerStep == (Kernel \/ Loop \/ WaitFails) /\ UNCHANGED clientVars

ClientStep(c) == Process(c) /\ UNCHANGED <<tableVars, ringVars>>

ChatNext == ServerStep \/ \E c \in Conn : ClientStep(c)

ChatSpec == ChatInit /\ [][ChatNext]_chatVars

\* The threads of the clients and the server run, except that a client waits for
\* its user in fgets and may be started at any time; the kernel completes
\* requests.
Progress ==
  /\ WF_chatVars(Loop /\ UNCHANGED clientVars)
  /\ WF_chatVars((KernelAccept \/ KernelAcceptFails) /\ UNCHANGED clientVars)
  /\ \A c \in Conn :
       /\ WF_chatVars(KernelRecv(c) /\ UNCHANGED clientVars)
       /\ WF_chatVars((Spawn(c) \/ Return(c)) /\ UNCHANGED <<tableVars, ringVars>>)
       /\ WF_chatVars(msg_recv_handler(c) /\ UNCHANGED <<tableVars, ringVars>>)

ChatFairSpec == ChatSpec /\ Progress

-----------------------------------------------------------------------------
\* The programs are what UringServer takes clients to be: all they do to their
\* connections is allowed there, and, the assumption its progress rests on, they
\* go on reading, whatever their users do, unless their thread was not started.
ClientsAsAssumed ==
  /\ Spec
  /\ \A c \in Conn : ClientFairness(c) \/ <>Deaf(c)

SomeoneDeaf == \E c \in Conn : Deaf(c)

\* Everything a listed client sent is broadcast in the end, also when the client
\* has left since, unless the server process ends or waits in send for a client
\* that does not read.
EveryByteBroadcast ==
  \A c \in Conn : \A n \in 1 .. MaxSend :
    (Connected(c) /\ sent[c] >= n) ~>
      \/ proc # "running" \/ SomeoneDeaf
      \/ \E k \in DOMAIN log : log[k].src = c /\ log[k].upto >= n

\* A departed client's slot and descriptor are given back in the end, with the
\* same exceptions.
DeparturesCleaned ==
  \A c \in Conn :
    (Connected(c) /\ peer[c] \in {"fin", "rst", "gone"}) ~>
      \/ proc # "running" \/ SomeoneDeaf
      \/ /\ \A f \in Fd : fdt[f] # c
         /\ \A i \in Slot : clients[i].is_active => clients[i].id # idOf[c]
=============================================================================
