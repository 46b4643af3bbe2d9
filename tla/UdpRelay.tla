------------------------------- MODULE UdpRelay -------------------------------
(***************************************************************************)
(* The demonstration of hw5: Sender.c sends one UDP packet to Receiver.c,  *)
(* while the modifiers of HW5_1_5.c, on a host that needs promiscuous mode *)
(* to see it, send altered copies after it.                                *)
(***************************************************************************)
EXTENDS Modifier

VARIABLES
  sent,        \* the sender has called sendto(), or failed before
  receiver,    \* where the receiver is: "start", "run" or "exited"
  inbox,       \* the datagrams in the queue of its socket: how often the payload
               \* was replaced, and the bytes of it
  printed        \* the datagrams it has printed

relayVars == <<sent, receiver, inbox, printed>>

data_len == 19   \* strlen("oooi, shia mi shi i")
packet_len == iphdr + udphdr + data_len

Packet(ulen) ==
  [iface |-> Device, mine |-> FALSE, out |-> FALSE, bytes |-> ethhdr + packet_len,
   ip |-> TRUE, v4 |-> TRUE, ihl |-> 5, tot |-> packet_len, frag |-> FALSE,
   proto |-> "udp", port |-> TRUE, ulen |-> ulen, doff |-> 0, mods |-> 0]

\* mutant: the length in the UDP header is that of the message
packetOfMessage == Packet(data_len)

packet == Packet(udphdr + data_len)

\* the packet, or a copy of it
IsPacket(f) == f.proto = "udp" /\ f.tot = packet.tot /\ f.ulen = packet.ulen

\* the sender's packet may arrive, and no other host sends one like it
ASSUME UdpRelayAssumption ==
  packet \in Frames /\ \A f \in Frames : IsPacket(f) => f = packet

RelayInit ==
  /\ Init
  /\ sent = FALSE
  /\ receiver = "start"
  /\ inbox = <<>> /\ printed = <<>>

-----------------------------------------------------------------------------
\* The kernel of the receiver takes a packet whose lengths agree, and leaves in
\* the queue the payload its UDP header tells.
Deliverable(f) ==
  /\ f.ip /\ f.v4 /\ ip_hdr_len(f) >= iphdr
  /\ f.bytes >= ethhdr + f.tot
  /\ f.tot >= ip_hdr_len(f) + f.ulen
  /\ f.ulen >= udphdr

Reach(f) ==
  inbox' = IF receiver = "run" /\ Deliverable(f)
           THEN Append(inbox, [mods |-> f.mods, bytes |-> f.ulen - udphdr])
           ELSE inbox

\* the sender's main(): nobody sees what it does before sendto()
Sendto ==
  /\ ~sent /\ sent' = TRUE
  /\ \/ /\ Reach(packet)
        /\ IF promisc THEN ArriveOf({packet}) /\ UNCHANGED log ELSE UNCHANGED vars
     \/ "send" \in Faults /\ UNCHANGED <<vars, inbox>>
  /\ UNCHANGED <<receiver, printed>>

\* the receiver: socket() and bind()
Listen ==
  /\ receiver = "start"
  /\ \/ receiver' = "run"
     \/ "bind" \in Faults /\ receiver' = "exited"
  /\ UNCHANGED <<vars, sent, inbox, printed>>

\* its recvfrom(), and what it prints
Show ==
  /\ receiver = "run" /\ inbox # <<>>
  /\ inbox' = Tail(inbox) /\ printed' = Append(printed, Head(inbox))
  /\ UNCHANGED <<vars, sent, receiver>>

\* its recvfrom() fails: the loop and the program end
ShowFails ==
  /\ receiver = "run" /\ "recv" \in Faults
  /\ receiver' = "exited" /\ inbox' = <<>>
  /\ UNCHANGED <<vars, sent, printed>>

\* a modifier's step, and where the copy it sends goes
Forward(p, done) ==
  /\ ModifyAnd(p, done)
  /\ IF done /\ IsPacket(Oldest(p)) THEN Reach(Resent(Oldest(p)))
                                    ELSE UNCHANGED inbox
  /\ UNCHANGED <<sent, receiver, printed>>

\* what does not concern the packet
Elsewhere ==
  /\ \/ ArriveOf(Frames \ {packet}) /\ UNCHANGED log
     \/ \E p \in Proc :
          \/ (OpenSocket(p, "getflags") \/ Sniffer(p) \/ RecvFails(p)) /\ UNCHANGED log
          \/ Skip(p)
  /\ UNCHANGED relayVars

RelayNext ==
  \/ Sendto \/ Listen \/ Show \/ ShowFails \/ Elsewhere
  \/ \E p \in Proc, done \in BOOLEAN : Forward(p, done)

RelaySpec == RelayInit /\ [][RelayNext]_<<vars, relayVars>>

-----------------------------------------------------------------------------
\* What the receiver prints of the one packet is the whole message, as it was sent
\* or replaced by one modifier ("modify_payload_same_length", HW5_1_5.c): the
\* message itself at most once and before any copy, and of each modifier at most
\* one copy, however many run and whenever the receiver began to listen.
Relayed ==
  /\ \A n \in DOMAIN printed : printed[n].mods \in {0, 1} /\ printed[n].bytes = data_len
  /\ \A m, n \in DOMAIN printed : m < n => printed[n].mods = 1
  /\ Len(printed) <= 1 + Cardinality(Proc)
=============================================================================
