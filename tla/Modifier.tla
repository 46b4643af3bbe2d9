------------------------------- MODULE Modifier -------------------------------
(***************************************************************************)
(* HW5_1_5.c: a sniffer that overwrites the payload of every UDP and TCP   *)
(* packet to a port, puts the checksums right and sends the packet out of  *)
(* the interface again.  Several modifiers may run on one interface; each  *)
(* sees what the others send.                                              *)
(*                                                                         *)
(* Of a frame the model keeps the length (bytes), the fields the checks    *)
(* read (ip: the type is IPv4; v4: so is the version; ihl, tot, frag,      *)
(* proto, port, doff, ulen), pkttype out (PACKET_OUTGOING), and in mods    *)
(* how often its payload has been replaced.  Bytes are numbered from 1.    *)
(***************************************************************************)
EXTENDS PacketSocket, Checksum

CONSTANTS
  Frames,     \* the frames that may arrive
  Loopback,   \* the interface hands what is sent on it back as received
  MaxLog      \* bound of the model: how many frames are sent

VARIABLE log   \* history: what each modifier did to the frames it sent

vars == <<sockVars, log>>

BUFFER_SIZE == 65536

\* the sizes of struct ethhdr, iphdr, udphdr, tcphdr and pseudo_header
ethhdr == 14
iphdr == 20
udphdr == 8
tcphdr == 20
pseudo_header == 12

Fields ==
  [iface : {g.iface : g \in Frames} \cup {Device}, mine : BOOLEAN, out : BOOLEAN,
   ip : BOOLEAN, v4 : BOOLEAN, frag : BOOLEAN, port : BOOLEAN,
   proto : {"udp", "tcp", "other"}, bytes : Nat, ihl : Nat, tot : Nat, ulen : Nat,
   doff : Nat, mods : Nat]

\* fields of 4 and of 16 bits, in a frame that fits the buffer
Fits(f) ==
  /\ f.ihl < 16 /\ f.doff < 16
  /\ f.tot < 65536 /\ f.ulen < 65536
  /\ f.bytes <= BUFFER_SIZE

Frame == {f \in Fields : Fits(f)}

\* what arrives has the fields a frame has, and no payload was replaced yet
ASSUME ModifierAssumption ==
  /\ Loopback \in BOOLEAN /\ MaxLog \in Nat
  /\ Frames \subseteq {f \in Frame : f.mods = 0}

Init == SocketInit /\ log = [p \in Proc |-> <<>>]

-----------------------------------------------------------------------------
ip_hdr_len(f) == 4 * f.ihl

\* mutant: the frames this host sends are modified too
AcceptsOutgoing(f) ==
  /\ f.ip /\ f.bytes >= ethhdr + iphdr
  /\ f.v4 /\ ip_hdr_len(f) >= iphdr /\ f.bytes >= ethhdr + ip_hdr_len(f)
  /\ ~f.frag
  /\ f.tot >= ip_hdr_len(f) /\ f.bytes >= ethhdr + f.tot

\* the checks of the Ethernet and the IPv4 header
AcceptsIp(f) ==
  /\ ~f.out
  /\ f.bytes >= ethhdr
  /\ f.ip
  /\ f.bytes >= ethhdr + iphdr
  /\ f.v4
  /\ ip_hdr_len(f) >= iphdr
  /\ f.bytes >= ethhdr + ip_hdr_len(f)
  /\ ~f.frag
  /\ f.tot >= ip_hdr_len(f)
  /\ f.bytes >= ethhdr + f.tot

\* the UDP or TCP header: its length, and the length of it with the payload
hdr_len(f) == IF f.proto = "udp" THEN udphdr ELSE 4 * f.doff
total_len(f) == IF f.proto = "udp" THEN f.ulen ELSE f.tot - ip_hdr_len(f)
payload_len(f) == total_len(f) - hdr_len(f)

\* mutant: the length in the UDP header is believed
AcceptsUdpTrusting(f) ==
  /\ f.proto = "udp"
  /\ f.tot >= ip_hdr_len(f) + udphdr
  /\ f.port
  /\ f.ulen > udphdr

AcceptsUdp(f) ==
  /\ f.proto = "udp"
  /\ f.tot >= ip_hdr_len(f) + udphdr
  /\ f.port
  /\ f.ulen >= udphdr
  /\ f.tot >= ip_hdr_len(f) + f.ulen
  /\ payload_len(f) > 0

AcceptsTcp(f) ==
  /\ f.proto = "tcp"
  /\ f.tot >= ip_hdr_len(f) + tcphdr
  /\ f.port
  /\ hdr_len(f) >= tcphdr
  /\ f.tot >= ip_hdr_len(f) + hdr_len(f)
  /\ payload_len(f) > 0

Accepts(f) == AcceptsIp(f) /\ (AcceptsUdp(f) \/ AcceptsTcp(f))

-----------------------------------------------------------------------------
\* the bytes of a field of n bytes that begins after the first k
Field(k, n) == (k + 1) .. (k + n)

th(f) == ethhdr + ip_hdr_len(f)

payload(f) == Field(th(f) + hdr_len(f), payload_len(f))

\* ip->check, and udp->check or tcp->check
ip_check == Field(ethhdr + 10, 2)
th_check(f) == Field(th(f) + IF f.proto = "udp" THEN 6 ELSE 16, 2)

\* the bytes checksum() and transport_checksum() add up, next to the pseudo header
ip_summed(f) == Field(ethhdr, ip_hdr_len(f))
th_summed(f) == Field(th(f), total_len(f))

\* mutant: the size of the buffer is sent
SentBuffer(f) == ethhdr + BUFFER_SIZE

\* what is sent of the buffer
sent_len(f) == ethhdr + f.tot

Entry(f) ==
  [frame |-> f, wrote |-> payload(f) \cup ip_check \cup th_check(f),
   summed |-> ip_summed(f) \cup th_summed(f), sent |-> sent_len(f)]

Skip(p) ==
  /\ CanReceive(p) /\ ~Accepts(Oldest(p))
  /\ queue' = [queue EXCEPT ![p] = Tail(@)]
  /\ UNCHANGED <<flagVars, pc, bound, arrived, log>>

\* what the others see of the frame f that was modified and sent
Resent(f) ==
  [f EXCEPT !.iface = Device, !.bytes = sent_len(f), !.out = TRUE, !.mods = @ + 1]

\* a socket is not shown what it sent itself, but the loopback interface brings
\* it back to all as a frame that is received
AfterSend(p, q, f) ==
  LET seen == Delivered(q, f, Proc \ {p})
  IN IF Loopback THEN Delivered(seen, [f EXCEPT !.out = FALSE], Proc) ELSE seen

\* done: sendto() succeeds
ModifyAnd(p, done) ==
  /\ CanReceive(p) /\ Accepts(Oldest(p))
  /\ Len(log[p]) < MaxLog
  /\ log' = [log EXCEPT ![p] = Append(@, Entry(Oldest(p)))]
  /\ LET rest == [queue EXCEPT ![p] = Tail(@)]
     IN \/ done /\ queue' = AfterSend(p, rest, Resent(Oldest(p)))
        \/ ~done /\ "send" \in Faults /\ queue' = rest
  /\ UNCHANGED <<flagVars, pc, bound, arrived>>

Modify(p) == \E done \in BOOLEAN : ModifyAnd(p, done)

Next ==
  \/ ArriveOf(Frames) /\ UNCHANGED log
  \/ \E p \in Proc :
       \/ (OpenSocket(p, "getflags") \/ Sniffer(p) \/ RecvFails(p)) /\ UNCHANGED log
       \/ Skip(p) \/ Modify(p)

Spec == Init /\ [][Next]_vars

-----------------------------------------------------------------------------
\* what comes before the payload
Headers(f) == Field(0, ethhdr + ip_hdr_len(f) + hdr_len(f))

Logged == UNION {{log[p][n] : n \in DOMAIN log[p]} : p \in Proc}

LogEntry ==
  [frame : Frame, wrote : SUBSET Nat, summed : SUBSET Nat, sent : Nat]

TypeOK ==
  /\ SocketTypeOK(Frame)
  /\ log \in [Proc -> Seq(LogEntry)]
  /\ \A p \in Proc : Len(log[p]) <= MaxLog

\* Whatever the lengths in the frame say, what is written lies in the part that
\* is sent, what is sent was received (nothing of an older frame in the buffer
\* goes out), and what is changed is under a checksum that was made anew, so
\* that the packet is accepted where it goes; of the headers, options included,
\* only the checksums change; and the pseudo header and what transport_checksum
\* copies behind it never exceed its buffer.
InBounds ==
  \A e \in Logged :
    /\ e.wrote \subseteq e.summed
    /\ e.summed \subseteq 1 .. e.sent
    /\ e.sent <= e.frame.bytes
    /\ e.wrote \cap Headers(e.frame) = ip_check \cup th_check(e.frame)
    /\ pseudo_header + total_len(e.frame) <= BUFFER_SIZE

\* Every packet that is sent is accepted where it goes: the result of checksum()
\* over its headers, of an even length, and over its transport part verifies, of
\* whatever length and with however many carries (HW5_1_5.c:285-288).
ChecksumsVerify ==
  \A e \in Logged : Verifies[0] /\ Verifies[total_len(e.frame) % 2]

\* No frame is modified again, by the same or by another modifier.
ModifiedOnce == \A e \in Logged : e.frame.mods = 0
=============================================================================
