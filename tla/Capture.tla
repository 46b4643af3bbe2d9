-------------------------------- MODULE Capture --------------------------------
(***************************************************************************)
(* HW5_1.c: the three ways of capturing.  mode1 counts the next PACKET_NUM *)
(* frames by type, mode2 shows the next frames with UDP to this host,      *)
(* mode3 those with TCP between other hosts.                               *)
(*                                                                         *)
(* Of a frame the model keeps what the loops look at: len is the number of *)
(* headers (Ethernet, IPv4, transport) it holds completely, type and proto *)
(* what its bytes say, src and dst whether these are my_ip.  proto is read *)
(* from the buffer, where a shorter frame leaves the byte of an older one: *)
(* a frame with len = 1 is one that ends before that byte.  In a broken    *)
(* frame ihl is below the size of the header, by so much that the          *)
(* transport header, looked for inside the IPv4 header, seems complete.    *)
(***************************************************************************)
EXTENDS PacketSocket

CONSTANTS
  Traffic,      \* the frames that may arrive
  Modes,        \* the modes they may be started in
  PACKET_NUM,   \* frames mode1 receives
  SHOWN         \* frames mode2 and mode3 show: 5

Types == {"ipv4", "arp", "rarp", "eth_others"}
Protos == {"tcp", "udp", "icmp", "igmp", "ip_others"}
Counter == Types \cup Protos

ASSUME CaptureAssumption ==
  /\ Modes \subseteq {"mode1", "mode2", "mode3", "none"}
  /\ PACKET_NUM \in Nat /\ SHOWN \in Nat
  /\ \A f \in Traffic : f.mine \in BOOLEAN /\ f.len \in 0 .. 3 /\ f.type \in Types /\ f.proto \in Protos

VARIABLES
  mode,     \* the mode of each sniffer
  i,        \* loop counter of mode1
  buffer,   \* the protocol byte in the buffer
  count,    \* the counters of mode1
  shown,    \* the frames mode2 and mode3 have printed
  got,      \* history: all frames recvfrom returned
  failed    \* history: whether it failed

captureVars == <<mode, i, buffer, count, shown, got, failed>>

\* the buffer is not initialised
CaptureInit ==
  /\ SocketInit
  /\ mode \in [Proc -> Modes]
  /\ i = [p \in Proc |-> 0]
  /\ buffer \in [Proc -> {"udp", "ip_others"}]
  /\ count = [p \in Proc |-> [k \in Counter |-> 0]]
  /\ shown = [p \in Proc |-> <<>>]
  /\ got = [p \in Proc |-> <<>>]
  /\ failed = [p \in Proc |-> FALSE]

-----------------------------------------------------------------------------
\* SIOCGIFADDR
GetAddress(p) ==
  /\ pc[p] = "address"
  /\ \/ Goto(p, "getflags")
     \/ "ioctl" \in Faults /\ End(p, "exited")
  /\ UNCHANGED <<flagVars, bound, arrived>>

\* the loop goes on
Captures(p) ==
  \/ mode[p] = "mode1" /\ i[p] < PACKET_NUM
  \/ mode[p] \in {"mode2", "mode3"} /\ Len(shown[p]) < SHOWN

\* recvfrom() < 0 ends it
recvfrom_fails(p) ==
  /\ Captures(p) /\ RecvFails(p)
  /\ failed' = [failed EXCEPT ![p] = TRUE]
  /\ UNCHANGED <<mode, i, buffer, count, shown, got>>

recvfrom(p, f) ==
  /\ Captures(p) /\ CanReceive(p) /\ f = Oldest(p)
  /\ queue' = [queue EXCEPT ![p] = Tail(@)]
  /\ buffer' = [buffer EXCEPT ![p] = IF f.len >= 2 THEN f.proto ELSE @]
  /\ got' = [got EXCEPT ![p] = Append(@, f)]
  /\ UNCHANGED <<flagVars, pc, bound, arrived, failed>>

\* mutant: ARP and RARP are told apart after they were counted together
RaisesTwice(f, b) ==
  IF f.len = 0 THEN {}
  ELSE {f.type} \cup (IF f.type = "ipv4" THEN {b} ELSE {})
         \cup (IF f.type = "rarp" THEN {"arp"} ELSE {})

\* the counters a frame raises, when the byte at the place of the protocol is b
Raises(f, b) ==
  IF f.len = 0 THEN {} ELSE {f.type} \cup (IF f.type = "ipv4" THEN {b} ELSE {})

run_mode1(p) ==
  /\ mode[p] = "mode1"
  /\ \E f \in Traffic :
       /\ recvfrom(p, f)
       /\ count' = [count EXCEPT ![p] = [k \in Counter |->
            @[k] + (IF k \in Raises(f, buffer'[p]) THEN 1 ELSE 0)]]
  /\ i' = [i EXCEPT ![p] = @ + 1]
  /\ UNCHANGED <<mode, shown>>

\* mutant: mode2 does not look whether the UDP header is complete, and mode3
\* leaves out only what this host sends
WantedLoosely(p, f) ==
  /\ f.len >= 2 /\ f.type = "ipv4"
  /\ \/ mode[p] = "mode2" /\ f.proto = "udp" /\ f.dst
     \/ mode[p] = "mode3" /\ f.proto = "tcp" /\ ~f.src

\* the frame passes the checks of the loop
Wanted(p, f) ==
  /\ f.len = 3 \/ (f.len = 2 /\ f.broken)
  /\ f.type = "ipv4"
  /\ \/ mode[p] = "mode2" /\ f.proto = "udp" /\ f.dst
     \/ mode[p] = "mode3" /\ f.proto = "tcp" /\ ~f.src /\ ~f.dst

run_mode23(p) ==
  /\ mode[p] \in {"mode2", "mode3"}
  /\ \E f \in Traffic :
       /\ recvfrom(p, f)
       /\ shown' = [shown EXCEPT ![p] = IF Wanted(p, f) THEN Append(@, f) ELSE @]
  /\ UNCHANGED <<mode, i, count>>

\* the loop is over, or the mode is none of the three
LoopEnds(p) ==
  /\ pc[p] = "run" /\ ~Captures(p)
  /\ Goto(p, "restore")
  /\ UNCHANGED <<flagVars, bound, arrived>>

\* the total mode1 prints after its loop, however that ended
total_captured == PACKET_NUM

Setup(p) == OpenSocket(p, "address") \/ GetAddress(p)

CaptureNext ==
  \/ ArriveOf(Traffic) /\ UNCHANGED captureVars
  \/ \E p \in Proc :
       \/ (Setup(p) \/ Sniffer(p) \/ LoopEnds(p)) /\ UNCHANGED captureVars
       \/ run_mode1(p) \/ run_mode23(p) \/ recvfrom_fails(p)

CaptureSpec == CaptureInit /\ [][CaptureNext]_<<sockVars, captureVars>>

-----------------------------------------------------------------------------
\* a frame is of the kind its own bytes say, as far as it has them
IsOf(f, k) ==
  \/ f.len >= 1 /\ k = f.type
  \/ f.len >= 2 /\ f.type = "ipv4" /\ k = f.proto

Received(p, F) == Cardinality({n \in DOMAIN got[p] : got[p][n] \in F})

OfKind(k) == {f \in Traffic : IsOf(f, k)}

\* IPv4 frames that end before their protocol byte
CutOff == {f \in Traffic : f.len = 1 /\ f.type = "ipv4"}

\* frames shorter than an Ethernet header
Short == {f \in Traffic : f.len = 0}

\* Every counter of mode1 is the number of frames of that kind among those
\* received, but for IPv4 frames cut off before their protocol byte: they count
\* as what an older frame left in the buffer.  Every frame received is counted once,
\* but for those shorter than an Ethernet header, and the protocols add up to the
\* IPv4 frames.  And "Total captured packets: %d" (HW5_1.c:80) is the number of
\* frames received exactly if the loop ended by itself: after an error of recvfrom
\* (HW5_1.c:33-36) it is more.
CountsAreOfFrames ==
  \A p \in Proc : mode[p] = "mode1" =>
    /\ \A k \in Counter :
         LET n == Received(p, OfKind(k)) IN
         count[p][k] \in n .. n + (IF k \in Protos THEN Received(p, CutOff) ELSE 0)
    /\ Received(p, Traffic) =
         count[p]["ipv4"] + count[p]["arp"] + count[p]["rarp"] + count[p]["eth_others"]
           + Received(p, Short)
    /\ count[p]["ipv4"] = count[p]["tcp"] + count[p]["udp"] + count[p]["icmp"] + count[p]["igmp"]
                            + count[p]["ip_others"]
    /\ pc[p] = "restore" =>
         IF failed[p] THEN total_captured > Received(p, Traffic)
         ELSE total_captured = Received(p, Traffic)

\* the frames each mode is about, from their own contents
About(p, f) ==
  /\ f.type = "ipv4"
  /\ CASE mode[p] = "mode2" -> f.proto = "udp" /\ f.dst
       [] mode[p] = "mode3" -> f.proto = "tcp" /\ ~(f.src \/ f.dst)
       [] OTHER -> FALSE

\* the members of F among the first n of s, in order, for each n
KeptOf(s, F) ==
  LET kept[n \in 0 .. Len(s)] ==
        IF n = 0 THEN <<>>
        ELSE IF s[n] \in F THEN Append(kept[n - 1], s[n]) ELSE kept[n - 1]
  IN kept
Kept(s, F) == KeptOf(s, F)[Len(s)]

\* frames with an IPv4 header of a possible size, and those of them to show
Sound == {f \in Traffic : ~f.broken}
Due(p) == {f \in Sound : f.len = 3 /\ About(p, f)}

\* mode2 and mode3 show the complete frames they are about, all that were received
\* and in order.  "packet length must longer than ethernet header + ipv4 header + udp
\* header" (HW5_1.c:140) does not hold of broken frames: their ports are shown from
\* inside the IPv4 header, and only theirs.
ShownInOrder ==
  \A p \in Proc :
    /\ Kept(shown[p], Sound) = Kept(got[p], Due(p))
    /\ \A n \in DOMAIN shown[p] : About(p, shown[p][n])
=============================================================================
