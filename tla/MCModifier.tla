------------------------------ MODULE MCModifier ------------------------------
(* Instances of Modifier, with the sender and the receiver, for TLC. *)
EXTENDS UdpRelay, Integers, TLC

\* the interface named on the command line and another one
CONSTANTS eth0, eth1, p1, p2

Udp(d, b, h, t, u) ==
  [iface |-> d, mine |-> TRUE, out |-> FALSE, bytes |-> b, ip |-> TRUE, v4 |-> TRUE,
   ihl |-> h, frag |-> FALSE, tot |-> t, proto |-> "udp", port |-> TRUE, ulen |-> u,
   doff |-> 0, mods |-> 0]
Tcp(d, b, h, t, o) == [Udp(d, b, h, t, 0) EXCEPT !.proto = "tcp", !.doff = o]

\* header lengths, total lengths and sizes around each of the checks; S: how many
\* bytes follow the IP header
Lengths(S) ==
  {<<h, t, b>> \in (5 .. 6) \X (19 .. 49) \X (13 .. 63) :
     t - 4 * h \in S /\ (b - t \in 13 .. 15 \/ b \in {13, 33})}
    \cup {<<4, 32, 46>>}
Malformed ==
  {Udp(eth0, x[3], x[1], x[2], u) :
     x \in Lengths({-1, 0, 7, 8, 9, 13}), u \in {0, 7, 8, 9, 13}}
    \cup {Tcp(eth0, x[3], x[1], x[2], o) :
            x \in Lengths({19, 20, 21, 24, 25}), o \in 4 .. 6}

\* a frame to modify, and one that is not
Ordinary == {Udp(eth0, 46, 5, 32, 12), [Udp(eth0, 46, 5, 32, 12) EXCEPT !.port = FALSE]}

\* frames that differ from one to modify in one thing
Others ==
  {Tcp(eth0, 60, 5, 46, 5), Udp(eth1, 46, 5, 32, 12),
   [Udp(eth0, 46, 5, 32, 12) EXCEPT !.out = TRUE],
   [Udp(eth0, 46, 5, 32, 12) EXCEPT !.ip = FALSE],
   [Udp(eth0, 46, 5, 32, 12) EXCEPT !.v4 = FALSE],
   [Udp(eth0, 46, 5, 32, 12) EXCEPT !.frag = TRUE],
   [Udp(eth0, 46, 5, 32, 12) EXCEPT !.proto = "other"],
   [Tcp(eth0, 60, 5, 46, 5) EXCEPT !.port = FALSE]}
All == Malformed \cup Ordinary \cup Others \cup {packet}

\* the modifiers are alike
Symmetry == Permutations(Proc)
=============================================================================
