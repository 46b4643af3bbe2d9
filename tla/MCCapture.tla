------------------------------- MODULE MCCapture -------------------------------
(***************************************************************************)
(* Instances of Capture for TLC: one sniffer to which MaxFrames frames     *)
(* come, or several on one interface with fewer frames.  Sniffers share    *)
(* the flags of the interface, and each receives frames as if it were      *)
(* alone.                                                                  *)
(***************************************************************************)
EXTENDS Capture, TLC

CONSTANTS
  eth0, eth1,   \* the interface named on the command line and another one
  p1, p2,
  FewFrames     \* bound of the model: frames that arrive when two sniffers are started

Frame(d, n, t, pr, s, to) ==
  [iface |-> d, mine |-> to, len |-> n, type |-> t, proto |-> pr, src |-> s, dst |-> to,
   broken |-> FALSE]

\* complete frames, and frames cut off in each header
All ==
  {Frame(eth0, 3, "ipv4", "udp", FALSE, TRUE),    \* UDP to this host, on either
   Frame(eth1, 3, "ipv4", "udp", FALSE, TRUE),
   Frame(eth0, 3, "ipv4", "tcp", FALSE, FALSE),   \* TCP between others, on either
   Frame(eth1, 3, "ipv4", "tcp", FALSE, FALSE),
   Frame(eth0, 3, "ipv4", "tcp", FALSE, TRUE),    \* TCP to this host
   Frame(eth0, 2, "ipv4", "udp", FALSE, TRUE),    \* its UDP header is cut off
   [Frame(eth0, 2, "ipv4", "udp", FALSE, TRUE) EXCEPT !.broken = TRUE],
   Frame(eth0, 2, "rarp", "ip_others", FALSE, FALSE),
   Frame(eth0, 0, "arp", "ip_others", FALSE, TRUE),
   Frame(eth0, 1, "ipv4", "tcp", FALSE, TRUE)}

Started == {p \in Proc : pc[p] # "start"}
Few == arrived > FewFrames => Cardinality(Started) < 2

MCSpec == CaptureInit /\ [][CaptureNext /\ Few']_<<sockVars, captureVars>>

\* the sniffers are alike
Symmetry == Permutations(Proc)
=============================================================================
