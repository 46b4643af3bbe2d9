------------------------------- MODULE MCThread -------------------------------
(* Instances of ThreadServer for TLC. *)
EXTENDS ThreadServer, TLC

CONSTANTS c1, c2, c3

TwoConns == {c1, c2}
ThreeConns == {c1, c2, c3}
Clients == Permutations(Conn)
=============================================================================
