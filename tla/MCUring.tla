------------------------------- MODULE MCUring -------------------------------
(* Instances of UringServer for TLC. *)
EXTENDS UringServer, TLC

CONSTANTS c1, c2, c3

TwoConns == {c1, c2}
ThreeConns == {c1, c2, c3}
Clients == Permutations(Conn)
=============================================================================
