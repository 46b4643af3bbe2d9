------------------------------- MODULE MCEpoll -------------------------------
(* Instances of EpollServer for TLC. *)
EXTENDS EpollServer, TLC

CONSTANTS c1, c2, c3

TwoConns == {c1, c2}
ThreeConns == {c1, c2, c3}
Clients == Permutations(Conn)
=============================================================================
