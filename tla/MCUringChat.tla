----------------------------- MODULE MCUringChat -----------------------------
(***************************************************************************)
(* Instances of UringChat for TLC: two clients whose users do as they      *)
(* like, and a third, which is started when the table is full and nothing  *)
(* is going on, so that it is turned away.  From then on all users watch:  *)
(* what the programs still do, they do by themselves.  Only steps that     *)
(* wait for a user are left out; no fairness is assumed of any of them.    *)
(***************************************************************************)
EXTENDS UringChat

CONSTANTS c1, c2, c3

Talkers == {c1, c2}
ThreeConns == Talkers \cup {c3}

Quiet == pc = "wait" /\ cq = <<>> /\ \A c \in Talkers : main[c] = "fgets" /\ sent[c] = 0

Watching(c) ==
  /\ sent'[c] = sent[c]
  /\ main'[c] = main[c] \/ main[c] = "spawn" \/ reader[c] = "exit"

LateClient ==
  IF main[c3] = "start"
  THEN main'[c3] = "start" \/ (TableFull /\ Quiet)
  ELSE \A c \in Conn : Watching(c)

MCSpec == ChatInit /\ [][ChatNext /\ LateClient]_chatVars /\ Progress
=============================================================================
