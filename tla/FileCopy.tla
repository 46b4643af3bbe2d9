------------------------------- MODULE FileCopy -------------------------------
(***************************************************************************)
(* What async_io of hw3 promises: every unit of the source goes to its own *)
(* place in the destination, in whatever order, none is overwritten with   *)
(* anything else, and a copy that ends without an error is complete.  A    *)
(* copy that was given up promises nothing.  0 is a place that is not      *)
(* written yet.                                                            *)
(***************************************************************************)
EXTENDS Naturals

CONSTANT file_size

VARIABLES
  dest,   \* the destination file
  over    \* "no", "complete" or "failed"

Missing == {u \in 1 .. file_size : dest[u] # u}

CopyInit ==
  /\ dest = [u \in 1 .. file_size |-> 0]
  /\ over = "no"

\* some of what is missing arrives
Write ==
  /\ over = "no"
  /\ \E S \in SUBSET Missing :
       dest' = [u \in 1 .. file_size |-> IF u \in S THEN u ELSE dest[u]]
  /\ UNCHANGED over

Finish ==
  /\ over = "no" /\ Missing = {}
  /\ over' = "complete" /\ UNCHANGED dest

GiveUp ==
  /\ over = "no"
  /\ over' = "failed" /\ UNCHANGED dest

\* what was still under way ends anywhere
Spoil ==
  /\ over = "failed"
  /\ dest' \in [1 .. file_size -> 0 .. file_size]
  /\ UNCHANGED over

CopySpec == CopyInit /\ [][Write \/ Finish \/ GiveUp \/ Spoil]_<<dest, over>>
=============================================================================
