------------------------------ MODULE CopyProgram ------------------------------
(***************************************************************************)
(* main of hw3: HW3_1.c and HW3_2.c copy the input twice to output.txt,    *)
(* first with blocking_io (BlockingCopy, on the variables below) and then  *)
(* with async_io (UringCopy), which truncates what the first one left.     *)
(***************************************************************************)
EXTENDS UringCopy

VARIABLES
  main,   \* the function that runs: "blocking_io" or "async_io"
  bpc, src_pos, dest_pos, read_bytes,
  copied  \* output.txt until async_io opens it

blockingVars == <<bpc, src_pos, dest_pos, read_bytes, copied>>
programVars == <<main, blockingVars, vars>>

Blocking == INSTANCE BlockingCopy WITH pc <- bpc, dest <- copied

ProgramInit == main = "blocking_io" /\ Blocking!Init /\ Init

\* blocking_io returns whether it copied everything or not
Return ==
  /\ main = "blocking_io" /\ bpc = "done"
  /\ main' = "async_io"
  /\ bpc' = "open" /\ src_pos' = 0 /\ dest_pos' = 0 /\ read_bytes' = 0
  /\ copied' = [u \in Unit |-> 0]
  /\ UNCHANGED vars

ProgramNext ==
  \/ main = "blocking_io" /\ Blocking!Next /\ UNCHANGED <<main, vars>>
  \/ Return
  \/ main = "async_io" /\ Next /\ UNCHANGED <<main, blockingVars>>

ProgramSpec == ProgramInit /\ [][ProgramNext]_programVars

\* the thread runs, and the kernel completes every request it was given
ProgramFairSpec ==
  /\ ProgramSpec
  /\ WF_programVars(main = "blocking_io" /\ ProgramNext)
  /\ WF_programVars(main = "async_io" /\ async_io /\ UNCHANGED <<main, blockingVars>>)
  /\ \A b \in Buffer :
       WF_programVars(main = "async_io" /\ Kernel(b) /\ UNCHANGED <<main, blockingVars>>)

-----------------------------------------------------------------------------
\* What blocking_io copies is in order (see BlockingCopy), whatever read() and
\* write() return.
BlockingInOrder == Blocking!InOrder
=============================================================================
