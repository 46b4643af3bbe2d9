------------------------------ MODULE UringCopy ------------------------------
(***************************************************************************)
(* async_io of hw3 (HW3_1.c and HW3_2.c): one thread copies a file by      *)
(* keeping up to ENTRY blocks under way, each in its own buffer, first as  *)
(* a read and then as a write at the same offset.  The kernel completes    *)
(* the requests in any order.                                              *)
(*                                                                         *)
(* The unit of data is a fraction of a block: a block has SIZE units, the  *)
(* k-th unit of the source file is the number k, and 0 is a hole or an     *)
(* unused place of a buffer.                                               *)
(***************************************************************************)
EXTENDS Integers, FiniteSets, Sequences

CONSTANTS
  SIZE,        \* units in a block
  ENTRY,       \* buffers, and the size asked for the ring
  file_size,   \* units in the source file, as fstat reported it
  Faults       \* what may go wrong: a subset of AllFaults

\* "short": a read or a write ends early; "fail": it returns 0 or an error;
\* "submit": io_uring_submit takes nothing; "wait": io_uring_wait_cqe fails;
\* "open": a file cannot be opened; "read", "write": those of BlockingCopy
AllFaults == {"open", "short", "fail", "submit", "wait", "read", "write"}

ASSUME UringCopyAssumption ==
  /\ SIZE \in Nat \ {0} /\ ENTRY \in Nat \ {0} /\ file_size \in Nat
  /\ Faults \subseteq AllFaults

VARIABLES
  pc,                \* "open", "fill", "submit", "wait", and then "done", or
                     \* "failed" after an error
  i,                 \* loop counter of the fill loop
  read_offset, bytes_written, active_reqs, submit_this_round,
  buffer_in_use,     \* per buffer
  info,              \* per buffer: op_type (0 read, 1 write) and offset
  len,               \* per buffer: the length in its sqe
  buffers,           \* the units in each buffer
  sq,                \* requests prepared and not submitted
  inflight,          \* requests the kernel holds
  cq,                \* completions not seen yet: buffer and result
  dest               \* the destination file

vars == <<pc, i, read_offset, bytes_written, active_reqs, submit_this_round,
          buffer_in_use, info, len, buffers, sq, inflight, cq, dest>>

Buffer == 1 .. ENTRY
Unit == 1 .. file_size

\* while(bytes_written < file_size || active_reqs > 0), for their new values
LoopTest ==
  IF bytes_written' < file_size \/ active_reqs' > 0
  THEN pc' = "fill" /\ i' = 1 /\ submit_this_round' = 0
  ELSE pc' = "done" /\ UNCHANGED <<i, submit_this_round>>

Init ==
  /\ pc = "open"
  /\ i = 1 /\ read_offset = 0 /\ bytes_written = 0
  /\ active_reqs = 0 /\ submit_this_round = 0
  /\ buffer_in_use = [b \in Buffer |-> 0]
  /\ info = [b \in Buffer |-> [op_type |-> 0, offset |-> 0]]
  /\ len = [b \in Buffer |-> 0]
  /\ buffers = [b \in Buffer |-> [u \in 1 .. SIZE |-> 0]]
  /\ sq = {} /\ inflight = {} /\ cq = <<>>
  /\ dest = [u \in Unit |-> 0]

-----------------------------------------------------------------------------
(* The kernel *)

\* results a request for n units can have
Results(n) ==
  {n} \cup (IF "short" \in Faults THEN 1 .. n - 1 ELSE {})
      \cup (IF "fail" \in Faults THEN {0, -1} ELSE {})

CompleteRead(b) ==
  /\ b \in inflight /\ info[b].op_type = 0
  /\ \E r \in Results(len[b]) :
       /\ buffers' = [buffers EXCEPT ![b] =
            [u \in 1 .. SIZE |-> IF u <= r THEN info[b].offset + u ELSE @[u]]]
       /\ cq' = Append(cq, [buf |-> b, res |-> r])
  /\ inflight' = inflight \ {b}
  /\ UNCHANGED <<pc, i, read_offset, bytes_written, active_reqs,
                 submit_this_round, buffer_in_use, info, len, sq, dest>>

\* what the kernel finds in a buffer: anything, once async_io has freed it
Content(b) ==
  IF pc \in {"done", "failed"} THEN [1 .. SIZE -> 0 .. file_size] ELSE {buffers[b]}

CompleteWrite(b) ==
  /\ b \in inflight /\ info[b].op_type = 1
  /\ \E r \in Results(len[b]), data \in Content(b) :
       /\ dest' = [u \in Unit |->
            IF u - info[b].offset \in 1 .. r THEN data[u - info[b].offset]
            ELSE dest[u]]
       /\ cq' = Append(cq, [buf |-> b, res |-> r])
  /\ inflight' = inflight \ {b}
  /\ UNCHANGED <<pc, i, read_offset, bytes_written, active_reqs,
                 submit_this_round, buffer_in_use, info, len, buffers, sq>>

-----------------------------------------------------------------------------
(* async_io *)

\* open(), open() and fstat(); the loop is not entered for an empty file
Open ==
  /\ pc = "open"
  /\ \/ pc' = IF file_size > 0 THEN "fill" ELSE "done"
     \/ "open" \in Faults /\ pc' = "failed"
  /\ UNCHANGED <<i, read_offset, bytes_written, active_reqs, submit_this_round,
                 buffer_in_use, info, len, buffers, sq, inflight, cq, dest>>

\* the ring holds at least ENTRY requests; io_uring_get_sqe is NULL when all
\* of them are prepared and none is submitted
SqFull == Cardinality(sq) >= ENTRY

Smaller(m, n) == IF m < n THEN m ELSE n

\* one round of the fill loop
Fill ==
  /\ pc = "fill" /\ i <= ENTRY /\ read_offset < file_size
  /\ IF buffer_in_use[i] = 1
     THEN i' = i + 1 /\ UNCHANGED <<pc, read_offset, active_reqs,
                        submit_this_round, buffer_in_use, info, len, sq>>
     ELSE IF SqFull
     THEN pc' = "submit" /\ UNCHANGED <<i, read_offset, active_reqs,
                            submit_this_round, buffer_in_use, info, len, sq>>
     ELSE LET n == Smaller(SIZE, file_size - read_offset) IN
          /\ sq' = sq \cup {i}
          /\ len' = [len EXCEPT ![i] = n]
          /\ info' = [info EXCEPT ![i] = [op_type |-> 0, offset |-> read_offset]]
          /\ read_offset' = read_offset + n
          /\ buffer_in_use' = [buffer_in_use EXCEPT ![i] = 1]
          /\ active_reqs' = active_reqs + 1
          /\ submit_this_round' = submit_this_round + 1
          /\ i' = i + 1 /\ UNCHANGED pc
  /\ UNCHANGED <<bytes_written, buffers, inflight, cq, dest>>

FillEnd ==
  /\ pc = "fill" /\ (i > ENTRY \/ read_offset = file_size)
  /\ pc' = "submit"
  /\ UNCHANGED <<i, read_offset, bytes_written, active_reqs, submit_this_round,
                 buffer_in_use, info, len, buffers, sq, inflight, cq, dest>>

\* io_uring_submit, whose result nobody looks at, for the requests in new
io_uring_submit(new) ==
  \/ inflight' = inflight \cup new /\ sq' = {}
  \/ "submit" \in Faults /\ sq' = new /\ UNCHANGED inflight

Submit ==
  /\ pc = "submit"
  /\ IF submit_this_round > 0 THEN io_uring_submit(sq)
     ELSE UNCHANGED <<sq, inflight>>
  /\ UNCHANGED <<bytes_written, active_reqs>>
  /\ IF active_reqs > 0
     THEN pc' = "wait" /\ UNCHANGED <<i, submit_this_round>>
     ELSE LoopTest
  /\ UNCHANGED <<read_offset, buffer_in_use, info, len, buffers, cq, dest>>

Seen(b, r) == pc = "wait" /\ cq # <<>> /\ Head(cq) = [buf |-> b, res |-> r]

Release(b) ==
  /\ buffer_in_use' = [buffer_in_use EXCEPT ![b] = 0]
  /\ active_reqs' = active_reqs - 1

\* mutant: the buffer is free again as soon as its write is submitted
FreeEarly(b, r) ==
  /\ Seen(b, r) /\ info[b].op_type = 0
  /\ IF r > 0
     THEN /\ info' = [info EXCEPT ![b].op_type = 1]
          /\ len' = [len EXCEPT ![b] = r]
          /\ io_uring_submit(sq \cup {b})
     ELSE UNCHANGED <<info, len, sq, inflight>>
  /\ Release(b)
  /\ cq' = Tail(cq)
  /\ UNCHANGED <<read_offset, bytes_written, buffers, dest>>
  /\ LoopTest

\* mutant: a read that brought nothing is given up, its buffer is not
KeepBuffer(b, r) ==
  /\ Seen(b, r) /\ info[b].op_type = 0
  /\ IF r > 0
     THEN /\ info' = [info EXCEPT ![b].op_type = 1]
          /\ len' = [len EXCEPT ![b] = r]
          /\ io_uring_submit(sq \cup {b})
          /\ UNCHANGED active_reqs
     ELSE UNCHANGED <<info, len, sq, inflight>> /\ active_reqs' = active_reqs - 1
  /\ cq' = Tail(cq)
  /\ UNCHANGED <<buffer_in_use, read_offset, bytes_written, buffers, dest>>
  /\ LoopTest

\* a read is done: its buffer is written, or given up when nothing was read
ReadDone(b, r) ==
  /\ Seen(b, r) /\ info[b].op_type = 0
  /\ IF r > 0
     THEN /\ UNCHANGED <<buffer_in_use, active_reqs>>
          /\ IF SqFull
             THEN UNCHANGED <<info, len, sq, inflight>>
             ELSE /\ info' = [info EXCEPT ![b].op_type = 1]
                  /\ len' = [len EXCEPT ![b] = r]
                  /\ io_uring_submit(sq \cup {b})
     ELSE Release(b) /\ UNCHANGED <<info, len, sq, inflight>>
  /\ cq' = Tail(cq)
  /\ UNCHANGED <<read_offset, bytes_written, buffers, dest>>
  /\ LoopTest

\* mutant: what was asked for is counted as written
CountRequested(b, r) ==
  /\ Seen(b, r) /\ info[b].op_type = 1
  /\ bytes_written' = bytes_written + len[b]
  /\ Release(b)
  /\ cq' = Tail(cq)
  /\ UNCHANGED <<read_offset, info, len, buffers, sq, inflight, dest>>
  /\ LoopTest

\* mutant: the request stays counted as active
StillActive(b, r) ==
  /\ Seen(b, r) /\ info[b].op_type = 1
  /\ bytes_written' = bytes_written + (IF r > 0 THEN r ELSE 0)
  /\ buffer_in_use' = [buffer_in_use EXCEPT ![b] = 0]
  /\ cq' = Tail(cq)
  /\ UNCHANGED <<active_reqs, read_offset, info, len, buffers, sq, inflight, dest>>
  /\ LoopTest

WriteDone(b, r) ==
  /\ Seen(b, r) /\ info[b].op_type = 1
  /\ bytes_written' = bytes_written + (IF r > 0 THEN r ELSE 0)
  /\ Release(b)
  /\ cq' = Tail(cq)
  /\ UNCHANGED <<read_offset, info, len, buffers, sq, inflight, dest>>
  /\ LoopTest

\* io_uring_wait_cqe() < 0: the loop is left, the buffers are freed
WaitFails ==
  /\ pc = "wait" /\ "wait" \in Faults
  /\ pc' = "failed"
  /\ UNCHANGED <<i, read_offset, bytes_written, active_reqs, submit_this_round,
                 buffer_in_use, info, len, buffers, sq, inflight, cq, dest>>

-----------------------------------------------------------------------------
Kernel(b) == CompleteRead(b) \/ CompleteWrite(b)

async_io ==
  \/ Open \/ Fill \/ FillEnd \/ Submit
  \/ \E b \in Buffer, r \in -1 .. SIZE : ReadDone(b, r) \/ WriteDone(b, r)

Next == (\E b \in Buffer : Kernel(b)) \/ async_io \/ WaitFails

Spec == Init /\ [][Next]_vars

-----------------------------------------------------------------------------
(* Properties *)

Written == {u \in Unit : dest[u] # 0}

\* Every buffer in use is in exactly one hand: prepared, in the kernel, or
\* completed and not seen.  No request is forgotten, not even when a submit
\* takes nothing, so the branch of "if(sqe)" without an else is never needed.
\* And active_reqs is their number, so that no request can write to the buffers
\* that are freed when the loop ends by its own condition.
EachInOneHand ==
  /\ \A b \in Buffer :
       buffer_in_use[b]
         = Cardinality({k \in DOMAIN cq : cq[k].buf = b})
             + (IF b \in sq THEN 1 ELSE 0) + (IF b \in inflight THEN 1 ELSE 0)
  /\ pc # "failed" => active_reqs = Cardinality({b \in Buffer : buffer_in_use[b] = 1})
  /\ pc = "done" => active_reqs = 0

\* bytes_written, by which the loop decides that the copy is complete, counts
\* every unit on the destination once, except those of writes not yet seen.
UnseenWrites ==
  {u \in Unit : \E k \in DOMAIN cq :
     info[cq[k].buf].op_type = 1 /\ u - info[cq[k].buf].offset \in 1 .. cq[k].res}
BytesCounted ==
  pc # "failed" => bytes_written = Cardinality(Written) - Cardinality(UnseenWrites)

\* units that were asked for, are not written, and are in no buffer any more:
\* nothing ever asks for them again
Lost ==
  {u \in 1 .. read_offset :
     /\ dest[u] = 0
     /\ \A b \in Buffer : buffer_in_use[b] = 1 => u - info[b].offset \notin 1 .. len[b]}

\* what is waited for was never submitted
Stuck == pc = "wait" /\ sq # {} /\ inflight = {} /\ cq = <<>>

\* The copy ends, unless a result was short or an error, or requests were not
\* submitted: these are the only reasons for which the loop can go on for ever
\* or wait for ever.  Completions in any order and a full ring are none.
CopyEnds == <>(pc \in {"done", "failed"} \/ Lost # {} \/ Stuck)

Copy == INSTANCE FileCopy WITH
  over <- CASE pc = "done" -> "complete" [] pc = "failed" -> "failed" [] OTHER -> "no"

\* Although buffers and their io_info are used again while other requests are in
\* the kernel, and whatever fails, every unit goes to its own place, none is
\* overwritten, and a copy that is not given up ends complete.
IsFileCopy == Copy!CopySpec
=============================================================================
