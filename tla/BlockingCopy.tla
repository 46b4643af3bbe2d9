----------------------------- MODULE BlockingCopy -----------------------------
(***************************************************************************)
(* blocking_io of hw3 (HW3_1.c and HW3_2.c): read a block, write it, both  *)
(* at the file positions the descriptors keep.  The data are numbered as   *)
(* in UringCopy; a position counts the units before it.                    *)
(***************************************************************************)
EXTENDS Integers

\* "open": a file cannot be opened; "read": read() fails or ends early; "write":
\* write() fails; "short": it takes a part of the block, which is not noticed
CONSTANTS SIZE, file_size, Faults

VARIABLES
  pc,          \* "open", "read", "write" or "done"
  src_pos,     \* file position of src_fd
  dest_pos,    \* file position of dest_fd
  read_bytes,  \* result of the last read
  dest         \* the destination file

Init ==
  /\ pc = "open" /\ src_pos = 0 /\ dest_pos = 0 /\ read_bytes = 0
  /\ dest = [u \in 1 .. file_size |-> 0]

Open ==
  /\ pc = "open"
  /\ pc' = "read" \/ ("open" \in Faults /\ pc' = "done")
  /\ UNCHANGED <<src_pos, dest_pos, read_bytes, dest>>

Read ==
  /\ pc = "read"
  /\ \E n \in -1 .. SIZE :
       /\ src_pos + n <= file_size
       /\ \/ n = SIZE \/ (n >= 0 /\ src_pos + n = file_size)
          \/ "read" \in Faults /\ n # 0
       /\ read_bytes' = n
       /\ IF n > 0
          THEN pc' = "write" /\ src_pos' = src_pos + n
          ELSE pc' = "done" /\ UNCHANGED src_pos
  /\ UNCHANGED <<dest_pos, dest>>

\* mutant: a short write is tried again from the start of the buffer
RetryWhole ==
  /\ pc = "write"
  /\ \/ \E n \in 1 .. read_bytes :
          /\ n = read_bytes \/ "short" \in Faults
          /\ dest' = [u \in 1 .. file_size |->
               IF u - dest_pos \in 1 .. n
               THEN src_pos - read_bytes + (u - dest_pos) ELSE dest[u]]
          /\ dest_pos' = dest_pos + n
          /\ pc' = IF n < read_bytes THEN "write" ELSE "read"
     \/ "write" \in Faults /\ pc' = "done" /\ UNCHANGED <<dest, dest_pos>>
  /\ UNCHANGED <<src_pos, read_bytes>>

Write ==
  /\ pc = "write"
  /\ \/ \E n \in 1 .. read_bytes :
          /\ n = read_bytes \/ "short" \in Faults
          /\ dest' = [u \in 1 .. file_size |->
               IF u - dest_pos \in 1 .. n
               THEN src_pos - read_bytes + (u - dest_pos) ELSE dest[u]]
          /\ dest_pos' = dest_pos + n
          /\ pc' = "read"
     \/ "write" \in Faults /\ pc' = "done" /\ UNCHANGED <<dest, dest_pos>>
  /\ UNCHANGED <<src_pos, read_bytes>>

Next == Open \/ Read \/ Write


-----------------------------------------------------------------------------
\* a write took less than what was read
WasShort == dest_pos + (IF pc = "write" THEN read_bytes ELSE 0) # src_pos

\* Even when write() takes a part of a block, which shifts everything after it,
\* units reach the destination in their order, without gaps and none twice; and
\* until then each is in its own place.
InOrder ==
  \A u, v \in 1 .. file_size :
    /\ dest[u] # 0 <=> u <= dest_pos
    /\ u < v /\ dest[v] # 0 => dest[u] < dest[v]
    /\ u <= dest_pos /\ ~WasShort => dest[u] = u
=============================================================================
