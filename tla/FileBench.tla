------------------------------ MODULE FileBench ------------------------------
(***************************************************************************)
(* The benchmarks of hw1: a file is created, read, written, and written at *)
(* random, through stdio (HW1_1.c), read() and write() (HW1_2.c) or a      *)
(* mapping (HW1_3.c).  They share their phases and differ in where written *)
(* data is until fsync(): in the stdio buffer, or in the page cache.  What *)
(* a power failure leaves is in disk, in every state.                      *)
(*                                                                         *)
(* The unit is WRITE_BLOCK_SIZE; a block of BLOCK_SIZE is two units.  The  *)
(* bytes of a phase are its digit; "none" is past the end of the file.     *)
(***************************************************************************)
EXTENDS Naturals, FiniteSets

CONSTANTS
  IO,             \* the programs: a subset of {"stdio", "fd", "mmap"}
  NUM_OF_BLOCK,   \* FILE_SIZE / BLOCK_SIZE: 25600
  RAND_OP_TIMES,  \* 50000
  Faults          \* {"open"} if opening or mapping the file may fail

ASSUME FileBenchAssumption ==
  /\ IO \subseteq {"stdio", "fd", "mmap"}
  /\ NUM_OF_BLOCK \in Nat \ {0} /\ RAND_OP_TIMES \in Nat \ {0}
  /\ Faults \subseteq {"open"}

VARIABLES
  io,      \* which of the programs runs
  phase,   \* the function it is in
  pc,      \* "open", "loop", "fsync", "close", or "exit"
  k,       \* the loop counter i
  data,    \* history: the file as the program has written it
  pend,    \* units that are in the stdio buffer only
  cache,   \* the file in the page cache
  disk,    \* the file on the disk
  held,    \* history: units that were in the stdio buffer at the last fsync()
  short    \* history: a read got less than a block

vars == <<io, phase, pc, k, data, pend, cache, disk, held, short>>

Blocks == 0 .. NUM_OF_BLOCK - 1
Units == 0 .. 2 * NUM_OF_BLOCK - 1
Block(b) == {2 * b, 2 * b + 1}
Value == {"none", "1", "2", "4"}

\* units the buffer of a FILE holds: 4096 bytes
BUFSIZ == 2

After ==
  [create_file |-> "sequential_read", sequential_read |-> "sequential_write",
   sequential_write |-> "random_read", random_read |-> "random_buffered_write",
   random_buffered_write |-> "random_synchronous_write",
   random_synchronous_write |-> "end"]
Phase == DOMAIN After \cup {"end"}

Reads == {"sequential_read", "random_read"}
Random == {"random_read", "random_buffered_write", "random_synchronous_write"}

Nothing == [u \in Units |-> "none"]

Init ==
  /\ io \in IO /\ phase = "create_file" /\ pc = "open" /\ k = 0
  /\ data = Nothing /\ cache = Nothing /\ disk = Nothing
  /\ pend = {} /\ held = {} /\ short = FALSE

-----------------------------------------------------------------------------
\* create_file uses stdio in all three programs
Stdio == io = "stdio" \/ phase = "create_file"

\* a mapping needs the file as long as it is
Truncates == phase = "create_file" \/ (phase = "sequential_write" /\ io # "mmap")

Open ==
  /\ phase # "end" /\ pc = "open"
  /\ \/ /\ pc' = "loop" /\ k' = 0
        /\ data' = IF Truncates THEN Nothing ELSE data
        /\ cache' = IF Truncates THEN Nothing ELSE cache
     \/ "open" \in Faults /\ pc' = "exit" /\ UNCHANGED <<k, data, cache>>
  /\ UNCHANGED <<io, phase, pend, disk, held, short>>

\* mutant: the blocks are counted in the size they are read in
TimesInBlocks ==
  IF phase \in Random THEN RAND_OP_TIMES ELSE NUM_OF_BLOCK

\* sequential_write counts blocks of WRITE_BLOCK_SIZE
Times ==
  CASE phase \in Random -> RAND_OP_TIMES
    [] phase = "sequential_write" -> 2 * NUM_OF_BLOCK
    [] OTHER -> NUM_OF_BLOCK

Read ==
  /\ phase \in Reads /\ pc = "loop" /\ k < Times
  /\ \E b \in IF phase \in Random THEN Blocks ELSE {k} :
       short' = (short \/ \E u \in Block(b) : cache[u] = "none")
  /\ k' = k + 1
  /\ UNCHANGED <<io, phase, pc, data, pend, cache, disk, held>>

Flushed == [u \in Units |-> IF u \in pend THEN data[u] ELSE cache[u]]

Put(f, us) ==
  [u \in Units |-> IF u \notin us THEN f[u]
                   ELSE CASE phase = "create_file" -> "1"
                          [] phase = "sequential_write" -> "2"
                          [] OTHER -> "4"]

\* fwrite, write or memcpy of the units us.  fseek, and a buffer that is full,
\* hand the buffer to the kernel.
Store(us) ==
  /\ data' = Put(data, us)
  /\ IF ~Stdio
     THEN cache' = Put(cache, us) /\ UNCHANGED pend
     ELSE IF phase \in Random \/ Cardinality(pend \cup us) > BUFSIZ
          THEN cache' = Flushed /\ pend' = us
          ELSE pend' = pend \cup us /\ UNCHANGED cache

\* the random writes begin at a block and write half of it
Write ==
  /\ phase \notin Reads \cup {"end"} /\ pc = "loop" /\ k < Times
  /\ \/ phase = "create_file" /\ Store(Block(k))
     \/ phase = "sequential_write" /\ Store({k})
     \/ phase \in Random /\ \E b \in Blocks : Store({2 * b})
  /\ k' = k + 1
  /\ pc' = IF phase = "random_synchronous_write" THEN "fsync" ELSE "loop"
  /\ UNCHANGED <<io, phase, disk, held, short>>

\* mutant: the loop of writes is followed by close()
LoopEndsUnsynced ==
  /\ phase # "end" /\ pc = "loop" /\ k = Times
  /\ pc' = "close"
  /\ UNCHANGED <<io, phase, k, data, pend, cache, disk, held, short>>

LoopEnds ==
  /\ phase # "end" /\ pc = "loop" /\ k = Times
  /\ pc' = IF phase \in {"sequential_write", "random_buffered_write"}
           THEN "fsync" ELSE "close"
  /\ UNCHANGED <<io, phase, k, data, pend, cache, disk, held, short>>

\* fsync(): of the page cache, not of what is in the program
Fsync ==
  /\ pc = "fsync"
  /\ disk' = cache /\ held' = pend
  /\ pc' = IF phase = "random_synchronous_write" THEN "loop" ELSE "close"
  /\ UNCHANGED <<io, phase, k, data, pend, cache, short>>

\* fclose() hands the buffer to the kernel
Close ==
  /\ pc = "close"
  /\ cache' = Flushed /\ pend' = {}
  /\ phase' = After[phase] /\ pc' = "open" /\ k' = 0
  /\ UNCHANGED <<io, data, disk, held, short>>

\* the kernel writes back when it likes
Writeback ==
  /\ \E u \in Units : disk' = [disk EXCEPT ![u] = cache[u]]
  /\ UNCHANGED <<io, phase, pc, k, data, pend, cache, held, short>>

Next == Open \/ Read \/ Write \/ LoopEnds \/ Fsync \/ Close \/ Writeback
Spec == Init /\ [][Next]_vars

-----------------------------------------------------------------------------
\* what a power failure would take back of what the program has written
Lost == {u \in Units : disk[u] # data[u]}

\* an iteration of random_synchronous_write is over, or a function that calls fsync()
\* has returned, and nothing was written since
Synced ==
  \/ phase = "random_synchronous_write" /\ pc = "loop" /\ k > 0
  \/ phase \in {"random_read", "random_synchronous_write", "end"} /\ pc = "open"

\* what fsync() finds in the buffer of the FILE: after sequential_write the last
\* block, after a random write the half of a block it wrote
HeldBack ==
  IF phase = "random_read" THEN {Block(NUM_OF_BLOCK - 1)} ELSE {{2 * b} : b \in Blocks}

\* When an iteration of random_synchronous_write is over, and when sequential_write,
\* random_buffered_write and random_synchronous_write have returned, which are timed
\* with their fsync(), HW1_2.c and HW1_3.c have all they wrote on the disk.  HW1_1.c
\* has not: fsync() does not flush the FILE, so each "Random Synchronous Write"
\* (HW1_1.c:63) is still in the program when its fsync() (HW1_1.c:186) is over, and
\* fclose() hands the last block to the kernel when no fsync() follows (HW1_1.c:121-123,
\* 164-166, 191).  A power failure may lose this much, and never more.
WritesAreDurable ==
  Synced =>
    /\ Lost \subseteq held
    /\ IF io = "stdio" THEN held \in HeldBack ELSE held = {}
    /\ pc = "loop" => pend = held

\* No phase reads past what the ones before it have left, although one truncates
\* the file and stdio holds data back.
ReadsWhole == ~short
=============================================================================
