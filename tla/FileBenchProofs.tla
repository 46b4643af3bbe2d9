--------------------------- MODULE FileBenchProofs ---------------------------
(***************************************************************************)
(* Theorems about the benchmarks of hw1, for a file of any size, any       *)
(* number of random operations, and whatever the kernel writes back when.  *)
(***************************************************************************)
EXTENDS FileBench, FiniteSetTheorems, TLAPS

-----------------------------------------------------------------------------
(* The inductive invariant *)

TypeInv ==
  /\ phase \in Phase /\ pc \in {"open", "loop", "fsync", "close", "exit"}
  /\ k \in Nat
  /\ data \in [Units -> Value] /\ cache \in [Units -> Value] /\ disk \in [Units -> Value]
  /\ pend \subseteq Units
  /\ short \in BOOLEAN
  /\ phase = "end" => pc = "open"

\* What the kernel has is what the program has written, but for the buffer of the
\* FILE, which is empty while nothing is open and while a phase reads.
CacheInv ==
  /\ \A u \in Units \ pend : cache[u] = data[u]
  /\ (~Stdio \/ pc = "open" \/ phase \in Reads) => pend = {}

\* the functions that call fsync()
Syncing == {"sequential_write", "random_buffered_write", "random_synchronous_write"}

Halves == {{2 * b} : b \in Blocks}

\* the buffer of the FILE after n writes of sequential_write
Buffered(n) ==
  {us \in SUBSET Units :
     \/ n = 0 /\ us = {}
     \/ \E b \in Blocks : \/ n = 2 * b + 1 /\ us = {2 * b}
                          \/ n = 2 * b + 2 /\ us = Block(b)}

\* What is in the buffer of the FILE while a function that calls fsync() runs.
PendInv ==
  /\ pc = "fsync" => phase \in Syncing
  /\ pc \in {"fsync", "close"} /\ phase \in Syncing => k = Times \/ phase = "random_synchronous_write"
  /\ pc \in {"fsync", "close"} /\ phase \in Random => k > 0
  /\ io = "stdio" /\ pc \in {"loop", "fsync", "close"} =>
       /\ phase = "sequential_write" => pend \in Buffered(k)
       /\ phase \in Random \cap Syncing /\ k > 0 => pend \in Halves

\* after an fsync() and before the next write
Quiet == Synced \/ (phase \in Syncing /\ pc = "close")

\* What is not on the disk then is what was in the buffer.
DiskInv ==
  Quiet =>
    /\ Lost \subseteq held
    /\ io # "stdio" => held = {}
    /\ io = "stdio" =>
         /\ phase \in {"sequential_write", "random_read"} => held = Block(NUM_OF_BLOCK - 1)
         /\ phase \notin {"sequential_write", "random_read"} => held \in Halves
    /\ pc # "open" => pend = held

\* The units of the file that have been written: a phase that truncates the file
\* writes it from the beginning.
Written ==
  CASE phase = "create_file" /\ pc = "loop" -> {u \in Units : u < 2 * k}
    [] phase = "create_file" /\ pc = "open" -> {}
    [] phase = "sequential_write" /\ pc = "loop" -> {u \in Units : u < k}
    [] OTHER -> Units
DataInv == pc # "exit" => \A u \in Written : data[u] # "none"

BenchInv == TypeInv /\ CacheInv /\ PendInv /\ DiskInv /\ DataInv /\ ReadsWhole

-----------------------------------------------------------------------------
(* Lemmas about the operators *)

\* A block is two units of the file.
LEMMA BlockUnits == \A b \in Blocks : Block(b) \subseteq Units /\ 2 * b \in Units
BY FileBenchAssumption DEF Blocks, Block, Units

\* Each phase has a next one, and the last one has not.
LEMMA AfterPhase ==
  /\ \A p \in DOMAIN After : After[p] \in Phase
  /\ "create_file" \notin {After[p] : p \in DOMAIN After}
  /\ \A p \in Phase \ {"end"} : p \in DOMAIN After
  /\ "create_file" \in Phase
BY DEF After, Phase

\* What is put in the units us is some digit, and the other units stay.
LEMMA PutUnits ==
  ASSUME NEW f \in [Units -> Value], NEW us \in SUBSET Units
  PROVE  /\ Put(f, us) \in [Units -> Value]
         /\ \A u \in us : Put(f, us)[u] # "none"
         /\ \A u \in Units \ us : Put(f, us)[u] = f[u]
         /\ \A g \in [Units -> Value], u \in us : Put(f, us)[u] = Put(g, us)[u]
BY DEF Put, Value

\* Wherever the written units go, the program has them, and what the buffer does
\* not hold the kernel has.
LEMMA StoreUnits ==
  ASSUME TypeInv, CacheInv, NEW us \in SUBSET Units, Store(us)
  PROVE  /\ data' \in [Units -> Value] /\ cache' \in [Units -> Value] /\ pend' \subseteq Units
         /\ \A u \in us : data'[u] # "none"
         /\ \A u \in Units \ us : data'[u] = data[u]
         /\ \A u \in Units \ pend' : cache'[u] = data'[u]
         /\ ~Stdio => pend' = {}
<1>1. /\ data \in [Units -> Value] /\ cache \in [Units -> Value] /\ pend \subseteq Units
      /\ \A u \in Units \ pend : cache[u] = data[u]
      /\ ~Stdio => pend = {}
  BY DEF TypeInv, CacheInv
<1>2. data' = Put(data, us)
  BY DEF Store
<1>3. /\ data' \in [Units -> Value]
      /\ \A u \in us : data'[u] # "none"
      /\ \A u \in Units \ us : data'[u] = data[u]
  BY <1>1, <1>2, PutUnits
<1>4. CASE ~Stdio
  <2>1. cache' = Put(cache, us) /\ pend' = pend
    BY <1>4 DEF Store
  <2>2. \A u \in Units : cache[u] = data[u]
    BY <1>1, <1>4
  <2>3. \A u \in Units : cache'[u] = data'[u]
    BY <1>1, <1>2, <2>1, <2>2, PutUnits
  <2>. QED BY <1>1, <1>3, <1>4, <2>1, <2>3, PutUnits
<1>5. CASE Stdio
  <2>1. CASE cache' = Flushed /\ pend' = us
    <3>1. \A u \in Units : cache'[u] = data[u]
      BY <1>1, <2>1 DEF Flushed
    <3>2. cache' \in [Units -> Value]
      BY <1>1, <2>1 DEF Flushed
    <3>. QED BY <1>3, <1>5, <2>1, <3>1, <3>2
  <2>2. CASE pend' = pend \cup us /\ UNCHANGED cache
    BY <1>1, <1>3, <1>5, <2>2
  <2>. QED BY <1>5, <2>1, <2>2 DEF Store
<1>. QED BY <1>4, <1>5

\* What the buffer of the FILE holds after one more write: half a block, or the block
\* that sequential_write is in.
LEMMA StoreBuffers ==
  ASSUME TypeInv, PendInv, io = "stdio", pc = "loop"
  PROVE  /\ \A b \in Blocks : phase \in Random /\ Store({2 * b}) => pend' \in Halves
         /\ phase = "sequential_write" /\ k < Times /\ Store({k}) => pend' \in Buffered(k + 1)
<1>1. ASSUME NEW b \in Blocks, phase \in Random, Store({2 * b})
      PROVE  pend' \in Halves
  BY <1>1 DEF Store, Stdio, Halves
<1>2. ASSUME phase = "sequential_write", k < Times, Store({k})
      PROVE  pend' \in Buffered(k + 1)
  <2>1. /\ pend \in Buffered(k) /\ k \in Nat /\ k < 2 * NUM_OF_BLOCK
        /\ NUM_OF_BLOCK \in Nat /\ k \in Units
    BY <1>2, FileBenchAssumption DEF PendInv, TypeInv, Times, Random, Units
  <2>2. /\ Cardinality(pend \cup {k}) > 2 => pend' = {k}
        /\ ~(Cardinality(pend \cup {k}) > 2) => pend' = pend \cup {k}
    BY <1>2 DEF Store, Stdio, Random, BUFSIZ
  <2>3. CASE k = 0
    <3>1. pend = {}
      BY <2>1, <2>3 DEF Buffered, Blocks
    <3>2. pend' = {k}
      BY <2>2, <3>1
    <3>3. 0 \in Blocks /\ k + 1 = 2 * 0 + 1 /\ {k} = {2 * 0}
      BY <2>1, <2>3 DEF Blocks
    <3>. QED BY <2>1, <3>2, <3>3 DEF Buffered
  <2>4. ASSUME NEW b \in Blocks, k = 2 * b + 1, pend = {2 * b}
        PROVE  pend' \in Buffered(k + 1)
    <3>1. b \in Nat /\ 2 * b # k
      BY <2>4 DEF Blocks
    <3>2. Cardinality(pend \cup {k}) = 2
      <4>1. IsFiniteSet({2 * b}) /\ Cardinality({2 * b}) = 1
        BY FS_Singleton
      <4>2. Cardinality({2 * b} \cup {k}) = Cardinality({2 * b}) + 1
        BY <3>1, <4>1, FS_AddElement
      <4>. QED BY <2>4, <4>1, <4>2
    <3>3. pend' = Block(b)
      BY <2>2, <2>4, <3>2 DEF Block
    <3>4. k + 1 = 2 * b + 2 /\ Block(b) \in SUBSET Units
      BY <2>4, <3>1, BlockUnits
    <3>. QED BY <3>3, <3>4 DEF Buffered
  <2>5. ASSUME NEW b \in Blocks, k = 2 * b + 2, pend = Block(b)
        PROVE  pend' \in Buffered(k + 1)
    <3>1. b \in Nat /\ k \notin Block(b)
      BY <2>5 DEF Blocks, Block
    <3>2. Cardinality(pend \cup {k}) = 3
      <4>1. IsFiniteSet({2 * b}) /\ Cardinality({2 * b}) = 1
        BY FS_Singleton
      <4>2. 2 * b + 1 \notin {2 * b}
        BY <3>1
      <4>3. /\ IsFiniteSet({2 * b} \cup {2 * b + 1})
            /\ Cardinality({2 * b} \cup {2 * b + 1}) = Cardinality({2 * b}) + 1
        BY <4>1, <4>2, FS_AddElement
      <4>4. Block(b) = {2 * b} \cup {2 * b + 1}
        BY DEF Block
      <4>5. Cardinality(Block(b) \cup {k}) = Cardinality(Block(b)) + 1
        BY <3>1, <4>3, <4>4, FS_AddElement
      <4>. QED BY <2>5, <4>1, <4>3, <4>4, <4>5
    <3>3. pend' = {k}
      BY <2>2, <3>2
    <3>4. b + 1 \in Blocks /\ k + 1 = 2 * (b + 1) + 1 /\ k = 2 * (b + 1)
      BY <2>1, <2>5, <3>1 DEF Blocks
    <3>. QED BY <2>1, <3>3, <3>4 DEF Buffered
  <2>. QED BY <2>1, <2>3, <2>4, <2>5 DEF Buffered
<1>. QED BY <1>1, <1>2

\* The buffer of sequential_write holds the last block at the end.
LEMMA BufferedAtEnd ==
  ASSUME NEW us \in Buffered(2 * NUM_OF_BLOCK)
  PROVE  us = Block(NUM_OF_BLOCK - 1)
<1>1. NUM_OF_BLOCK \in Nat /\ NUM_OF_BLOCK > 0
  BY FileBenchAssumption
<1>2. PICK b \in Blocks : \/ 2 * NUM_OF_BLOCK = 2 * b + 1 /\ us = {2 * b}
                          \/ 2 * NUM_OF_BLOCK = 2 * b + 2 /\ us = Block(b)
  BY <1>1 DEF Buffered
<1>3. b \in Nat
  BY DEF Blocks
<1>4. 2 * NUM_OF_BLOCK # 2 * b + 1
  BY <1>1, <1>3
<1>5. us = Block(b) /\ b = NUM_OF_BLOCK - 1
  BY <1>1, <1>2, <1>3, <1>4
<1>. QED BY <1>5

-----------------------------------------------------------------------------
(* The steps *)

\* Opening a file, which truncates it in two of the phases.
LEMMA OpenStep == BenchInv /\ Open => BenchInv'
<1>. SUFFICES ASSUME BenchInv, Open PROVE BenchInv'
  OBVIOUS
<1>1. TypeInv /\ CacheInv /\ PendInv /\ DiskInv /\ DataInv /\ ReadsWhole
  BY DEF BenchInv
<1>2. /\ UNCHANGED <<io, phase, pend, disk, held, short>> /\ pc = "open" /\ pend = {}
      /\ phase # "end"
  BY <1>1 DEF Open, CacheInv
<1>3. UNCHANGED Stdio
  BY <1>2 DEF Stdio
<1>4. CASE pc' = "exit" /\ UNCHANGED <<k, data, cache>>
  <2>1. TypeInv' /\ CacheInv' /\ DataInv' /\ ReadsWhole'
    BY <1>1, <1>2, <1>3, <1>4 DEF TypeInv, CacheInv, DataInv, ReadsWhole
  <2>2. ~Quiet'
    BY <1>4 DEF Synced, Quiet
  <2>3. PendInv'
    BY <1>4 DEF PendInv
  <2>. QED BY <2>1, <2>2, <2>3 DEF BenchInv, DiskInv
<1>5. CASE pc' = "loop"
  <2>1. /\ k' = 0
        /\ data' = IF Truncates THEN Nothing ELSE data
        /\ cache' = IF Truncates THEN Nothing ELSE cache
    BY <1>5 DEF Open
  <2>2. Nothing \in [Units -> Value]
    BY DEF Nothing, Value
  <2>3. TypeInv'
    BY <1>1, <1>2, <1>5, <2>1, <2>2 DEF TypeInv
  <2>4. CacheInv'
    BY <1>1, <1>2, <1>3, <2>1 DEF CacheInv
  <2>5. ~Quiet'
    BY <1>5, <2>1 DEF Synced, Quiet
  <2>8. PendInv'
    BY <1>2, <1>5, <2>1 DEF PendInv, Buffered
  <2>6. DataInv'
    <3>1. CASE phase \in {"create_file", "sequential_write"}
      <4>1. \A u \in Units : ~(u < 0)
        BY FileBenchAssumption DEF Units
      <4>2. Written' = {}
        BY <1>2, <1>5, <2>1, <3>1, <4>1 DEF Written
      <4>. QED BY <4>2 DEF DataInv
    <3>2. CASE phase \notin {"create_file", "sequential_write"}
      <4>1. Written' = Units /\ Written = Units /\ data' = data
        BY <1>2, <1>5, <2>1, <3>2 DEF Written, Truncates
      <4>. QED BY <1>1, <1>2, <4>1 DEF DataInv
    <3>. QED BY <3>1, <3>2
  <2>7. ReadsWhole'
    BY <1>1, <1>2 DEF ReadsWhole
  <2>. QED BY <2>3, <2>4, <2>5, <2>6, <2>7, <2>8 DEF BenchInv, DiskInv
<1>. QED BY <1>4, <1>5 DEF Open

\* A phase that reads finds every unit of the block.
LEMMA ReadStep == BenchInv /\ Read => BenchInv'
<1>. SUFFICES ASSUME BenchInv, Read PROVE BenchInv'
  OBVIOUS
<1>1. TypeInv /\ CacheInv /\ PendInv /\ DiskInv /\ DataInv /\ ReadsWhole
  BY DEF BenchInv
<1>2. /\ UNCHANGED <<io, phase, pc, data, pend, cache, disk, held>>
      /\ phase \in Reads /\ pc = "loop" /\ k < Times /\ k' = k + 1
  BY DEF Read
<1>3. PICK b \in IF phase \in Random THEN Blocks ELSE {k} :
        short' = (short \/ \E u \in Block(b) : cache[u] = "none")
  BY DEF Read
<1>4. b \in Blocks
  <2>1. CASE phase \in Random
    BY <1>3, <2>1
  <2>2. CASE phase \notin Random
    <3>1. Times = NUM_OF_BLOCK /\ k \in Nat
      BY <1>1, <1>2, <2>2 DEF Times, Reads, Random, TypeInv
    <3>. QED BY <1>2, <1>3, <2>2, <3>1, FileBenchAssumption DEF Blocks
  <2>. QED BY <2>1, <2>2
<1>5. \A u \in Units : cache[u] # "none"
  <2>1. Written = Units /\ pend = {}
    BY <1>1, <1>2 DEF Written, Reads, CacheInv
  <2>. QED BY <1>1, <1>2, <2>1 DEF DataInv, CacheInv
<1>6. short' = FALSE
  BY <1>1, <1>3, <1>4, <1>5, BlockUnits DEF ReadsWhole, TypeInv
<1>7. TypeInv'
  <2>1. k' \in Nat
    BY <1>1, <1>2 DEF TypeInv
  <2>2. short' \in BOOLEAN
    BY <1>6
  <2>. QED BY <1>1, <1>2, <2>1, <2>2 DEF TypeInv
<1>8. CacheInv'
  BY <1>1, <1>2 DEF CacheInv, Stdio
<1>9. PendInv' /\ DiskInv'
  BY <1>1, <1>2 DEF PendInv, DiskInv, Quiet, Synced, Syncing, Reads
<1>10. Written' = Units /\ Written = Units
  BY <1>2 DEF Written, Reads
<1>11. DataInv'
  BY <1>1, <1>2, <1>10 DEF DataInv
<1>. QED BY <1>6, <1>7, <1>8, <1>9, <1>11 DEF BenchInv, ReadsWhole

\* A write fills its units and takes nothing away.
LEMMA WriteStep == BenchInv /\ Write => BenchInv'
<1>. SUFFICES ASSUME BenchInv, Write PROVE BenchInv'
  OBVIOUS
<1>1. TypeInv /\ CacheInv /\ PendInv /\ DiskInv /\ DataInv /\ ReadsWhole /\ k \in Nat
  BY DEF BenchInv, TypeInv
<1>2. /\ UNCHANGED <<io, phase, disk, held, short>>
      /\ phase \notin Reads \cup {"end"} /\ pc = "loop" /\ k < Times /\ k' = k + 1
      /\ pc' = IF phase = "random_synchronous_write" THEN "fsync" ELSE "loop"
  BY DEF Write
<1>3. PICK us \in SUBSET Units :
        /\ Store(us)
        /\ phase = "create_file" => us = Block(k)
        /\ phase = "sequential_write" => us = {k}
  <2>1. CASE phase = "create_file" /\ Store(Block(k))
    <3>1. k \in Blocks
      BY <1>1, <1>2, <2>1, FileBenchAssumption DEF Times, Random, Blocks
    <3>. QED BY <2>1, <3>1, BlockUnits
  <2>2. CASE phase = "sequential_write" /\ Store({k})
    <3>1. k \in Units
      BY <1>1, <1>2, <2>2, FileBenchAssumption DEF Times, Random, Units
    <3>. QED BY <2>2, <3>1
  <2>3. CASE phase \in Random /\ \E b \in Blocks : Store({2 * b})
    <3>1. PICK b \in Blocks : Store({2 * b})
      BY <2>3
    <3>2. {2 * b} \in SUBSET Units
      BY BlockUnits
    <3>. QED BY <2>3, <3>1, <3>2 DEF Random
  <2>. QED BY <2>1, <2>2, <2>3 DEF Write
<1>4. /\ data' \in [Units -> Value] /\ cache' \in [Units -> Value] /\ pend' \subseteq Units
      /\ \A u \in us : data'[u] # "none"
      /\ \A u \in Units \ us : data'[u] = data[u]
      /\ \A u \in Units \ pend' : cache'[u] = data'[u]
      /\ ~Stdio => pend' = {}
  BY <1>1, <1>3, StoreUnits
<1>5. TypeInv'
  BY <1>1, <1>2, <1>4 DEF TypeInv
<1>6. CacheInv'
  BY <1>2, <1>4 DEF CacheInv, Stdio
<1>7. ~Quiet'
  BY <1>2 DEF Quiet, Synced, Reads
<1>9. PendInv'
  <2>1. k + 1 > 0 /\ (pc' = "fsync" => phase = "random_synchronous_write") /\ pc' # "close"
    BY <1>1, <1>2
  <2>2. CASE io = "stdio" /\ phase = "sequential_write"
    <3>1. Store({k})
      BY <1>3, <2>2
    <3>2. pend' \in Buffered(k + 1)
      BY <1>1, <1>2, <2>2, <3>1, StoreBuffers
    <3>. QED BY <1>2, <2>1, <2>2, <3>2 DEF PendInv, Syncing, Random, Buffered
  <2>3. CASE io = "stdio" /\ phase \in Random
    <3>1. PICK b \in Blocks : Store({2 * b})
      BY <2>3 DEF Write, Random
    <3>2. pend' \in Halves
      BY <1>1, <1>2, <2>3, <3>1, StoreBuffers
    <3>. QED BY <1>2, <2>1, <2>3, <3>2 DEF PendInv, Syncing, Random, Halves
  <2>4. CASE io # "stdio" \/ phase \notin Random \cup {"sequential_write"}
    BY <1>2, <2>1, <2>4 DEF PendInv, Syncing, Random
  <2>. QED BY <2>2, <2>3, <2>4
<1>8. DataInv'
  <2>1. Units \subseteq Nat
    BY DEF Units
  <2>2. CASE phase = "create_file"
    <3>1. Written' = {u \in Units : u < 2 * (k + 1)} /\ Written = {u \in Units : u < 2 * k}
      BY <1>2, <2>2 DEF Written
    <3>2. \A u \in Written' : u \in Block(k) \/ u \in Written
      BY <1>1, <2>1, <3>1 DEF Block
    <3>. QED BY <1>1, <1>2, <1>3, <1>4, <2>2, <3>1, <3>2 DEF DataInv
  <2>3. CASE phase = "sequential_write"
    <3>1. Written' = {u \in Units : u < k + 1} /\ Written = {u \in Units : u < k}
      BY <1>2, <2>3 DEF Written
    <3>2. \A u \in Written' : u = k \/ u \in Written
      BY <1>1, <2>1, <3>1
    <3>. QED BY <1>1, <1>2, <1>3, <1>4, <2>3, <3>1, <3>2 DEF DataInv
  <2>4. CASE phase \notin {"create_file", "sequential_write"}
    <3>1. Written' = Units /\ Written = Units
      BY <1>2, <2>4 DEF Written
    <3>. QED BY <1>1, <1>2, <1>4, <3>1 DEF DataInv
  <2>. QED BY <2>2, <2>3, <2>4
<1>. QED BY <1>1, <1>2, <1>5, <1>6, <1>7, <1>8, <1>9 DEF BenchInv, DiskInv, ReadsWhole

\* A loop that has ended has written every unit.
LEMMA LoopEndsStep == BenchInv /\ LoopEnds => BenchInv'
<1>. SUFFICES ASSUME BenchInv, LoopEnds PROVE BenchInv'
  OBVIOUS
<1>1. TypeInv /\ CacheInv /\ PendInv /\ DiskInv /\ DataInv /\ ReadsWhole
  BY DEF BenchInv
<1>2. /\ UNCHANGED <<io, phase, k, data, pend, cache, disk, held, short>>
      /\ pc = "loop" /\ k = Times
      /\ pc' = IF phase \in {"sequential_write", "random_buffered_write"}
               THEN "fsync" ELSE "close"
  BY DEF LoopEnds
<1>3. TypeInv'
  BY <1>1, <1>2 DEF TypeInv
<1>4. CacheInv'
  BY <1>1, <1>2 DEF CacheInv, Stdio
<1>5. PendInv' /\ DiskInv'
  <2>1. phase \in Random => k > 0
    BY <1>2, FileBenchAssumption DEF Times
  <2>2. pc' \in {"fsync", "close"} /\ (pc' = "fsync" => phase \in Syncing) /\ Times' = Times
    BY <1>2 DEF Syncing, Times
  <2>3. PendInv'
    BY <1>1, <1>2, <2>1, <2>2 DEF PendInv, Buffered
  <2>4. Quiet' => Quiet /\ phase = "random_synchronous_write"
    BY <1>2, <2>1 DEF Quiet, Synced, Syncing, Random
  <2>5. Lost' = Lost
    BY <1>2 DEF Lost
  <2>6. DiskInv'
    BY <1>1, <1>2, <2>4, <2>5 DEF DiskInv
  <2>. QED BY <2>3, <2>6
<1>6. Written = Units /\ Written' = Units
  <2>1. Written' = Units
    BY <1>2 DEF Written
  <2>2. CASE phase = "create_file"
    <3>1. k = NUM_OF_BLOCK /\ \A u \in Units : u < 2 * NUM_OF_BLOCK
      BY <1>2, <2>2, FileBenchAssumption DEF Times, Random, Units
    <3>. QED BY <1>2, <2>1, <2>2, <3>1 DEF Written
  <2>3. CASE phase = "sequential_write"
    <3>1. k = 2 * NUM_OF_BLOCK /\ \A u \in Units : u < 2 * NUM_OF_BLOCK
      BY <1>2, <2>3, FileBenchAssumption DEF Times, Random, Units
    <3>. QED BY <1>2, <2>1, <2>3, <3>1 DEF Written
  <2>4. CASE phase \notin {"create_file", "sequential_write"}
    BY <1>2, <2>1, <2>4 DEF Written
  <2>. QED BY <2>2, <2>3, <2>4
<1>7. DataInv'
  BY <1>1, <1>2, <1>6 DEF DataInv
<1>. QED BY <1>1, <1>2, <1>3, <1>4, <1>5, <1>7 DEF BenchInv, ReadsWhole

\* fsync() brings the page cache to the disk, and fclose() the buffer to the cache.
LEMMA SyncStep == BenchInv /\ (Fsync \/ Close \/ Writeback) => BenchInv'
<1>. SUFFICES ASSUME BenchInv, Fsync \/ Close \/ Writeback PROVE BenchInv'
  OBVIOUS
<1>1. TypeInv /\ CacheInv /\ PendInv /\ DiskInv /\ DataInv /\ ReadsWhole
  BY DEF BenchInv
<1>2. UNCHANGED <<io, data, short>> /\ ReadsWhole'
  BY <1>1 DEF Fsync, Close, Writeback, ReadsWhole
<1>3. CASE Fsync
  <2>1. /\ UNCHANGED <<io, phase, k, data, pend, cache, short>> /\ pc = "fsync"
        /\ disk' = cache /\ held' = pend
        /\ pc' = IF phase = "random_synchronous_write" THEN "loop" ELSE "close"
    BY <1>3 DEF Fsync
  <2>2. TypeInv' /\ CacheInv'
    BY <1>1, <2>1 DEF TypeInv, CacheInv, Stdio
  <2>5. phase \in Syncing /\ pc' # "open"
    BY <1>1, <2>1 DEF PendInv
  <2>6. PendInv'
    <3>1. Times' = Times
      BY <2>1 DEF Times
    <3>. QED BY <1>1, <2>1, <2>5, <3>1 DEF PendInv, Buffered
  <2>7. DiskInv'
    <3>1. Lost' \subseteq pend
      BY <1>1, <2>1 DEF Lost, CacheInv
    <3>2. io # "stdio" => pend = {}
      BY <1>1, <2>5 DEF CacheInv, Stdio, Syncing
    <3>3. io = "stdio" /\ phase = "sequential_write" => pend = Block(NUM_OF_BLOCK - 1)
      <4>1. phase = "sequential_write" => k = 2 * NUM_OF_BLOCK
        BY <1>1, <2>1, <2>5 DEF PendInv, Times, Random
      <4>2. io = "stdio" /\ phase = "sequential_write" => pend \in Buffered(k)
        BY <1>1, <2>1 DEF PendInv
      <4>. QED BY <4>1, <4>2, BufferedAtEnd
    <3>4. io = "stdio" /\ phase # "sequential_write" => pend \in Halves
      BY <1>1, <2>1, <2>5 DEF PendInv, Syncing, Random
    <3>5. phase # "random_read"
      BY <2>5 DEF Syncing
    <3>. QED BY <2>1, <3>1, <3>2, <3>3, <3>4, <3>5 DEF DiskInv, Halves
  <2>3. Written = Units /\ Written' \subseteq Units
    BY <2>1 DEF Written
  <2>4. DataInv'
    BY <1>1, <2>1, <2>3 DEF DataInv
  <2>. QED BY <1>2, <2>2, <2>4, <2>6, <2>7 DEF BenchInv
<1>4. CASE Close
  <2>1. /\ UNCHANGED <<io, data, disk, held, short>> /\ pc = "close" /\ pc' = "open" /\ k' = 0
        /\ cache' = Flushed /\ pend' = {} /\ phase' = After[phase]
    BY <1>4 DEF Close
  <2>2. phase \in DOMAIN After => phase' \in Phase /\ phase' # "create_file"
    BY <2>1, AfterPhase
  <2>3. phase # "end"
    BY <1>1, <2>1 DEF TypeInv
  <2>4. phase' \in Phase /\ phase' # "create_file"
    BY <1>1, <2>2, <2>3, AfterPhase DEF TypeInv
  <2>5. Flushed \in [Units -> Value] /\ \A u \in Units : Flushed[u] = data[u]
    BY <1>1 DEF Flushed, TypeInv, CacheInv
  <2>6. TypeInv' /\ CacheInv'
    BY <1>1, <2>1, <2>4, <2>5 DEF TypeInv, CacheInv
  <2>7. PendInv' /\ DiskInv'
    <3>1. PendInv'
      BY <2>1 DEF PendInv
    <3>2. Quiet' => Quiet /\ phase \in Syncing
      BY <1>1, <2>1, <2>3, AfterPhase DEF Quiet, Synced, Syncing, After, TypeInv
    <3>3. phase \in Syncing =>
            /\ phase' = "random_read" <=> phase = "sequential_write"
            /\ phase' # "sequential_write" /\ phase # "random_read"
      BY <2>1 DEF Syncing, After
    <3>4. Lost' = Lost
      BY <2>1 DEF Lost
    <3>. QED BY <1>1, <2>1, <3>1, <3>2, <3>3, <3>4 DEF DiskInv
  <2>8. Written = Units /\ Written' = Units
    BY <2>1, <2>4 DEF Written
  <2>9. DataInv'
    BY <1>1, <2>1, <2>8 DEF DataInv
  <2>. QED BY <1>2, <2>6, <2>7, <2>9 DEF BenchInv
<1>5. CASE Writeback
  <2>1. UNCHANGED <<io, phase, pc, k, data, pend, cache, held, short>>
    BY <1>5 DEF Writeback
  <2>2. PICK u \in Units : disk' = [disk EXCEPT ![u] = cache[u]]
    BY <1>5 DEF Writeback
  <2>3. TypeInv'
    BY <1>1, <2>1, <2>2 DEF TypeInv
  <2>4. CacheInv' /\ DataInv'
    BY <1>1, <2>1 DEF CacheInv, Stdio, DataInv, Written
  <2>5. Lost' \subseteq Lost \cup pend
    BY <1>1, <2>1, <2>2 DEF Lost, TypeInv, CacheInv
  <2>6. PendInv'
    <3>1. Times' = Times
      BY <2>1 DEF Times
    <3>. QED BY <1>1, <2>1, <3>1 DEF PendInv, Buffered
  <2>7. DiskInv'
    <3>1. Quiet' <=> Quiet
      BY <2>1 DEF Quiet, Synced
    <3>2. Quiet => pend = {} \/ pend = held
      BY <1>1 DEF DiskInv, CacheInv
    <3>3. Quiet => Lost' \subseteq held'
      BY <1>1, <2>1, <2>5, <3>2 DEF DiskInv
    <3>. QED BY <1>1, <2>1, <3>1, <3>3 DEF DiskInv
  <2>. QED BY <1>2, <2>3, <2>4, <2>6, <2>7 DEF BenchInv
<1>. QED BY <1>3, <1>4, <1>5

\* The invariant holds in every state.
LEMMA BenchInvariant == Spec => []BenchInv
<1>1. Init => BenchInv
  <2>. SUFFICES ASSUME Init PROVE BenchInv
    OBVIOUS
  <2>1. /\ phase = "create_file" /\ pc = "open" /\ k = 0
        /\ data = Nothing /\ cache = Nothing /\ disk = Nothing /\ pend = {} /\ held = {} /\ short = FALSE
    BY DEF Init
  <2>2. Nothing \in [Units -> Value]
    BY DEF Nothing, Value
  <2>3. TypeInv
    BY <2>1, <2>2, AfterPhase DEF TypeInv
  <2>4. CacheInv /\ PendInv /\ DiskInv /\ ReadsWhole
    BY <2>1 DEF CacheInv, PendInv, DiskInv, Quiet, Synced, ReadsWhole
  <2>5. Written = {}
    BY <2>1 DEF Written
  <2>. QED BY <2>3, <2>4, <2>5 DEF BenchInv, DataInv
<1>2. BenchInv /\ UNCHANGED vars => BenchInv'
  BY DEF vars, BenchInv, TypeInv, CacheInv, Stdio, PendInv, Times, Buffered, DiskInv, Quiet, Synced,
         Lost, DataInv, Written, ReadsWhole
<1>3. BenchInv /\ [Next]_vars => BenchInv'
  BY <1>2, OpenStep, ReadStep, WriteStep, LoopEndsStep, SyncStep DEF Next
<1>. QED BY <1>1, <1>3, PTL DEF Spec

-----------------------------------------------------------------------------
(* The theorems *)

\* When an iteration of random_synchronous_write is over, and when a function that
\* calls fsync() has returned, what was written is on the disk, but for what stdio held
\* back from the fsync(): the one write of the iteration, or the last block; of a file of
\* any size and after any number of writes.
THEOREM WritesReachTheDisk == Spec => []WritesAreDurable
<1>1. ASSUME BenchInv PROVE WritesAreDurable
  <2>. SUFFICES ASSUME Synced PROVE /\ Lost \subseteq held
                                    /\ IF io = "stdio" THEN held \in HeldBack ELSE held = {}
                                    /\ pc = "loop" => pend = held
    BY DEF WritesAreDurable
  <2>1. Quiet /\ phase # "sequential_write"
    BY DEF Quiet, Synced
  <2>. QED BY <1>1, <2>1 DEF BenchInv, DiskInv, HeldBack, Halves
<1>. QED BY <1>1, BenchInvariant, PTL

\* No phase reads past the end of what the phases before it have left.
THEOREM ReadsAreWhole == Spec => []ReadsWhole
<1>1. BenchInv => ReadsWhole
  BY DEF BenchInv
<1>. QED BY <1>1, BenchInvariant, PTL
=============================================================================
