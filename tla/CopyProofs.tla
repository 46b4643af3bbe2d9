------------------------------ MODULE CopyProofs ------------------------------
(***************************************************************************)
(* Theorems about the two copies of hw3, for files, blocks and rings of    *)
(* any size, and whatever calls may fail.                                  *)
(***************************************************************************)
EXTENDS CopyProgram, FiniteSetTheorems, TLAPS

-----------------------------------------------------------------------------
(* The inductive invariant of async_io *)

Completion == [buf : Buffer, res : -1 .. SIZE]

TypeInv ==
  /\ pc \in {"open", "fill", "submit", "wait", "done", "failed"}
  /\ i \in 1 .. ENTRY + 1
  /\ read_offset \in 0 .. file_size
  /\ bytes_written \in Int /\ active_reqs \in Int /\ submit_this_round \in Nat
  /\ buffer_in_use \in [Buffer -> {0, 1}]
  /\ info \in [Buffer -> [op_type : {0, 1}, offset : 0 .. file_size]]
  /\ len \in [Buffer -> 0 .. SIZE]
  /\ buffers \in [Buffer -> [1 .. SIZE -> Nat]]
  /\ sq \in SUBSET Buffer /\ inflight \in SUBSET Buffer
  /\ cq \in Seq(Completion)
  /\ dest \in [Unit -> 0 .. file_size]

InUse == {b \in Buffer : buffer_in_use[b] = 1}
Completed(b) == \E k \in DOMAIN cq : cq[k].buf = b

\* every buffer in use is prepared, in the kernel or completed, and only one of
\* these
HandInv ==
  /\ \A b \in Buffer : b \in InUse <=> b \in sq \/ b \in inflight \/ Completed(b)
  /\ \A b \in Buffer :
       /\ ~(b \in sq /\ b \in inflight)
       /\ ~(b \in sq /\ Completed(b))
       /\ ~(b \in inflight /\ Completed(b))
  /\ \A j, k \in DOMAIN cq : cq[j].buf = cq[k].buf => j = k

LoopInv ==
  /\ active_reqs = Cardinality(InUse)
  /\ pc = "open" => InUse = {} /\ read_offset = 0 /\ bytes_written = 0
  /\ pc = "done" => InUse = {} /\ bytes_written >= file_size

\* the n-th place, or unit, of the block that is on its way in buffer b
Place(b, n) == info[b].offset + n

\* What is asked for is part of what was read so far, and no unit is in two buffers.
RangesInv ==
  /\ \A b \in InUse : Place(b, len[b]) <= read_offset
  /\ \A b, c \in InUse :
       b # c => \A m \in 1 .. len[b], n \in 1 .. len[c] : Place(b, m) # Place(c, n)

\* buffer b has room for the first r units of its block, and holds them
Holds(b, r) == r <= len[b] /\ \A n \in 1 .. r : buffers[b][n] = Place(b, n)

\* Results are not longer than what was asked for; a buffer holds what its read
\* brought, and what its write is to bring.
ContentInv ==
  /\ \A k \in DOMAIN cq : Holds(cq[k].buf, cq[k].res)
  /\ \A b \in InUse : info[b].op_type = 1 => Holds(b, len[b])

\* unit n of buffer b is in the destination: its write is completed, not yet seen,
\* and was long enough
Arrived(b, n) ==
  \E k \in DOMAIN cq : cq[k].buf = b /\ info[b].op_type = 1 /\ n <= cq[k].res

\* The destination has units in their own places; none that are still on their way.
DestInv ==
  /\ \A u \in Unit : dest[u] \in {0, u} /\ (u > read_offset => dest[u] = 0)
  /\ \A b \in InUse : \A n \in 1 .. len[b] : dest[Place(b, n)] # 0 <=> Arrived(b, n)

DataInv ==
  /\ RangesInv /\ ContentInv
  /\ pc # "failed" => DestInv /\ BytesCounted

CopyInv == TypeInv /\ HandInv /\ LoopInv /\ DataInv

-----------------------------------------------------------------------------
(* Steps *)

\* What Append and Tail do to the places of a sequence.
LEMMA AppendFacts ==
  ASSUME NEW S, NEW s \in Seq(S), NEW e \in S
  PROVE  /\ Append(s, e) \in Seq(S)
         /\ Len(s) \in Nat /\ DOMAIN s = 1 .. Len(s)
         /\ DOMAIN Append(s, e) = 1 .. Len(s) + 1
         /\ \A k \in 1 .. Len(s) : Append(s, e)[k] = s[k]
         /\ Append(s, e)[Len(s) + 1] = e
OBVIOUS

\* Taking the first of a sequence moves the others up by one.
LEMMA TailFacts ==
  ASSUME NEW S, NEW s \in Seq(S), s # <<>>
  PROVE  /\ Tail(s) \in Seq(S)
         /\ Len(s) \in Nat \ {0} /\ DOMAIN s = 1 .. Len(s)
         /\ DOMAIN Tail(s) = 1 .. Len(s) - 1
         /\ \A k \in 1 .. Len(s) - 1 : Tail(s)[k] = s[k + 1]
         /\ Head(s) = s[1] /\ s[1] \in S
OBVIOUS

\* A completion goes to the end of the queue.
LEMMA Enqueued ==
  ASSUME TypeInv, NEW e \in Completion, cq' = Append(cq, e)
  PROVE  /\ cq' \in Seq(Completion)
         /\ Len(cq) \in Nat /\ DOMAIN cq = 1 .. Len(cq) /\ DOMAIN cq' = 1 .. Len(cq) + 1
         /\ \A k \in DOMAIN cq : cq'[k] = cq[k]
         /\ cq'[Len(cq) + 1] = e
<1>1. cq \in Seq(Completion)
  BY DEF TypeInv
<1>. QED BY <1>1, AppendFacts

\* The oldest completion leaves it.
LEMMA Dequeued ==
  ASSUME TypeInv, NEW b, NEW r, Seen(b, r), cq' = Tail(cq)
  PROVE  /\ cq' \in Seq(Completion)
         /\ Len(cq) \in Nat \ {0} /\ DOMAIN cq = 1 .. Len(cq) /\ DOMAIN cq' = 1 .. Len(cq) - 1
         /\ \A k \in DOMAIN cq' : cq'[k] = cq[k + 1]
         /\ cq[1] = [buf |-> b, res |-> r]
         /\ b \in Buffer /\ r \in -1 .. SIZE
<1>1. cq \in Seq(Completion) /\ cq # <<>> /\ Head(cq) = [buf |-> b, res |-> r]
  BY DEF TypeInv, Seen
<1>2. [buf |-> b, res |-> r] \in Completion
  BY <1>1, TailFacts
<1>3. b \in Buffer /\ r \in -1 .. SIZE
  BY <1>2 DEF Completion
<1>. QED BY <1>1, <1>3, TailFacts

\* What the completions are about.
LEMMA CompletionTypes ==
  ASSUME TypeInv
  PROVE  \A k \in DOMAIN cq : cq[k].buf \in Buffer /\ cq[k].res \in -1 .. SIZE
<1>1. cq \in Seq(Completion)
  BY DEF TypeInv
<1>2. \A k \in DOMAIN cq : cq[k] \in Completion
  BY <1>1
<1>. QED BY <1>2 DEF Completion

\* A result is an error, nothing, or at most what was asked for.
LEMMA ResultsBounded ==
  ASSUME NEW n \in 0 .. SIZE, NEW r \in Results(n)
  PROVE  r \in -1 .. SIZE /\ r <= n
BY UringCopyAssumption DEF Results

\* The test of the loop.
LEMMA LoopTypes ==
  ASSUME TypeInv, LoopTest
  PROVE  pc' \in {"fill", "done"} /\ i' \in 1 .. ENTRY + 1 /\ submit_this_round' \in Nat
BY UringCopyAssumption DEF TypeInv, LoopTest

\* What a completed write does: as long as async_io has not given up, the units it
\* moves are those of the places they go to.
LEMMA WriteEffect ==
  ASSUME TypeInv, HandInv, ContentInv, NEW b \in Buffer, CompleteWrite(b)
  PROVE  \E r \in -1 .. SIZE :
           /\ r <= len[b] /\ cq' = Append(cq, [buf |-> b, res |-> r])
           /\ dest' \in [Unit -> 0 .. file_size]
           /\ pc \notin {"done", "failed"} =>
                dest' = [u \in Unit |-> IF u - info[b].offset \in 1 .. r THEN u ELSE dest[u]]
<1>. USE UringCopyAssumption
<1>1. PICK r \in Results(len[b]), data \in Content(b) :
        /\ dest' = [u \in Unit |->
             IF u - info[b].offset \in 1 .. r THEN data[u - info[b].offset] ELSE dest[u]]
        /\ cq' = Append(cq, [buf |-> b, res |-> r])
  BY DEF CompleteWrite
<1>2. r \in -1 .. SIZE /\ r <= len[b] /\ info[b].offset \in Nat
  BY ResultsBounded DEF TypeInv
<1>3. CASE pc \in {"done", "failed"}
  <2>1. data \in [1 .. SIZE -> 0 .. file_size]
    BY <1>3 DEF Content
  <2>2. dest \in [Unit -> 0 .. file_size]
    BY DEF TypeInv
  <2>3. \A u \in Unit : u - info[b].offset \in 1 .. r => data[u - info[b].offset] \in 0 .. file_size
    BY <1>2, <2>1
  <2>4. dest' \in [Unit -> 0 .. file_size]
    BY <1>1, <2>2, <2>3
  <2>. QED BY <1>1, <1>2, <1>3, <2>4
<1>4. CASE pc \notin {"done", "failed"}
  <2>1. data = buffers[b]
    BY <1>4 DEF Content
  <2>2. b \in InUse /\ info[b].op_type = 1
    BY DEF HandInv, CompleteWrite
  <2>3. \A n \in 1 .. len[b] : data[n] = info[b].offset + n
    BY <2>1, <2>2 DEF ContentInv, Holds, Place
  <2>4. \A u \in Unit : u - info[b].offset \in 1 .. r => data[u - info[b].offset] = u
    <3>. SUFFICES ASSUME NEW u \in Unit, u - info[b].offset \in 1 .. r
                  PROVE  data[u - info[b].offset] = u
      OBVIOUS
    <3>. DEFINE n == u - info[b].offset
    <3>1. n \in 1 .. len[b] /\ info[b].offset + n = u
      BY <1>2 DEF Unit, TypeInv
    <3>. QED BY <2>3, <3>1
  <2>5. dest' = [u \in Unit |-> IF u - info[b].offset \in 1 .. r THEN u ELSE dest[u]]
    BY <1>1, <2>4
  <2>6. dest' \in [Unit -> 0 .. file_size]
    BY <2>5 DEF TypeInv, Unit
  <2>. QED BY <1>1, <1>2, <2>5, <2>6
<1>. QED BY <1>3, <1>4

\* The initial state has the types the declarations give.
LEMMA InitTypes == Init => TypeInv
BY UringCopyAssumption DEF Init, TypeInv, Buffer, Unit

\* Every step keeps the types.
LEMMA StepTypes ==
  ASSUME TypeInv, HandInv, ContentInv, [Next]_vars
  PROVE  TypeInv'
<1>. USE UringCopyAssumption
<1>1. ASSUME NEW b \in Buffer, CompleteRead(b) PROVE TypeInv'
  <2>1. PICK r \in Results(len[b]) :
          /\ buffers' = [buffers EXCEPT ![b] =
               [u \in 1 .. SIZE |-> IF u <= r THEN info[b].offset + u ELSE @[u]]]
          /\ cq' = Append(cq, [buf |-> b, res |-> r])
    BY <1>1 DEF CompleteRead
  <2>2. [buf |-> b, res |-> r] \in Completion
    BY ResultsBounded DEF TypeInv, Completion
  <2>3. cq' \in Seq(Completion)
    BY <2>1, <2>2, Enqueued
  <2>4. info[b].offset \in Nat /\ r \in Int
    BY ResultsBounded DEF TypeInv
  <2>5. [u \in 1 .. SIZE |-> IF u <= r THEN info[b].offset + u ELSE buffers[b][u]]
          \in [1 .. SIZE -> Nat]
    BY <2>4 DEF TypeInv
  <2>6. buffers' \in [Buffer -> [1 .. SIZE -> Nat]]
    BY <2>1, <2>5 DEF TypeInv
  <2>. QED BY <1>1, <2>3, <2>6 DEF CompleteRead, TypeInv
<1>2. ASSUME NEW b \in Buffer, CompleteWrite(b) PROVE TypeInv'
  <2>1. PICK r \in -1 .. SIZE :
          cq' = Append(cq, [buf |-> b, res |-> r]) /\ dest' \in [Unit -> 0 .. file_size]
    BY <1>2, WriteEffect
  <2>2. cq' \in Seq(Completion)
    BY <2>1, Enqueued DEF Completion
  <2>. QED BY <1>2, <2>1, <2>2 DEF CompleteWrite, TypeInv
<1>3. CASE Open \/ FillEnd \/ WaitFails
  <2>1. CASE Open
    BY <2>1 DEF Open, TypeInv
  <2>2. CASE FillEnd
    BY <2>2 DEF FillEnd, TypeInv
  <2>3. CASE WaitFails
    BY <2>3 DEF WaitFails, TypeInv
  <2>. QED BY <1>3, <2>1, <2>2, <2>3
<1>4. CASE Fill
  <2>1. i \in Buffer
    BY <1>4 DEF Fill, TypeInv, Buffer
  <2>2. CASE UNCHANGED <<read_offset, active_reqs, submit_this_round, buffer_in_use, info,
                         len, sq>>
    <3>1. /\ UNCHANGED <<bytes_written, buffers, inflight, cq, dest>>
          /\ pc' \in {"fill", "submit"} /\ i' \in {i, i + 1} /\ i <= ENTRY
      BY <1>4, <2>2 DEF Fill
    <3>2. i' \in 1 .. ENTRY + 1
      BY <3>1 DEF TypeInv
    <3>. QED BY <2>2, <3>1, <3>2 DEF TypeInv
  <2>3. CASE buffer_in_use[i] # 1 /\ ~SqFull
    <3>. DEFINE n == Smaller(SIZE, file_size - read_offset)
    <3>1. n \in 1 .. SIZE /\ read_offset + n \in 0 .. file_size
      BY <1>4 DEF Fill, TypeInv, Smaller
    <3>. HIDE DEF n
    <3>2. /\ len' = [len EXCEPT ![i] = n] /\ read_offset' = read_offset + n
          /\ info' = [info EXCEPT ![i] = [op_type |-> 0, offset |-> read_offset]]
          /\ sq' = sq \cup {i} /\ active_reqs' = active_reqs + 1
          /\ submit_this_round' = submit_this_round + 1
          /\ buffer_in_use' = [buffer_in_use EXCEPT ![i] = 1]
          /\ i' = i + 1 /\ UNCHANGED <<pc, bytes_written, buffers, inflight, cq, dest>>
      BY <1>4, <2>3 DEF Fill, n
    <3>3. i' \in 1 .. ENTRY + 1
      BY <3>2, <2>1 DEF Buffer
    <3>4. len' \in [Buffer -> 0 .. SIZE] /\ read_offset' \in 0 .. file_size
      <4>1. len \in [Buffer -> 0 .. SIZE] /\ n \in 0 .. SIZE
        BY <3>1 DEF TypeInv
      <4>. QED BY <3>1, <3>2, <4>1
    <3>5. info' \in [Buffer -> [op_type : {0, 1}, offset : 0 .. file_size]]
      <4>1. [op_type |-> 0, offset |-> read_offset] \in [op_type : {0, 1}, offset : 0 .. file_size]
        BY DEF TypeInv
      <4>2. info \in [Buffer -> [op_type : {0, 1}, offset : 0 .. file_size]]
        BY DEF TypeInv
      <4>. QED BY <3>2, <4>1, <4>2
    <3>6. buffer_in_use' \in [Buffer -> {0, 1}] /\ sq' \in SUBSET Buffer
      BY <2>1, <3>2 DEF TypeInv
    <3>7. active_reqs' \in Int /\ submit_this_round' \in Nat
      BY <3>2 DEF TypeInv
    <3>. QED BY <3>2, <3>3, <3>4, <3>5, <3>6, <3>7 DEF TypeInv
  <2>. QED BY <1>4, <2>2, <2>3 DEF Fill
<1>5. CASE Submit
  <2>1. sq' \in SUBSET Buffer /\ inflight' \in SUBSET Buffer
    BY <1>5 DEF Submit, io_uring_submit, TypeInv
  <2>. QED BY <1>5, <2>1, LoopTypes DEF Submit, TypeInv
<1>6. ASSUME NEW b \in Buffer, NEW r \in -1 .. SIZE, ReadDone(b, r) PROVE TypeInv'
  <2>1. cq' \in Seq(Completion)
    BY <1>6, Dequeued DEF ReadDone
  <2>2. sq' \in SUBSET Buffer /\ inflight' \in SUBSET Buffer
    <3>1. UNCHANGED <<sq, inflight>> \/ io_uring_submit(sq \cup {b})
      BY <1>6 DEF ReadDone
    <3>2. sq \in SUBSET Buffer /\ inflight \in SUBSET Buffer
      BY DEF TypeInv
    <3>. QED BY <3>1, <3>2 DEF io_uring_submit
  <2>3. info' \in [Buffer -> [op_type : {0, 1}, offset : 0 .. file_size]]
    <3>1. info' = info \/ info' = [info EXCEPT ![b].op_type = 1]
      BY <1>6 DEF ReadDone
    <3>2. info \in [Buffer -> [op_type : {0, 1}, offset : 0 .. file_size]]
      BY DEF TypeInv
    <3>3. PICK o \in {0, 1}, n \in 0 .. file_size : info[b] = [op_type |-> o, offset |-> n]
      BY <3>2
    <3>4. [info[b] EXCEPT !.op_type = 1] = [op_type |-> 1, offset |-> n]
      BY <3>3
    <3>5. [info[b] EXCEPT !.op_type = 1] \in [op_type : {0, 1}, offset : 0 .. file_size]
      BY <3>4
    <3>. QED BY <3>1, <3>2, <3>5
  <2>4. len' \in [Buffer -> 0 .. SIZE]
    <3>1. len' = len \/ (r > 0 /\ len' = [len EXCEPT ![b] = r])
      BY <1>6 DEF ReadDone
    <3>2. len \in [Buffer -> 0 .. SIZE] /\ (r > 0 => r \in 0 .. SIZE)
      BY DEF TypeInv
    <3>. QED BY <3>1, <3>2
  <2>5. buffer_in_use' \in [Buffer -> {0, 1}] /\ active_reqs' \in Int
    <3>1. UNCHANGED <<buffer_in_use, active_reqs>> \/ Release(b)
      BY <1>6 DEF ReadDone
    <3>2. buffer_in_use \in [Buffer -> {0, 1}] /\ active_reqs \in Int
      BY DEF TypeInv
    <3>. QED BY <3>1, <3>2 DEF Release
  <2>. QED BY <1>6, <2>1, <2>2, <2>3, <2>4, <2>5, LoopTypes DEF ReadDone, TypeInv
<1>7. ASSUME NEW b \in Buffer, NEW r \in -1 .. SIZE, WriteDone(b, r) PROVE TypeInv'
  <2>1. cq' \in Seq(Completion)
    BY <1>7, Dequeued DEF WriteDone
  <2>2. buffer_in_use' \in [Buffer -> {0, 1}] /\ active_reqs' \in Int /\ bytes_written' \in Int
    BY <1>7 DEF WriteDone, Release, TypeInv
  <2>. QED BY <1>7, <2>1, <2>2, LoopTypes DEF WriteDone, TypeInv
<1>8. CASE UNCHANGED vars
  BY <1>8 DEF vars, TypeInv
<1>. QED BY <1>1, <1>2, <1>3, <1>4, <1>5, <1>6, <1>7, <1>8 DEF Next, Kernel, async_io

-----------------------------------------------------------------------------
(* Buffers *)

\* A buffer that is taken is one more in use.
LEMMA TakesBuffer ==
  ASSUME NEW b \in Buffer, buffer_in_use \in [Buffer -> {0, 1}], buffer_in_use[b] # 1,
         buffer_in_use' = [buffer_in_use EXCEPT ![b] = 1]
  PROVE  InUse' = InUse \cup {b} /\ b \notin InUse /\ InUse \in SUBSET Buffer
<1>1. buffer_in_use'[b] = 1 /\ \A c \in Buffer : c # b => buffer_in_use'[c] = buffer_in_use[c]
  OBVIOUS
<1>. QED BY <1>1 DEF InUse

\* A buffer that is given back is one less in use.
LEMMA GivesBuffer ==
  ASSUME NEW b \in Buffer, buffer_in_use \in [Buffer -> {0, 1}],
         buffer_in_use' = [buffer_in_use EXCEPT ![b] = 0]
  PROVE  InUse' = InUse \ {b} /\ InUse \in SUBSET Buffer
<1>1. buffer_in_use'[b] = 0 /\ \A c \in Buffer : c # b => buffer_in_use'[c] = buffer_in_use[c]
  OBVIOUS
<1>. QED BY <1>1 DEF InUse

\* There are finitely many buffers in use.
LEMMA InUseFinite == IsFiniteSet(InUse) /\ Cardinality(InUse) \in Nat
<1>1. IsFiniteSet(Buffer)
  BY UringCopyAssumption, FS_Interval DEF Buffer
<1>. QED BY <1>1, FS_Subset, FS_CardinalityType DEF InUse

\* A buffer that waits for its completion to be seen is not in the ring, which
\* therefore has a place for its write: io_uring_get_sqe does not fail there.
LEMMA RingHasPlace ==
  ASSUME TypeInv, NEW b \in Buffer, b \notin sq
  PROVE  ~SqFull
<1>1. IsFiniteSet(Buffer) /\ Cardinality(Buffer) = ENTRY
  BY UringCopyAssumption, FS_Interval DEF Buffer
<1>2. IsFiniteSet(Buffer \ {b}) /\ Cardinality(Buffer \ {b}) = ENTRY - 1
  BY <1>1, FS_RemoveElement
<1>3. sq \in SUBSET (Buffer \ {b})
  BY DEF TypeInv
<1>4. Cardinality(sq) <= ENTRY - 1 /\ IsFiniteSet(sq)
  BY <1>2, <1>3, FS_Subset
<1>. QED BY <1>4, FS_CardinalityType, UringCopyAssumption DEF SqFull

\* The kernel hands a buffer over to the completion queue.
LEMMA KernelHands ==
  ASSUME TypeInv, HandInv, NEW b \in Buffer, NEW r \in -1 .. SIZE, b \in inflight,
         cq' = Append(cq, [buf |-> b, res |-> r]),
         inflight' = inflight \ {b}, UNCHANGED <<buffer_in_use, sq>>
  PROVE  HandInv' /\ InUse' = InUse
<1>1. /\ Len(cq) \in Nat /\ DOMAIN cq = 1 .. Len(cq) /\ DOMAIN cq' = 1 .. Len(cq) + 1
      /\ \A k \in DOMAIN cq : cq'[k] = cq[k]
      /\ cq'[Len(cq) + 1].buf = b
  <2>1. [buf |-> b, res |-> r] \in Completion
    BY DEF Completion
  <2>. QED BY <2>1, Enqueued
<1>2. \A c \in Buffer : Completed(c)' <=> Completed(c) \/ c = b
  BY <1>1 DEF Completed
<1>3. \A k \in DOMAIN cq : cq[k].buf # b
  BY DEF HandInv, Completed
<1>4. \A j, k \in DOMAIN cq' : cq'[j].buf = cq'[k].buf => j = k
  BY <1>1, <1>3 DEF HandInv
<1>5. InUse' = InUse
  BY DEF InUse
<1>. QED BY <1>2, <1>4, <1>5 DEF HandInv

\* The buffer whose completion is seen was in no other hand.
LEMMA SeenHands ==
  ASSUME TypeInv, HandInv, NEW b, NEW r, Seen(b, r), cq' = Tail(cq)
  PROVE  /\ b \in Buffer /\ b \in InUse /\ b \notin sq /\ b \notin inflight
         /\ ~Completed(b)' /\ \A c \in Buffer : c # b => (Completed(c)' <=> Completed(c))
         /\ \A j, k \in DOMAIN cq' : cq'[j].buf = cq'[k].buf => j = k
<1>1. /\ Len(cq) \in Nat \ {0} /\ DOMAIN cq = 1 .. Len(cq) /\ DOMAIN cq' = 1 .. Len(cq) - 1
      /\ \A k \in DOMAIN cq' : cq'[k] = cq[k + 1]
      /\ cq[1].buf = b /\ b \in Buffer
  <2>1. cq[1] = [buf |-> b, res |-> r] /\ b \in Buffer
    BY Dequeued
  <2>2. cq[1].buf = b
    BY <2>1
  <2>. QED BY <2>1, <2>2, Dequeued
<1>2. \A j, k \in DOMAIN cq : cq[j].buf = cq[k].buf => j = k
  BY DEF HandInv
<1>3. ~Completed(b)'
  BY <1>1, <1>2 DEF Completed
<1>4. ASSUME NEW c \in Buffer, c # b PROVE Completed(c)' <=> Completed(c)
  <2>1. ASSUME NEW k \in DOMAIN cq, cq[k].buf = c PROVE Completed(c)'
    <3>1. k # 1 /\ k - 1 \in DOMAIN cq'
      BY <1>1, <1>4, <2>1
    <3>2. cq'[k - 1] = cq[(k - 1) + 1] /\ (k - 1) + 1 = k
      BY <1>1, <3>1
    <3>. QED BY <2>1, <3>1, <3>2 DEF Completed
  <2>2. Completed(c)' => Completed(c)
    BY <1>1 DEF Completed
  <2>. QED BY <2>1, <2>2 DEF Completed
<1>5. \A j, k \in DOMAIN cq' : cq'[j].buf = cq'[k].buf => j = k
  BY <1>1, <1>2
<1>6. Completed(b)
  BY <1>1 DEF Completed
<1>. QED BY <1>1, <1>3, <1>4, <1>5, <1>6 DEF HandInv

\* What leaves the submission queue is in the kernel, and nothing else is.
LEMMA SubmitHands ==
  ASSUME NEW new, io_uring_submit(new), NEW c, c \notin new \/ c \notin inflight
  PROVE  /\ c \in sq' \/ c \in inflight' <=> c \in new \/ c \in inflight
         /\ ~(c \in sq' /\ c \in inflight')
BY DEF io_uring_submit

\* The loop ends when all was written and no request is active.
LEMMA LoopEnd ==
  ASSUME LoopTest, active_reqs' = Cardinality(InUse'), InUse' \in SUBSET Buffer,
         bytes_written' \in Int
  PROVE  pc' = "fill" \/ (pc' = "done" /\ InUse' = {} /\ bytes_written' >= file_size)
<1>1. IsFiniteSet(InUse') /\ Cardinality(InUse') \in Nat
  <2>1. IsFiniteSet(Buffer)
    BY UringCopyAssumption, FS_Interval DEF Buffer
  <2>. QED BY <2>1, FS_Subset, FS_CardinalityType
<1>2. Cardinality(InUse') = 0 => InUse' = {}
  BY <1>1, FS_EmptySet
<1>. QED BY <1>1, <1>2, UringCopyAssumption DEF LoopTest

\* Nothing is in use at the start.
LEMMA InitHands == Init => HandInv /\ LoopInv
<1>. SUFFICES ASSUME Init PROVE HandInv /\ LoopInv
  OBVIOUS
<1>1. InUse = {}
  BY DEF Init, InUse
<1>2. HandInv
  BY <1>1 DEF Init, HandInv, Completed
<1>. QED BY <1>1, <1>2, FS_EmptySet DEF Init, LoopInv

\* Every step keeps each buffer in one hand, and their number.
LEMMA StepHands ==
  ASSUME TypeInv, TypeInv', HandInv, LoopInv, [Next]_vars
  PROVE  HandInv' /\ LoopInv'
<1>1. ASSUME NEW b \in Buffer, Kernel(b) PROVE HandInv' /\ LoopInv'
  <2>1. PICK r \in Results(len[b]) : cq' = Append(cq, [buf |-> b, res |-> r])
    BY <1>1 DEF Kernel, CompleteRead, CompleteWrite
  <2>2. r \in -1 .. SIZE
    BY ResultsBounded DEF TypeInv
  <2>3. /\ b \in inflight /\ inflight' = inflight \ {b}
        /\ UNCHANGED <<pc, read_offset, bytes_written, active_reqs, buffer_in_use, sq>>
    BY <1>1 DEF Kernel, CompleteRead, CompleteWrite
  <2>4. HandInv' /\ InUse' = InUse
    BY <2>1, <2>2, <2>3, KernelHands
  <2>. QED BY <2>3, <2>4 DEF LoopInv
\* steps that leave the buffers where they are
<1>2. ASSUME UNCHANGED <<buffer_in_use, sq, inflight, cq>>
      PROVE  HandInv' /\ InUse' = InUse
  <2>1. InUse' = InUse /\ \A b \in Buffer : Completed(b)' <=> Completed(b)
    BY <1>2 DEF InUse, Completed
  <2>. QED BY <1>2, <2>1 DEF HandInv
<1>3. CASE Open
  <2>1. HandInv' /\ InUse' = InUse
    BY <1>2, <1>3 DEF Open
  <2>2. bytes_written >= file_size \/ pc' # "done"
    BY <1>3, UringCopyAssumption DEF Open, LoopInv
  <2>. QED BY <1>3, <2>1, <2>2 DEF Open, LoopInv
<1>4. CASE Fill
  <2>1. i \in Buffer
    BY <1>4, UringCopyAssumption DEF Fill, TypeInv, Buffer
  <2>2. CASE UNCHANGED <<buffer_in_use, sq, active_reqs>>
    BY <1>2, <1>4, <2>2 DEF Fill, LoopInv
  <2>3. CASE buffer_in_use[i] # 1 /\ ~SqFull
    <3>1. /\ pc = "fill" /\ pc' = "fill" /\ sq' = sq \cup {i} /\ active_reqs' = active_reqs + 1
          /\ buffer_in_use' = [buffer_in_use EXCEPT ![i] = 1] /\ UNCHANGED <<inflight, cq>>
      BY <1>4, <2>3 DEF Fill
    <3>2. InUse' = InUse \cup {i} /\ i \notin InUse
      BY <2>1, <2>3, <3>1, TakesBuffer DEF TypeInv
    <3>3. \A b \in Buffer : Completed(b)' <=> Completed(b)
      BY <3>1 DEF Completed
    <3>4. HandInv'
      BY <2>1, <3>1, <3>2, <3>3 DEF HandInv
    <3>5. active_reqs' = Cardinality(InUse')
      BY <3>1, <3>2, InUseFinite, FS_AddElement DEF LoopInv
    <3>. QED BY <3>1, <3>4, <3>5 DEF LoopInv
  <2>. QED BY <1>4, <2>2, <2>3 DEF Fill
<1>5. CASE FillEnd \/ WaitFails
  BY <1>2, <1>5 DEF FillEnd, WaitFails, LoopInv
<1>6. CASE Submit
  <2>1. /\ io_uring_submit(sq) \/ UNCHANGED <<sq, inflight>>
        /\ UNCHANGED <<buffer_in_use, cq, active_reqs, bytes_written>>
        /\ pc' = "wait" \/ LoopTest
    BY <1>6 DEF Submit
  <2>2. InUse' = InUse /\ \A b \in Buffer : Completed(b)' <=> Completed(b)
    BY <2>1 DEF InUse, Completed
  <2>3. HandInv'
    BY <2>1, <2>2, SubmitHands DEF HandInv
  <2>. QED BY <2>1, <2>2, <2>3, LoopEnd DEF LoopInv, InUse, TypeInv
\* a completed request is over, and its buffer with it
<1>r. ASSUME NEW b \in Buffer, NEW r, Seen(b, r), cq' = Tail(cq), Release(b),
             UNCHANGED <<sq, inflight>>
      PROVE  HandInv' /\ active_reqs' = Cardinality(InUse')
  <2>1. InUse' = InUse \ {b} /\ b \in InUse
    <3>1. b \in InUse
      BY <1>r, SeenHands DEF InUse
    <3>. QED BY <1>r, <3>1, GivesBuffer DEF Release, TypeInv
  <2>2. HandInv'
    BY <1>r, <2>1, SeenHands DEF HandInv
  <2>. QED BY <1>r, <2>1, <2>2, InUseFinite, FS_RemoveElement DEF Release, LoopInv
<1>7. ASSUME NEW b \in Buffer, NEW r \in -1 .. SIZE, ReadDone(b, r)
      PROVE  HandInv' /\ LoopInv'
  <2>1. Seen(b, r) /\ cq' = Tail(cq) /\ LoopTest
    BY <1>7 DEF ReadDone
  <2>2. HandInv' /\ active_reqs' = Cardinality(InUse')
    <3>1. CASE r > 0
      <4>1. ~SqFull
        BY <2>1, SeenHands, RingHasPlace
      <4>2. UNCHANGED <<buffer_in_use, active_reqs>> /\ io_uring_submit(sq \cup {b})
        BY <1>7, <3>1, <4>1 DEF ReadDone
      <4>3. InUse' = InUse
        BY <4>2 DEF InUse
      <4>. QED BY <2>1, <4>2, <4>3, SeenHands, SubmitHands DEF HandInv, LoopInv
    <3>2. CASE ~(r > 0)
      BY <1>7, <1>r, <3>2 DEF ReadDone
    <3>. QED BY <3>1, <3>2
  <2>. QED BY <2>1, <2>2, LoopEnd DEF LoopInv, InUse, TypeInv
<1>8. ASSUME NEW b \in Buffer, NEW r \in -1 .. SIZE, WriteDone(b, r)
      PROVE  HandInv' /\ LoopInv'
  <2>1. HandInv' /\ active_reqs' = Cardinality(InUse') /\ LoopTest
    BY <1>8, <1>r DEF WriteDone
  <2>. QED BY <2>1, LoopEnd DEF LoopInv, InUse, TypeInv
<1>9. CASE UNCHANGED vars
  BY <1>2, <1>9 DEF vars, LoopInv
<1>. QED BY <1>1, <1>3, <1>4, <1>5, <1>6, <1>7, <1>8, <1>9 DEF Next, async_io

-----------------------------------------------------------------------------
(* Data *)

\* A buffer keeps its block, or some of it.
LEMMA ShrinkRanges ==
  ASSUME TypeInv, TypeInv', RangesInv, InUse' \in SUBSET InUse, read_offset' >= read_offset,
         \A b \in InUse' : info'[b].offset = info[b].offset /\ len'[b] <= len[b]
  PROVE  RangesInv'
<1>1. InUse \in SUBSET Buffer
  BY DEF InUse
<1>2. \A b \in Buffer : /\ len[b] \in 0 .. SIZE /\ len'[b] \in 0 .. SIZE
                        /\ info[b].offset \in Nat /\ info'[b].offset \in Nat
  BY DEF TypeInv
<1>3. read_offset \in Nat /\ read_offset' \in Nat
  BY DEF TypeInv
<1>4. ASSUME NEW b \in InUse' PROVE (Place(b, len[b]) <= read_offset)'
  BY <1>1, <1>2, <1>3, <1>4 DEF RangesInv, Place
<1>5. ASSUME NEW b \in InUse', NEW c \in InUse', b # c,
             NEW m \in 1 .. len'[b], NEW n \in 1 .. len'[c]
      PROVE  (Place(b, m) # Place(c, n))'
  <2>1. m \in 1 .. len[b] /\ n \in 1 .. len[c]
    BY <1>1, <1>2, <1>5
  <2>. QED BY <1>5, <2>1 DEF RangesInv, Place
<1>. QED BY <1>4, <1>5 DEF RangesInv

\* The completion that is seen told the truth about its buffer.
LEMMA SeenContent ==
  ASSUME TypeInv, ContentInv, NEW b, NEW r, Seen(b, r), cq' = Tail(cq)
  PROVE  Holds(b, r)
<1>1. 1 \in DOMAIN cq /\ cq[1] = [buf |-> b, res |-> r]
  BY Dequeued
<1>2. cq[1].buf = b /\ cq[1].res = r
  BY <1>1
<1>3. Holds(cq[1].buf, cq[1].res)
  BY <1>1 DEF ContentInv
<1>. QED BY <1>2, <1>3

\* Every step keeps the blocks under way apart.
LEMMA StepRanges ==
  ASSUME TypeInv, TypeInv', HandInv, RangesInv, ContentInv, [Next]_vars
  PROVE  RangesInv'
<1>. USE UringCopyAssumption
<1>1. CASE UNCHANGED <<read_offset, buffer_in_use, info, len>>
  <2>1. InUse' = InUse /\ read_offset \in Int /\ \A b \in Buffer : len[b] \in Int
    BY <1>1 DEF InUse, TypeInv
  <2>. QED BY <1>1, <2>1, ShrinkRanges DEF InUse
<1>2. CASE Fill
  <2>1. i \in Buffer /\ read_offset \in 0 .. file_size /\ read_offset < file_size
    BY <1>2 DEF Fill, TypeInv, Buffer
  <2>2. CASE buffer_in_use[i] # 1 /\ ~SqFull
    <3>. DEFINE n == Smaller(SIZE, file_size - read_offset)
    <3>1. n \in 1 .. SIZE
      BY <2>1 DEF Smaller
    <3>. HIDE DEF n
    <3>2. /\ len' = [len EXCEPT ![i] = n] /\ read_offset' = read_offset + n
          /\ info' = [info EXCEPT ![i] = [op_type |-> 0, offset |-> read_offset]]
          /\ buffer_in_use' = [buffer_in_use EXCEPT ![i] = 1]
      BY <1>2, <2>2 DEF Fill, n
    <3>3. \A b \in Buffer \ {i} : info'[b] = info[b] /\ len'[b] = len[b]
      BY <3>2 DEF TypeInv
    <3>4. len'[i] = n /\ info'[i].offset = read_offset
      BY <2>1, <3>2 DEF TypeInv
    <3>5. InUse' = InUse \cup {i} /\ i \notin InUse /\ InUse \in SUBSET Buffer
      BY <2>1, <2>2, <3>2, TakesBuffer DEF TypeInv
    <3>6. \A b \in Buffer : len[b] \in 0 .. SIZE /\ info[b].offset \in Nat
      BY DEF TypeInv
    <3>7. \A b \in InUse' : (Place(b, len[b]) <= read_offset)'
      BY <2>1, <3>1, <3>2, <3>3, <3>4, <3>5, <3>6 DEF RangesInv, Place
    \* the block of another buffer is among those asked for before
    <3>8. ASSUME NEW b \in InUse, NEW m \in 1 .. len[b]
          PROVE  Place(b, m) \in Nat /\ Place(b, m) <= read_offset
      BY <2>1, <3>5, <3>6 DEF RangesInv, Place
    <3>9. ASSUME NEW b \in InUse', NEW c \in InUse', b # c,
                 NEW j \in 1 .. len'[b], NEW k \in 1 .. len'[c]
          PROVE  (Place(b, j) # Place(c, k))'
      <4>1. CASE b = i
        <5>1. c \in InUse /\ c \in Buffer \ {i} /\ k \in 1 .. len[c]
          BY <3>3, <3>5, <3>9, <4>1
        <5>2. Place(c, k)' = Place(c, k) /\ Place(c, k) <= read_offset /\ Place(c, k) \in Nat
          BY <3>3, <3>8, <5>1 DEF Place
        <5>3. Place(b, j)' = read_offset + j /\ j \in Nat \ {0}
          BY <3>1, <3>4, <3>9, <4>1 DEF Place
        <5>. QED BY <2>1, <5>2, <5>3
      <4>2. CASE c = i
        <5>1. b \in InUse /\ b \in Buffer \ {i} /\ j \in 1 .. len[b]
          BY <3>3, <3>5, <3>9, <4>2
        <5>2. Place(b, j)' = Place(b, j) /\ Place(b, j) <= read_offset /\ Place(b, j) \in Nat
          BY <3>3, <3>8, <5>1 DEF Place
        <5>3. Place(c, k)' = read_offset + k /\ k \in Nat \ {0}
          BY <3>1, <3>4, <3>9, <4>2 DEF Place
        <5>. QED BY <2>1, <5>2, <5>3
      <4>3. CASE b # i /\ c # i
        <5>1. /\ b \in InUse /\ c \in InUse /\ b \in Buffer \ {i} /\ c \in Buffer \ {i}
              /\ j \in 1 .. len[b] /\ k \in 1 .. len[c]
          BY <3>3, <3>5, <3>9, <4>3
        <5>2. Place(b, j)' = Place(b, j) /\ Place(c, k)' = Place(c, k)
          BY <3>3, <5>1 DEF Place
        <5>. QED BY <3>9, <5>1, <5>2 DEF RangesInv
      <4>. QED BY <4>1, <4>2, <4>3
    <3>. QED BY <3>7, <3>9 DEF RangesInv
  <2>. QED BY <1>1, <1>2, <2>2 DEF Fill
<1>3. ASSUME NEW b \in Buffer, NEW r \in -1 .. SIZE, ReadDone(b, r) PROVE RangesInv'
  <2>1. /\ read_offset' = read_offset /\ read_offset \in Nat
        /\ \A c \in Buffer : len[c] \in Nat
    BY <1>3 DEF ReadDone, TypeInv
  <2>2. r <= len[b]
    BY <1>3, SeenContent DEF ReadDone, Holds
  <2>3. InUse' \in SUBSET InUse
    BY <1>3 DEF ReadDone, Release, InUse, TypeInv
  <2>4. \A c \in Buffer : info'[c].offset = info[c].offset
    <3>1. info' = info \/ info' = [info EXCEPT ![b].op_type = 1]
      BY <1>3 DEF ReadDone
    <3>2. info \in [Buffer -> [op_type : {0, 1}, offset : 0 .. file_size]]
      BY DEF TypeInv
    <3>3. [info[b] EXCEPT !.op_type = 1].offset = info[b].offset
      BY <3>2
    <3>. QED BY <3>1, <3>2, <3>3
  <2>5. \A c \in Buffer : len'[c] <= len[c]
    <3>1. len' = len \/ len' = [len EXCEPT ![b] = r]
      BY <1>3 DEF ReadDone
    <3>2. len \in [Buffer -> 0 .. SIZE]
      BY DEF TypeInv
    <3>. QED BY <2>1, <2>2, <3>1, <3>2
  <2>. QED BY <2>1, <2>3, <2>4, <2>5, ShrinkRanges DEF InUse
<1>4. ASSUME NEW b \in Buffer, NEW r \in -1 .. SIZE, WriteDone(b, r) PROVE RangesInv'
  <2>1. /\ read_offset' = read_offset /\ read_offset \in Nat /\ info' = info /\ len' = len
        /\ \A c \in Buffer : len[c] \in Nat
    BY <1>4 DEF WriteDone, TypeInv
  <2>2. InUse' \in SUBSET InUse
    BY <1>4 DEF WriteDone, Release, InUse, TypeInv
  <2>. QED BY <2>1, <2>2, ShrinkRanges DEF InUse
<1>. QED BY <1>1, <1>2, <1>3, <1>4
     DEF Next, Kernel, async_io, CompleteRead, CompleteWrite, Open, FillEnd, Submit, WaitFails, vars

\* What a buffer holds depends on its block and its content only.
LEMMA SameHolds ==
  ASSUME NEW b, NEW r, info'[b].offset = info[b].offset, len'[b] = len[b],
         buffers'[b] = buffers[b]
  PROVE  Holds(b, r)' <=> Holds(b, r)
BY DEF Holds, Place

\* Steps that touch neither the completions nor their blocks keep what is in the
\* buffers.
LEMMA SameContent ==
  ASSUME TypeInv, ContentInv, UNCHANGED <<cq, buffers>>,
         \A b \in InUse' : b \in InUse \/ info'[b].op_type = 0,
         \A b \in Buffer : (b \in InUse \/ Completed(b)) => info'[b] = info[b] /\ len'[b] = len[b]
  PROVE  ContentInv'
<1>1. \A k \in DOMAIN cq : cq[k].buf \in Buffer
  BY CompletionTypes
<1>2. ASSUME NEW k \in DOMAIN cq
      PROVE  Holds(cq[k].buf, cq[k].res)'
  <2>1. /\ info'[cq[k].buf] = info[cq[k].buf] /\ len'[cq[k].buf] = len[cq[k].buf]
        /\ Holds(cq[k].buf, cq[k].res)
    BY <1>1 DEF Completed, ContentInv
  <2>. QED BY <2>1 DEF Holds, Place
<1>3. ASSUME NEW b \in InUse', info'[b].op_type = 1
      PROVE  Holds(b, len[b])'
  <2>1. b \in InUse /\ info'[b] = info[b] /\ len'[b] = len[b]
    BY <1>3 DEF InUse
  <2>2. Holds(b, len[b])
    BY <1>3, <2>1 DEF ContentInv
  <2>. QED BY <2>1, <2>2 DEF Holds, Place
<1>. QED BY <1>2, <1>3 DEF ContentInv, Holds, Place

\* The kernel adds a completion that tells the truth.
LEMMA KernelContent ==
  ASSUME TypeInv, HandInv, ContentInv, NEW b \in Buffer, b \in inflight,
         NEW r \in -1 .. SIZE, cq' = Append(cq, [buf |-> b, res |-> r]),
         UNCHANGED <<info, len, buffer_in_use>>,
         \A c \in Buffer : c # b => buffers'[c] = buffers[c],
         info[b].op_type = 1 => buffers' = buffers,
         Holds(b, r)'
  PROVE  ContentInv'
<1>1. /\ Len(cq) \in Nat /\ DOMAIN cq = 1 .. Len(cq) /\ DOMAIN cq' = 1 .. Len(cq) + 1
      /\ \A k \in DOMAIN cq : cq'[k] = cq[k]
      /\ cq'[Len(cq) + 1].buf = b /\ cq'[Len(cq) + 1].res = r
  <2>1. [buf |-> b, res |-> r] \in Completion
    BY DEF Completion
  <2>2. cq'[Len(cq) + 1] = [buf |-> b, res |-> r]
    BY <2>1, Enqueued
  <2>. QED BY <2>1, <2>2, Enqueued
<1>2. \A k \in DOMAIN cq : cq[k].buf \in Buffer /\ cq[k].buf # b
  BY CompletionTypes DEF HandInv, Completed
<1>3. ASSUME NEW k \in DOMAIN cq'
      PROVE  Holds(cq[k].buf, cq[k].res)'
  <2>1. CASE k \in DOMAIN cq
    <3>1. Holds(cq[k].buf, cq[k].res) /\ cq'[k] = cq[k]
      BY <1>1, <2>1 DEF ContentInv
    <3>2. buffers'[cq[k].buf] = buffers[cq[k].buf]
      BY <1>2, <2>1
    <3>. QED BY <3>1, <3>2 DEF Holds, Place
  <2>2. CASE k = Len(cq) + 1
    BY <1>1, <2>2 DEF Holds, Place
  <2>. QED BY <1>1, <1>3, <2>1, <2>2
<1>4. ASSUME NEW c \in InUse', info'[c].op_type = 1
      PROVE  Holds(c, len[c])'
  <2>1. c \in InUse /\ c \in Buffer
    BY <1>4 DEF InUse
  <2>2. Holds(c, len[c]) /\ buffers'[c] = buffers[c]
    BY <1>4, <2>1 DEF ContentInv
  <2>. QED BY <2>2 DEF Holds, Place
<1>. QED BY <1>3, <1>4 DEF ContentInv, Holds, Place

\* async_io sees a completion; those that are left are of other buffers.
LEMMA SeenKeepsContent ==
  ASSUME TypeInv, HandInv, ContentInv, NEW b \in Buffer, NEW r, Seen(b, r), cq' = Tail(cq),
         buffers' = buffers, InUse' \in SUBSET InUse,
         \A c \in Buffer : c # b => info'[c] = info[c] /\ len'[c] = len[c],
         b \in InUse' => Holds(b, len[b])'
  PROVE  ContentInv'
<1>1. /\ Len(cq) \in Nat \ {0} /\ DOMAIN cq = 1 .. Len(cq) /\ DOMAIN cq' = 1 .. Len(cq) - 1
      /\ \A k \in DOMAIN cq' : cq'[k] = cq[k + 1]
  BY Dequeued
<1>2. ~Completed(b)' /\ \A k \in DOMAIN cq : cq[k].buf \in Buffer
  BY SeenHands, CompletionTypes
<1>3. ASSUME NEW k \in DOMAIN cq' PROVE Holds(cq[k].buf, cq[k].res)'
  <2>1. k + 1 \in DOMAIN cq /\ cq'[k] = cq[k + 1]
    BY <1>1
  <2>2. cq'[k].buf \in Buffer /\ cq'[k].buf # b
    BY <1>2, <2>1 DEF Completed
  <2>3. Holds(cq[k + 1].buf, cq[k + 1].res)
    BY <2>1 DEF ContentInv
  <2>. QED BY <2>1, <2>2, <2>3 DEF Holds, Place
<1>4. ASSUME NEW c \in InUse', info'[c].op_type = 1 PROVE Holds(c, len[c])'
  <2>1. c \in InUse /\ c \in Buffer
    BY <1>4 DEF InUse
  <2>2. CASE c # b
    <3>1. Holds(c, len[c]) /\ info'[c] = info[c] /\ len'[c] = len[c]
      BY <1>4, <2>1, <2>2 DEF ContentInv
    <3>. QED BY <3>1 DEF Holds, Place
  <2>. QED BY <1>4, <2>2
<1>. QED BY <1>3, <1>4 DEF ContentInv, Holds, Place

\* Every step keeps what is in the buffers true.
LEMMA StepContent ==
  ASSUME TypeInv, HandInv, ContentInv, [Next]_vars
  PROVE  ContentInv'
<1>. USE UringCopyAssumption
<1>1. ASSUME NEW b \in Buffer, CompleteRead(b) PROVE ContentInv'
  <2>1. PICK r \in Results(len[b]) :
          /\ buffers' = [buffers EXCEPT ![b] =
               [u \in 1 .. SIZE |-> IF u <= r THEN info[b].offset + u ELSE @[u]]]
          /\ cq' = Append(cq, [buf |-> b, res |-> r])
    BY <1>1 DEF CompleteRead
  <2>2. r \in -1 .. SIZE /\ r <= len[b]
    BY ResultsBounded DEF TypeInv
  <2>3. DOMAIN buffers = Buffer
    BY DEF TypeInv
  <2>4. buffers'[b] = [u \in 1 .. SIZE |-> IF u <= r THEN info[b].offset + u ELSE buffers[b][u]]
    BY <2>1, <2>3
  <2>5. \A c \in Buffer : c # b => buffers'[c] = buffers[c]
    BY <2>1, <2>3
  <2>6. b \in inflight /\ info[b].op_type = 0 /\ UNCHANGED <<info, len, buffer_in_use>>
    BY <1>1 DEF CompleteRead
  <2>7. Holds(b, r)'
    BY <2>2, <2>4, <2>6 DEF Holds, Place
  <2>. QED BY <2>1, <2>2, <2>5, <2>6, <2>7, KernelContent
<1>2. ASSUME NEW b \in Buffer, CompleteWrite(b) PROVE ContentInv'
  <2>1. PICK r \in -1 .. SIZE : r <= len[b] /\ cq' = Append(cq, [buf |-> b, res |-> r])
    BY <1>2, WriteEffect
  <2>2. b \in inflight /\ info[b].op_type = 1 /\ UNCHANGED <<info, len, buffer_in_use, buffers>>
    BY <1>2 DEF CompleteWrite
  <2>3. b \in InUse /\ len[b] \in Nat
    BY <2>2 DEF HandInv, TypeInv
  <2>4. Holds(b, len[b])
    BY <2>2, <2>3 DEF ContentInv
  <2>5. Holds(b, r)'
    BY <2>1, <2>2, <2>3, <2>4 DEF Holds, Place
  <2>. QED BY <2>1, <2>2, <2>5, KernelContent
<1>3. CASE UNCHANGED <<cq, buffers, buffer_in_use, info, len>>
  BY <1>3, SameContent DEF InUse
<1>4. CASE Fill
  <2>1. i \in Buffer
    BY <1>4 DEF Fill, TypeInv, Buffer
  <2>2. CASE buffer_in_use[i] # 1 /\ ~SqFull
    <3>1. PICK n, o : /\ len' = [len EXCEPT ![i] = n]
                      /\ info' = [info EXCEPT ![i] = [op_type |-> 0, offset |-> o]]
                      /\ buffer_in_use' = [buffer_in_use EXCEPT ![i] = 1]
                      /\ UNCHANGED <<cq, buffers>>
      BY <1>4, <2>2 DEF Fill
    <3>2. DOMAIN info = Buffer /\ DOMAIN len = Buffer
      BY DEF TypeInv
    <3>3. \A b \in Buffer : b # i => info'[b] = info[b] /\ len'[b] = len[b]
      BY <3>1, <3>2
    <3>4. info'[i].op_type = 0
      BY <2>1, <3>1, <3>2
    <3>5. InUse' = InUse \cup {i} /\ i \notin InUse
      BY <2>1, <2>2, <3>1, TakesBuffer DEF TypeInv
    <3>6. ~Completed(i)
      BY <2>1, <3>5 DEF HandInv
    <3>. QED BY <3>1, <3>3, <3>4, <3>5, <3>6, SameContent
  <2>. QED BY <1>3, <1>4, <2>2 DEF Fill
<1>5. ASSUME NEW b \in Buffer, NEW r \in -1 .. SIZE, ReadDone(b, r) PROVE ContentInv'
  <2>1. Seen(b, r) /\ cq' = Tail(cq) /\ buffers' = buffers
    BY <1>5 DEF ReadDone
  <2>2. ~SqFull
    BY <2>1, SeenHands, RingHasPlace
  <2>3. CASE r > 0
    <3>1. /\ info' = [info EXCEPT ![b].op_type = 1] /\ len' = [len EXCEPT ![b] = r]
          /\ UNCHANGED buffer_in_use
      BY <1>5, <2>2, <2>3 DEF ReadDone
    <3>2. /\ info \in [Buffer -> [op_type : {0, 1}, offset : 0 .. file_size]]
          /\ len \in [Buffer -> 0 .. SIZE]
      BY DEF TypeInv
    <3>3. [info[b] EXCEPT !.op_type = 1].offset = info[b].offset
      BY <3>2
    <3>4. info'[b].offset = info[b].offset
      BY <3>1, <3>2, <3>3
    <3>5. len'[b] = r
      BY <3>1, <3>2
    <3>6. \A c \in Buffer : c # b => info'[c] = info[c] /\ len'[c] = len[c]
      BY <3>1, <3>2
    <3>7. Holds(b, len[b])'
      BY <2>1, <3>4, <3>5, SeenContent DEF Holds, Place
    <3>. QED BY <2>1, <3>1, <3>6, <3>7, SeenKeepsContent DEF InUse
  <2>4. CASE ~(r > 0)
    <3>1. UNCHANGED <<info, len>> /\ Release(b)
      BY <1>5, <2>4 DEF ReadDone
    <3>2. InUse' = InUse \ {b}
      BY <3>1, GivesBuffer DEF Release, TypeInv
    <3>. QED BY <2>1, <3>1, <3>2, SeenKeepsContent
  <2>. QED BY <2>3, <2>4
<1>6. ASSUME NEW b \in Buffer, NEW r \in -1 .. SIZE, WriteDone(b, r) PROVE ContentInv'
  <2>1. UNCHANGED <<info, len>> /\ InUse' = InUse \ {b}
    <3>1. UNCHANGED <<info, len>> /\ Release(b)
      BY <1>6 DEF WriteDone
    <3>. QED BY <3>1, GivesBuffer DEF Release, TypeInv
  <2>. QED BY <1>6, <2>1, SeenKeepsContent DEF WriteDone
<1>. QED BY <1>1, <1>2, <1>3, <1>4, <1>5, <1>6
     DEF Next, Kernel, async_io, Open, FillEnd, Submit, WaitFails, vars

-----------------------------------------------------------------------------
(* The destination *)

\* What the kernel completes arrives, when it is a write.
LEMMA KernelArrives ==
  ASSUME TypeInv, HandInv, NEW b \in Buffer, b \in inflight, NEW r \in -1 .. SIZE,
         cq' = Append(cq, [buf |-> b, res |-> r]), info' = info
  PROVE  /\ \A c, n : Arrived(c, n)' <=> Arrived(c, n) \/ (c = b /\ info[b].op_type = 1 /\ n <= r)
         /\ \A n : ~Arrived(b, n)
<1>1. /\ Len(cq) \in Nat /\ DOMAIN cq = 1 .. Len(cq) /\ DOMAIN cq' = 1 .. Len(cq) + 1
      /\ \A k \in DOMAIN cq : cq'[k] = cq[k]
      /\ cq'[Len(cq) + 1].buf = b /\ cq'[Len(cq) + 1].res = r
  <2>1. [buf |-> b, res |-> r] \in Completion
    BY DEF Completion
  <2>2. cq'[Len(cq) + 1] = [buf |-> b, res |-> r]
    BY <2>1, Enqueued
  <2>. QED BY <2>1, <2>2, Enqueued
<1>2. \A n : ~Arrived(b, n)
  BY DEF HandInv, Completed, Arrived
<1>3. ASSUME NEW c, NEW n
      PROVE  Arrived(c, n)' <=> Arrived(c, n) \/ (c = b /\ info[b].op_type = 1 /\ n <= r)
  <2>1. ASSUME Arrived(c, n)' PROVE Arrived(c, n) \/ (c = b /\ info[b].op_type = 1 /\ n <= r)
    <3>1. PICK k \in DOMAIN cq' : cq'[k].buf = c /\ info[c].op_type = 1 /\ n <= cq'[k].res
      BY <2>1 DEF Arrived
    <3>. QED BY <1>1, <3>1 DEF Arrived
  <2>2. ASSUME Arrived(c, n) PROVE Arrived(c, n)'
    BY <1>1, <2>2 DEF Arrived
  <2>3. ASSUME c = b, info[b].op_type = 1, n <= r PROVE Arrived(c, n)'
    <3>1. Len(cq) + 1 \in DOMAIN cq'
      BY <1>1
    <3>. QED BY <1>1, <2>3, <3>1 DEF Arrived
  <2>. QED BY <2>1, <2>2, <2>3
<1>. QED BY <1>2, <1>3

\* Seeing a completion concerns its buffer only.
LEMMA SeenArrives ==
  ASSUME TypeInv, HandInv, NEW b, NEW r, Seen(b, r), cq' = Tail(cq),
         \A c \in Buffer : c # b => info'[c] = info[c]
  PROVE  /\ \A c \in Buffer : \A n : c # b => (Arrived(c, n)' <=> Arrived(c, n))
         /\ \A n : ~Arrived(b, n)'
         /\ \A n : Arrived(b, n) <=> info[b].op_type = 1 /\ n <= r
<1>1. /\ Len(cq) \in Nat \ {0} /\ DOMAIN cq = 1 .. Len(cq) /\ DOMAIN cq' = 1 .. Len(cq) - 1
      /\ \A k \in DOMAIN cq' : cq'[k] = cq[k + 1]
      /\ cq[1].buf = b /\ cq[1].res = r
  <2>1. cq[1] = [buf |-> b, res |-> r]
    BY Dequeued
  <2>2. cq[1].buf = b /\ cq[1].res = r
    BY <2>1
  <2>. QED BY <2>2, Dequeued
<1>2. \A n : ~Arrived(b, n)'
  BY SeenHands DEF Completed, Arrived
<1>3. \A n : Arrived(b, n) <=> info[b].op_type = 1 /\ n <= r
  <2>1. \A k \in DOMAIN cq : cq[k].buf = b => k = 1
    BY <1>1 DEF HandInv
  <2>. QED BY <1>1, <2>1 DEF Arrived
<1>4. ASSUME NEW c \in Buffer, NEW n, c # b PROVE Arrived(c, n)' <=> Arrived(c, n)
  <2>1. ASSUME Arrived(c, n) PROVE Arrived(c, n)'
    <3>1. PICK k \in DOMAIN cq : cq[k].buf = c /\ info[c].op_type = 1 /\ n <= cq[k].res
      BY <2>1 DEF Arrived
    <3>2. k # 1 /\ k - 1 \in DOMAIN cq'
      BY <1>1, <1>4, <3>1
    <3>3. cq'[k - 1] = cq[(k - 1) + 1] /\ (k - 1) + 1 = k
      BY <1>1, <3>2
    <3>. QED BY <1>4, <3>1, <3>2, <3>3 DEF Arrived
  <2>2. ASSUME Arrived(c, n)' PROVE Arrived(c, n)
    <3>1. PICK k \in DOMAIN cq' : cq'[k].buf = c /\ info'[c].op_type = 1 /\ n <= cq'[k].res
      BY <2>2 DEF Arrived
    <3>2. k + 1 \in DOMAIN cq /\ cq'[k] = cq[k + 1]
      BY <1>1, <3>1
    <3>. QED BY <1>4, <3>1, <3>2 DEF Arrived
  <2>. QED BY <2>1, <2>2
<1>. QED BY <1>2, <1>3, <1>4

\* What arrived is part of the block of a buffer in use.
LEMMA ArrivedInUse ==
  ASSUME TypeInv, HandInv, ContentInv, NEW b, NEW n, Arrived(b, n)
  PROVE  b \in InUse /\ b \in Buffer /\ (n \in Nat => n <= len[b])
<1>1. PICK k \in DOMAIN cq : cq[k].buf = b /\ n <= cq[k].res
  BY DEF Arrived
<1>2. b \in Buffer /\ cq[k].res \in Int /\ len[b] \in Int
  BY <1>1, CompletionTypes DEF TypeInv
<1>3. b \in InUse
  BY <1>1, <1>2 DEF Completed, HandInv
<1>4. Holds(b, cq[k].res)
  BY <1>1 DEF ContentInv
<1>. QED BY <1>1, <1>2, <1>3, <1>4 DEF Holds

\* Places of the blocks under way are units of the file that were asked for.
LEMMA PlaceTypes ==
  ASSUME TypeInv, RangesInv, NEW b \in InUse, NEW n \in 1 .. len[b]
  PROVE  Place(b, n) \in Unit /\ Place(b, n) <= read_offset /\ b \in Buffer
<1>1. b \in Buffer
  BY DEF InUse
<1>2. info[b].offset \in Nat /\ len[b] \in Nat /\ read_offset \in 0 .. file_size
  BY <1>1 DEF TypeInv
<1>. QED BY <1>1, <1>2, UringCopyAssumption DEF RangesInv, Place, Unit

\* Every step that does not give up keeps the destination true.
LEMMA StepDest ==
  ASSUME TypeInv, TypeInv', HandInv, LoopInv, RangesInv, RangesInv', ContentInv,
         pc # "failed", DestInv, [Next]_vars
  PROVE  DestInv'
<1>. USE UringCopyAssumption
\* steps that leave the destination and what arrived alone
<1>1. ASSUME dest' = dest, read_offset' >= read_offset,
             \A b \in InUse' : /\ b \in InUse
                               /\ info'[b].offset = info[b].offset /\ len'[b] <= len[b]
                               /\ \A n : Arrived(b, n)' <=> Arrived(b, n)
      PROVE  DestInv'
  <2>1. read_offset \in Nat /\ read_offset' \in Nat
    BY DEF TypeInv
  <2>2. \A u \in Unit : dest'[u] \in {0, u} /\ (u > read_offset' => dest'[u] = 0)
    BY <1>1, <2>1 DEF DestInv, Unit
  <2>3. ASSUME NEW b \in InUse', NEW n \in 1 .. len'[b]
        PROVE  (dest[Place(b, n)] # 0 <=> Arrived(b, n))'
    <3>1. b \in InUse /\ b \in Buffer /\ len[b] \in Nat /\ len'[b] \in Nat
      BY <1>1 DEF InUse, TypeInv
    <3>2. n \in 1 .. len[b]
      BY <1>1, <3>1
    <3>3. Place(b, n)' = Place(b, n)
      BY <1>1 DEF Place
    <3>. QED BY <1>1, <3>1, <3>2, <3>3 DEF DestInv
  <2>. QED BY <2>2, <2>3 DEF DestInv
<1>2. CASE UNCHANGED <<dest, read_offset, buffer_in_use, info, len, cq>>
  <2>1. \A b \in Buffer : len[b] \in Int
    BY DEF TypeInv
  <2>2. read_offset \in Int /\ InUse' = InUse
    BY <1>2 DEF InUse, TypeInv
  <2>3. \A b, n : Arrived(b, n)' <=> Arrived(b, n)
    BY <1>2 DEF Arrived
  <2>. QED BY <1>1, <1>2, <2>1, <2>2, <2>3 DEF InUse
<1>3. ASSUME NEW b \in Buffer, CompleteRead(b) PROVE DestInv'
  <2>1. PICK r \in Results(len[b]) : cq' = Append(cq, [buf |-> b, res |-> r])
    BY <1>3 DEF CompleteRead
  <2>2. r \in -1 .. SIZE
    BY ResultsBounded DEF TypeInv
  <2>3. /\ b \in inflight /\ info[b].op_type = 0
        /\ UNCHANGED <<dest, read_offset, buffer_in_use, info, len>>
    BY <1>3 DEF CompleteRead
  <2>4. \A c, n : Arrived(c, n)' <=> Arrived(c, n)
    BY <2>1, <2>2, <2>3, KernelArrives
  <2>5. read_offset \in Int /\ InUse' = InUse /\ \A c \in Buffer : len[c] \in Int
    BY <2>3 DEF InUse, TypeInv
  <2>. QED BY <1>1, <2>3, <2>4, <2>5 DEF InUse
<1>4. ASSUME NEW b \in Buffer, CompleteWrite(b) PROVE DestInv'
  <2>1. /\ b \in inflight /\ info[b].op_type = 1
        /\ UNCHANGED <<read_offset, buffer_in_use, info, len>>
    BY <1>4 DEF CompleteWrite
  <2>2. b \in InUse /\ InUse' = InUse
    BY <2>1 DEF HandInv, InUse
  <2>3. pc \notin {"done", "failed"}
    BY <2>2 DEF LoopInv
  <2>4. PICK r \in -1 .. SIZE :
          /\ r <= len[b] /\ cq' = Append(cq, [buf |-> b, res |-> r])
          /\ dest' = [u \in Unit |-> IF u - info[b].offset \in 1 .. r THEN u ELSE dest[u]]
    BY <1>4, <2>3, WriteEffect
  <2>5. /\ \A c, n : Arrived(c, n)' <=> Arrived(c, n) \/ (c = b /\ n <= r)
        /\ \A n : ~Arrived(b, n)
    BY <2>1, <2>4, KernelArrives
  <2>6. info[b].offset \in Nat /\ len[b] \in Nat /\ read_offset \in Nat
    BY DEF TypeInv
  \* the units that are moved are places of the block in b
  <2>7. ASSUME NEW u \in Unit, u - info[b].offset \in 1 .. r
        PROVE  u - info[b].offset \in 1 .. len[b] /\ u = Place(b, u - info[b].offset)
    <3>1. u \in Nat /\ r \in Int /\ r <= len[b]
      BY <2>4, <2>7, UringCopyAssumption DEF Unit
    <3>. QED BY <2>6, <2>7, <3>1 DEF Place
  <2>8. \A u \in Unit : dest'[u] \in {0, u} /\ (u > read_offset' => dest'[u] = 0)
    <3>. SUFFICES ASSUME NEW u \in Unit
                  PROVE  dest'[u] \in {0, u} /\ (u > read_offset => dest'[u] = 0)
      BY <2>1
    <3>1. CASE u - info[b].offset \in 1 .. r
      <4>1. u <= read_offset
        BY <2>2, <2>7, <3>1, PlaceTypes
      <4>. QED BY <2>4, <2>6, <3>1, <4>1 DEF Unit
    <3>2. CASE u - info[b].offset \notin 1 .. r
      BY <2>4, <3>2 DEF DestInv
    <3>. QED BY <3>1, <3>2
  <2>9. ASSUME NEW c \in InUse, NEW n \in 1 .. len[c]
        PROVE  dest'[Place(c, n)] # 0 <=> Arrived(c, n)'
    <3>1. Place(c, n) \in Unit /\ c \in Buffer
      BY <2>9, PlaceTypes
    <3>2. CASE c = b
      <4>1. dest[Place(b, n)] = 0
        BY <2>5, <2>9, <3>2 DEF DestInv
      <4>2. Place(b, n) - info[b].offset = n /\ n \in Nat /\ n >= 1
        BY <2>6, <2>9, <3>2 DEF Place
      <4>3. Arrived(b, n)' <=> n \in 1 .. r
        BY <2>4, <2>5, <4>2
      <4>. QED BY <2>4, <3>1, <3>2, <4>1, <4>2, <4>3 DEF Unit
    <3>3. CASE c # b
      <4>1. Place(c, n) - info[b].offset \notin 1 .. r
        BY <2>2, <2>7, <2>9, <3>1, <3>3 DEF RangesInv
      <4>2. dest'[Place(c, n)] = dest[Place(c, n)]
        BY <2>4, <3>1, <4>1
      <4>. QED BY <2>5, <2>9, <3>3, <4>2 DEF DestInv
    <3>. QED BY <3>2, <3>3
  <2>10. \A c, n : Place(c, n)' = Place(c, n)
    BY <2>1 DEF Place
  <2>. QED BY <2>1, <2>2, <2>8, <2>9, <2>10 DEF DestInv
<1>5. CASE Fill
  <2>1. i \in Buffer /\ read_offset \in 0 .. file_size /\ read_offset < file_size
    BY <1>5 DEF Fill, TypeInv, Buffer
  <2>2. CASE buffer_in_use[i] # 1 /\ ~SqFull
    <3>. DEFINE n == Smaller(SIZE, file_size - read_offset)
    <3>1. n \in 1 .. SIZE
      BY <2>1 DEF Smaller
    <3>. HIDE DEF n
    <3>2. /\ len' = [len EXCEPT ![i] = n] /\ read_offset' = read_offset + n
          /\ info' = [info EXCEPT ![i] = [op_type |-> 0, offset |-> read_offset]]
          /\ buffer_in_use' = [buffer_in_use EXCEPT ![i] = 1]
          /\ cq' = cq /\ dest' = dest
      BY <1>5, <2>2 DEF Fill, n
    <3>3. DOMAIN info = Buffer /\ DOMAIN len = Buffer
      BY DEF TypeInv
    <3>4. \A b \in Buffer \ {i} : info'[b] = info[b] /\ len'[b] = len[b]
      BY <3>2, <3>3
    <3>5. len'[i] = n /\ info'[i].offset = read_offset /\ info'[i].op_type = 0
      BY <2>1, <3>2, <3>3
    <3>6. InUse' = InUse \cup {i} /\ i \notin InUse /\ InUse \in SUBSET Buffer
      <4>1. DOMAIN buffer_in_use = Buffer
        BY DEF TypeInv
      <4>. QED BY <2>1, <2>2, <3>2, <4>1 DEF InUse
    <3>7. \A u \in Unit : dest'[u] \in {0, u} /\ (u > read_offset' => dest'[u] = 0)
      BY <2>1, <3>1, <3>2 DEF DestInv, Unit
    <3>9. read_offset + n <= file_size
      BY <2>1 DEF Smaller, n
    <3>8. ASSUME NEW b \in InUse', NEW m \in 1 .. len'[b]
          PROVE  (dest[Place(b, m)] # 0 <=> Arrived(b, m))'
      <4>1. CASE b = i
        <5>1. m \in 1 .. n
          BY <3>5, <3>8, <4>1
        <5>2. Place(b, m)' = read_offset + m
          BY <3>5, <4>1 DEF Place
        <5>3. Place(b, m)' \in Unit
          BY <2>1, <3>1, <3>9, <5>1, <5>2 DEF Unit
        <5>4. dest[Place(b, m)'] = 0
          BY <2>1, <5>1, <5>2, <5>3 DEF DestInv
        <5>5. ~Arrived(b, m)'
          BY <3>5, <4>1 DEF Arrived
        <5>. QED BY <3>2, <5>4, <5>5
      <4>2. CASE b # i
        <5>1. b \in InUse /\ b \in Buffer /\ info'[b] = info[b] /\ m \in 1 .. len[b]
          BY <3>4, <3>6, <3>8, <4>2
        <5>2. Place(b, m)' = Place(b, m) /\ (Arrived(b, m)' <=> Arrived(b, m))
          BY <3>2, <5>1 DEF Place, Arrived
        <5>. QED BY <3>2, <5>1, <5>2 DEF DestInv
      <4>. QED BY <4>1, <4>2
    <3>. QED BY <3>7, <3>8 DEF DestInv
  <2>. QED BY <1>2, <1>5, <2>2 DEF Fill
<1>6. ASSUME NEW b \in Buffer, NEW r \in -1 .. SIZE, ReadDone(b, r) PROVE DestInv'
  <2>1. /\ Seen(b, r) /\ info[b].op_type = 0 /\ cq' = Tail(cq)
        /\ dest' = dest /\ read_offset' = read_offset
    BY <1>6 DEF ReadDone
  <2>2. ~SqFull
    BY <2>1, SeenHands, RingHasPlace
  <2>3. /\ read_offset \in Int /\ \A c \in Buffer : len[c] \in Int
        /\ DOMAIN len = Buffer
    BY DEF TypeInv
  <2>4. CASE r > 0
    <3>1. /\ info' = [info EXCEPT ![b].op_type = 1] /\ len' = [len EXCEPT ![b] = r]
          /\ InUse' = InUse
      BY <1>6, <2>2, <2>4 DEF ReadDone, InUse
    <3>2. info \in [Buffer -> [op_type : {0, 1}, offset : 0 .. file_size]]
      BY DEF TypeInv
    <3>3. [info[b] EXCEPT !.op_type = 1].offset = info[b].offset
      BY <3>2
    <3>4. info'[b].offset = info[b].offset /\ \A c \in Buffer : c # b => info'[c] = info[c]
      BY <3>1, <3>2, <3>3
    <3>5. len'[b] <= len[b] /\ \A c \in Buffer : c # b => len'[c] = len[c]
      BY <2>1, <2>3, <3>1, SeenContent DEF Holds
    <3>6. \A n : ~Arrived(b, n)' /\ ~Arrived(b, n)
      BY <2>1, <3>4, SeenArrives
    <3>7. \A c \in Buffer : \A n : Arrived(c, n)' <=> Arrived(c, n)
      BY <2>1, <3>4, <3>6, SeenArrives
    <3>8. \A c \in Buffer : info'[c].offset = info[c].offset /\ len'[c] <= len[c]
      BY <2>3, <3>4, <3>5
    <3>. QED BY <1>1, <2>1, <2>3, <3>1, <3>7, <3>8 DEF InUse
  <2>5. CASE ~(r > 0)
    <3>1. UNCHANGED <<info, len>> /\ Release(b)
      BY <1>6, <2>5 DEF ReadDone
    <3>2. InUse' = InUse \ {b}
      <4>1. DOMAIN buffer_in_use = Buffer
        BY DEF TypeInv
      <4>. QED BY <3>1, <4>1 DEF Release, InUse
    <3>3. \A c \in Buffer : \A n : c # b => (Arrived(c, n)' <=> Arrived(c, n))
      BY <2>1, <3>1, SeenArrives
    <3>. QED BY <1>1, <2>1, <2>3, <3>1, <3>2, <3>3 DEF InUse
  <2>. QED BY <2>4, <2>5
<1>7. ASSUME NEW b \in Buffer, NEW r \in -1 .. SIZE, WriteDone(b, r) PROVE DestInv'
  <2>1. /\ Seen(b, r) /\ cq' = Tail(cq) /\ dest' = dest /\ read_offset' = read_offset
        /\ UNCHANGED <<info, len>>
    BY <1>7 DEF WriteDone
  <2>2. InUse' = InUse \ {b}
    <3>1. Release(b)
      BY <1>7 DEF WriteDone
    <3>. QED BY <3>1, GivesBuffer DEF Release, TypeInv
  <2>3. \A c \in Buffer : \A n : c # b => (Arrived(c, n)' <=> Arrived(c, n))
    BY <2>1, SeenArrives
  <2>4. read_offset \in Int /\ \A c \in Buffer : len[c] \in Int
    BY DEF TypeInv
  <2>. QED BY <1>1, <2>1, <2>2, <2>3, <2>4 DEF InUse
<1>. QED BY <1>2, <1>3, <1>4, <1>5, <1>6, <1>7
     DEF Next, Kernel, async_io, Open, FillEnd, Submit, WaitFails, vars

-----------------------------------------------------------------------------
(* Counting *)

\* The size of a part, and of what is left without it.
LEMMA SplitSize ==
  ASSUME NEW S, NEW T \in SUBSET S, IsFiniteSet(S)
  PROVE  /\ IsFiniteSet(T) /\ Cardinality(T) \in Nat /\ Cardinality(S) \in Nat
         /\ IsFiniteSet(S \ T) /\ Cardinality(S \ T) = Cardinality(S) - Cardinality(T)
<1>1. IsFiniteSet(T) /\ IsFiniteSet(S \ T) /\ Cardinality(T) \in Nat /\ Cardinality(S) \in Nat
  BY FS_Subset, FS_CardinalityType
<1>2. Cardinality(S \ T) = Cardinality(S) - Cardinality(S \cap T) /\ S \cap T = T
  BY FS_Difference
<1>. QED BY <1>1, <1>2

\* the places of the first r units of the block in b
Sent(b, r) == {u \in Unit : u - info[b].offset \in 1 .. r}

\* They are as many as the result says.
LEMMA SentSize ==
  ASSUME TypeInv, RangesInv, NEW b \in InUse, NEW r \in -1 .. SIZE, r <= len[b]
  PROVE  /\ IsFiniteSet(Sent(b, r)) /\ Cardinality(Sent(b, r)) = IF r > 0 THEN r ELSE 0
<1>1. /\ info[b].offset \in Nat /\ len[b] \in Nat /\ read_offset \in 0 .. file_size
      /\ info[b].offset + len[b] <= read_offset
  BY DEF TypeInv, InUse, RangesInv, Place
<1>2. Sent(b, r) = (info[b].offset + 1) .. (info[b].offset + r)
  BY <1>1, UringCopyAssumption DEF Sent, Unit
<1>. DEFINE first == info[b].offset + 1
            last == info[b].offset + r
<1>3. first \in Int /\ last \in Int /\ r \in Int /\ last - first + 1 = r
  BY <1>1
<1>4. /\ IsFiniteSet(first .. last)
      /\ Cardinality(first .. last) = IF first > last THEN 0 ELSE last - first + 1
  BY <1>3, FS_Interval
<1>. QED BY <1>2, <1>3, <1>4

\* Unseen writes are what arrived.
LEMMA UnseenAre ==
  TypeInv => UnseenWrites = {u \in Unit : \E b \in Buffer, n \in 1 .. SIZE :
                               Arrived(b, n) /\ u - info[b].offset = n}
<1>. SUFFICES ASSUME TypeInv, NEW u \in Unit
              PROVE  u \in UnseenWrites <=> \E b \in Buffer, n \in 1 .. SIZE :
                               Arrived(b, n) /\ u - info[b].offset = n
  BY DEF UnseenWrites
<1>1. ASSUME u \in UnseenWrites
      PROVE  \E b \in Buffer, n \in 1 .. SIZE : Arrived(b, n) /\ u - info[b].offset = n
  <2>1. PICK k \in DOMAIN cq :
          info[cq[k].buf].op_type = 1 /\ u - info[cq[k].buf].offset \in 1 .. cq[k].res
    BY <1>1 DEF UnseenWrites
  <2>2. cq[k].buf \in Buffer /\ cq[k].res \in -1 .. SIZE
    BY CompletionTypes
  <2>3. u - info[cq[k].buf].offset \in 1 .. SIZE
    BY <2>1, <2>2, UringCopyAssumption
  <2>4. Arrived(cq[k].buf, u - info[cq[k].buf].offset)
    BY <2>1, <2>2 DEF Arrived
  <2>. QED BY <2>2, <2>3, <2>4
<1>2. ASSUME NEW b \in Buffer, NEW n \in 1 .. SIZE, Arrived(b, n), u - info[b].offset = n
      PROVE  u \in UnseenWrites
  <2>1. PICK k \in DOMAIN cq : cq[k].buf = b /\ info[b].op_type = 1 /\ n <= cq[k].res
    BY <1>2 DEF Arrived
  <2>2. cq[k].res \in Int
    BY CompletionTypes
  <2>3. u - info[cq[k].buf].offset \in 1 .. cq[k].res
    BY <1>2, <2>1, <2>2
  <2>. QED BY <2>1, <2>3 DEF UnseenWrites
<1>. QED BY <1>1, <1>2

\* They are on the destination.
LEMMA UnseenWritten ==
  ASSUME TypeInv, HandInv, RangesInv, ContentInv, DestInv
  PROVE  /\ UnseenWrites \in SUBSET Written /\ Written \in SUBSET Unit
         /\ IsFiniteSet(Written) /\ IsFiniteSet(UnseenWrites)
<1>1. ASSUME NEW u \in UnseenWrites PROVE u \in Written
  <2>1. PICK b \in Buffer, n \in 1 .. SIZE : Arrived(b, n) /\ u - info[b].offset = n
    BY UnseenAre
  <2>2. b \in InUse /\ len[b] \in Nat /\ info[b].offset \in Nat
    BY <2>1, ArrivedInUse DEF TypeInv
  <2>3. n \in 1 .. len[b]
    BY <2>1, <2>2, ArrivedInUse
  <2>4. u \in Unit /\ u = Place(b, n)
    BY <2>1, <2>2 DEF UnseenWrites, Place, Unit
  <2>. QED BY <2>1, <2>2, <2>3, <2>4 DEF DestInv, Written
<1>2. IsFiniteSet(Unit)
  BY FS_Interval, UringCopyAssumption DEF Unit
<1>3. Written \in SUBSET Unit
  BY DEF Written
<1>. QED BY <1>1, <1>2, <1>3, FS_Subset

\* Every step that does not give up keeps the count.
LEMMA StepCount ==
  ASSUME TypeInv, TypeInv', HandInv, LoopInv, RangesInv, ContentInv,
         pc # "failed", DestInv, BytesCounted, [Next]_vars
  PROVE  BytesCounted'
<1>. USE UringCopyAssumption
<1>a. UnseenWrites' = {u \in Unit : \E b \in Buffer, n \in 1 .. SIZE :
                         Arrived(b, n)' /\ u - info'[b].offset = n}
  <2>1. (TypeInv => UnseenWrites = {u \in Unit : \E b \in Buffer, n \in 1 .. SIZE :
                       Arrived(b, n) /\ u - info[b].offset = n})'
    BY UnseenAre, PTL
  <2>. QED BY <2>1
<1>b. UnseenWrites = {u \in Unit : \E b \in Buffer, n \in 1 .. SIZE :
                        Arrived(b, n) /\ u - info[b].offset = n}
  BY UnseenAre
\* steps that leave the destination and what arrived alone
<1>1. ASSUME UNCHANGED <<dest, bytes_written>>,
             \A b \in Buffer : \A n : /\ Arrived(b, n)' <=> Arrived(b, n)
                                      /\ Arrived(b, n) => info'[b].offset = info[b].offset
      PROVE  BytesCounted'
  <2>1. UnseenWrites' = UnseenWrites
    BY <1>1, <1>a, <1>b
  <2>2. Written' = Written
    BY <1>1 DEF Written
  <2>. QED BY <1>1, <2>1, <2>2 DEF BytesCounted
<1>2. CASE UNCHANGED <<dest, bytes_written, info, cq>>
  BY <1>1, <1>2 DEF Arrived
<1>3. ASSUME NEW b \in Buffer, CompleteRead(b) PROVE BytesCounted'
  <2>1. PICK r \in Results(len[b]) : cq' = Append(cq, [buf |-> b, res |-> r])
    BY <1>3 DEF CompleteRead
  <2>2. r \in -1 .. SIZE
    BY ResultsBounded DEF TypeInv
  <2>3. b \in inflight /\ info[b].op_type = 0 /\ UNCHANGED <<dest, bytes_written, info>>
    BY <1>3 DEF CompleteRead
  <2>. QED BY <1>1, <2>1, <2>2, <2>3, KernelArrives
<1>4. ASSUME NEW b \in Buffer, CompleteWrite(b) PROVE BytesCounted'
  <2>1. b \in inflight /\ info[b].op_type = 1 /\ UNCHANGED <<bytes_written, info>>
    BY <1>4 DEF CompleteWrite
  <2>2. b \in InUse
    BY <2>1 DEF HandInv
  <2>3. pc \notin {"done", "failed"}
    BY <2>2 DEF LoopInv
  <2>4. PICK r \in -1 .. SIZE :
          /\ r <= len[b] /\ cq' = Append(cq, [buf |-> b, res |-> r])
          /\ dest' = [u \in Unit |-> IF u - info[b].offset \in 1 .. r THEN u ELSE dest[u]]
    BY <1>4, <2>3, WriteEffect
  <2>5. /\ \A c, n : Arrived(c, n)' <=> Arrived(c, n) \/ (c = b /\ n <= r)
        /\ \A n : ~Arrived(b, n)
    BY <2>1, <2>4, KernelArrives
  <2>6. info[b].offset \in Nat /\ len[b] \in Nat
    BY DEF TypeInv
  <2>7. UnseenWrites' = UnseenWrites \cup Sent(b, r)
    <3>1. \A u \in Unit : u \in Sent(b, r) <=> \E n \in 1 .. SIZE : n <= r /\ u - info[b].offset = n
      BY <2>4 DEF Sent
    <3>. QED BY <1>a, <1>b, <2>1, <2>5, <3>1 DEF Sent
  <2>8. Written' = Written \cup Sent(b, r)
    <3>1. \A u \in Unit : u # 0
      BY DEF Unit
    <3>. QED BY <2>4, <3>1 DEF Written, Sent
  <2>9. Sent(b, r) \cap Written = {}
    <3>. SUFFICES ASSUME NEW u \in Unit, u - info[b].offset \in 1 .. r PROVE dest[u] = 0
      BY DEF Sent, Written
    <3>1. u - info[b].offset \in 1 .. len[b]
      BY <2>4, <2>6 DEF Unit
    <3>2. u = info[b].offset + (u - info[b].offset)
      BY <2>6 DEF Unit
    <3>3. u = Place(b, u - info[b].offset)
      BY <3>2 DEF Place
    <3>. QED BY <2>2, <2>5, <3>1, <3>3 DEF DestInv
  <2>10. /\ IsFiniteSet(Sent(b, r)) /\ IsFiniteSet(Written) /\ IsFiniteSet(UnseenWrites)
         /\ UnseenWrites \in SUBSET Written
    BY <2>2, <2>4, SentSize, UnseenWritten
  <2>11. /\ Cardinality(Written \cup Sent(b, r)) = Cardinality(Written) + Cardinality(Sent(b, r))
         /\ Cardinality(UnseenWrites \cup Sent(b, r))
              = Cardinality(UnseenWrites) + Cardinality(Sent(b, r))
    <3>1. Written \cap Sent(b, r) = {} /\ UnseenWrites \cap Sent(b, r) = {}
      BY <2>9, <2>10
    <3>2. Cardinality({}) = 0
      BY FS_EmptySet
    <3>3. /\ Cardinality(Written \cup Sent(b, r))
               = Cardinality(Written) + Cardinality(Sent(b, r)) - 0
          /\ Cardinality(UnseenWrites \cup Sent(b, r))
               = Cardinality(UnseenWrites) + Cardinality(Sent(b, r)) - 0
      BY <2>10, <3>1, <3>2, FS_Union
    <3>. QED BY <2>10, <3>3, FS_CardinalityType
  <2>12. /\ Cardinality(Written) \in Nat /\ Cardinality(UnseenWrites) \in Nat
         /\ Cardinality(Sent(b, r)) \in Nat
    BY <2>10, FS_CardinalityType
  <2>. QED BY <2>1, <2>7, <2>8, <2>11, <2>12 DEF BytesCounted
<1>5. CASE Fill
  <2>1. i \in Buffer
    BY <1>5 DEF Fill, TypeInv, Buffer
  <2>2. CASE buffer_in_use[i] # 1 /\ ~SqFull
    <3>1. PICK o : /\ info' = [info EXCEPT ![i] = [op_type |-> 0, offset |-> o]]
                   /\ UNCHANGED <<cq, dest, bytes_written>>
      BY <1>5, <2>2 DEF Fill
    <3>2. DOMAIN info = Buffer
      BY DEF TypeInv
    <3>3. info'[i].op_type = 0 /\ \A b \in Buffer : b # i => info'[b] = info[b]
      BY <2>1, <3>1, <3>2
    <3>4. \A n : ~Arrived(i, n)
      BY <2>2, ArrivedInUse DEF InUse
    <3>5. ASSUME NEW b \in Buffer, NEW n
          PROVE  /\ Arrived(b, n)' <=> Arrived(b, n)
                 /\ Arrived(b, n) => info'[b].offset = info[b].offset
      BY <3>1, <3>3, <3>4 DEF Arrived
    <3>. QED BY <1>1, <3>1, <3>5
  <2>. QED BY <1>2, <1>5, <2>2 DEF Fill
<1>6. ASSUME NEW b \in Buffer, NEW r \in -1 .. SIZE, ReadDone(b, r) PROVE BytesCounted'
  <2>1. /\ Seen(b, r) /\ info[b].op_type = 0 /\ cq' = Tail(cq)
        /\ UNCHANGED <<dest, bytes_written>>
    BY <1>6 DEF ReadDone
  <2>2. \A c \in Buffer : c # b => info'[c] = info[c]
    <3>1. info' = info \/ info' = [info EXCEPT ![b].op_type = 1]
      BY <1>6 DEF ReadDone
    <3>2. DOMAIN info = Buffer
      BY DEF TypeInv
    <3>. QED BY <3>1, <3>2
  <2>3. \A c \in Buffer : \A n : /\ Arrived(c, n)' <=> Arrived(c, n)
                                 /\ Arrived(c, n) => c # b
    BY <2>1, <2>2, SeenArrives
  <2>. QED BY <1>1, <2>1, <2>2, <2>3
<1>7. ASSUME NEW b \in Buffer, NEW r \in -1 .. SIZE, WriteDone(b, r) PROVE BytesCounted'
  <2>1. /\ Seen(b, r) /\ info[b].op_type = 1 /\ cq' = Tail(cq)
        /\ bytes_written' = bytes_written + (IF r > 0 THEN r ELSE 0)
        /\ UNCHANGED <<dest, info>>
    BY <1>7 DEF WriteDone
  <2>2. /\ \A c \in Buffer : \A n : c # b => (Arrived(c, n)' <=> Arrived(c, n))
        /\ \A n : ~Arrived(b, n)'
        /\ \A n : Arrived(b, n) <=> n <= r
    BY <2>1, SeenArrives
  <2>3. b \in InUse /\ r <= len[b]
    BY <2>1, SeenHands, SeenContent DEF Holds
  <2>4. info[b].offset \in Nat /\ len[b] \in Nat
    BY DEF TypeInv
  <2>5. Sent(b, r) \in SUBSET UnseenWrites
    BY <1>b, <2>2 DEF Sent
  \* no other buffer has a unit of these
  <2>6. ASSUME NEW u \in Sent(b, r), NEW c \in Buffer, c # b, NEW n \in 1 .. SIZE,
               Arrived(c, n)
        PROVE  u - info[c].offset # n
    <3>1. c \in InUse /\ n \in 1 .. len[c] /\ info[c].offset \in Nat
      <4>1. len[c] \in Nat /\ info[c].offset \in Nat
        BY DEF TypeInv
      <4>. QED BY <2>6, <4>1, ArrivedInUse
    <3>2. /\ u - info[b].offset \in 1 .. len[b] /\ u = Place(b, u - info[b].offset)
          /\ u \in Nat
      BY <2>3, <2>4 DEF Sent, Place, Unit
    <3>3. u # Place(c, n)
      BY <2>3, <2>6, <3>1, <3>2 DEF RangesInv
    <3>. QED BY <3>1, <3>2, <3>3 DEF Place
  <2>7. UnseenWrites' = UnseenWrites \ Sent(b, r)
    <3>1. \A u \in Unit : u \in Sent(b, r) <=> \E n \in 1 .. SIZE : n <= r /\ u - info[b].offset = n
      BY DEF Sent
    <3>. QED BY <1>a, <1>b, <2>1, <2>2, <2>6, <3>1
  <2>8. Written' = Written
    BY <2>1 DEF Written
  <2>9. Cardinality(Sent(b, r)) = IF r > 0 THEN r ELSE 0
    BY <2>3, SentSize
  <2>10. /\ Cardinality(UnseenWrites') = Cardinality(UnseenWrites) - Cardinality(Sent(b, r))
         /\ Cardinality(UnseenWrites) \in Nat
    BY <2>5, <2>7, UnseenWritten, SplitSize
  <2>11. Cardinality(Written) \in Nat
    BY UnseenWritten, FS_CardinalityType
  <2>. QED BY <2>1, <2>8, <2>9, <2>10, <2>11 DEF BytesCounted
<1>. QED BY <1>2, <1>3, <1>4, <1>5, <1>6, <1>7
     DEF Next, Kernel, async_io, Open, FillEnd, Submit, WaitFails, vars

-----------------------------------------------------------------------------
(* The theorems about async_io *)

\* Nothing was asked for and nothing is written at the start.
LEMMA InitData == Init => DataInv
<1>. SUFFICES ASSUME Init PROVE DataInv
  OBVIOUS
<1>1. InUse = {} /\ DOMAIN cq = {}
  BY DEF Init, InUse
<1>2. \A u \in Unit : dest[u] = 0
  BY DEF Init
<1>3. Written = {} /\ UnseenWrites = {}
  BY <1>1, <1>2 DEF Written, UnseenWrites
<1>4. BytesCounted
  <2>1. bytes_written = 0
    BY DEF Init
  <2>. QED BY <1>3, <2>1, FS_EmptySet DEF BytesCounted
<1>. QED BY <1>1, <1>2, <1>4 DEF DataInv, RangesInv, ContentInv, DestInv

\* The invariant is inductive.
LEMMA StepInv == CopyInv /\ [Next]_vars => CopyInv'
<1>. SUFFICES ASSUME CopyInv, [Next]_vars PROVE CopyInv'
  OBVIOUS
<1>1. TypeInv /\ HandInv /\ LoopInv /\ RangesInv /\ ContentInv
  BY DEF CopyInv, DataInv
<1>2. TypeInv'
  BY <1>1, StepTypes
<1>3. HandInv' /\ LoopInv'
  BY <1>1, <1>2, StepHands
<1>4. RangesInv' /\ ContentInv'
  BY <1>1, <1>2, StepRanges, StepContent
<1>5. ASSUME pc' # "failed" PROVE DestInv' /\ BytesCounted'
  <2>1. pc # "failed"
    <3>1. CASE pc = "failed"
      BY <1>5, <3>1
         DEF Next, Kernel, async_io, CompleteRead, CompleteWrite, Open, Fill, FillEnd, Submit,
             ReadDone, WriteDone, Seen, WaitFails, vars
    <3>. QED BY <3>1
  <2>2. DestInv /\ BytesCounted
    BY <2>1 DEF CopyInv, DataInv
  <2>. QED BY <1>1, <1>2, <1>4, <2>1, <2>2, StepDest, StepCount
<1>. QED BY <1>2, <1>3, <1>4, <1>5 DEF CopyInv, DataInv

\* The inductive invariant of async_io holds.
THEOREM CopyInvariant == Spec => []CopyInv
<1>1. Init => CopyInv
  BY InitTypes, InitHands, InitData DEF CopyInv
<1>. QED BY <1>1, StepInv, PTL DEF Spec

\* No request is ever forgotten, whatever io_uring_submit takes and in whatever
\* order requests complete, so that the branch of "if(sqe)" without an else is
\* never needed, and active_reqs is the number of buffers in use.
THEOREM NoRequestForgotten == Spec => []EachInOneHand
<1>1. CopyInv => EachInOneHand
  <2>. SUFFICES ASSUME CopyInv PROVE EachInOneHand
    OBVIOUS
  <2>1. TypeInv /\ HandInv /\ LoopInv
    BY DEF CopyInv
  <2>2. ASSUME NEW b \in Buffer
        PROVE  buffer_in_use[b]
                 = Cardinality({k \in DOMAIN cq : cq[k].buf = b})
                     + (IF b \in sq THEN 1 ELSE 0) + (IF b \in inflight THEN 1 ELSE 0)
    <3>. DEFINE K == {k \in DOMAIN cq : cq[k].buf = b}
    <3>1. Cardinality(K) = IF Completed(b) THEN 1 ELSE 0
      <4>1. CASE Completed(b)
        <5>1. PICK k \in DOMAIN cq : cq[k].buf = b
          BY <4>1 DEF Completed
        <5>2. K = {k}
          BY <2>1, <5>1 DEF HandInv
        <5>. QED BY <4>1, <5>2, FS_Singleton
      <4>2. CASE ~Completed(b)
        <5>1. K = {}
          BY <4>2 DEF Completed
        <5>. QED BY <4>2, <5>1, FS_EmptySet
      <4>. QED BY <4>1, <4>2
    <3>2. buffer_in_use[b] = IF b \in sq \/ b \in inflight \/ Completed(b) THEN 1 ELSE 0
      <4>1. buffer_in_use[b] \in {0, 1}
        BY <2>1 DEF TypeInv
      <4>. QED BY <2>1, <4>1 DEF HandInv, InUse
    <3>. HIDE DEF K
    <3>3. buffer_in_use[b]
            = Cardinality(K) + (IF b \in sq THEN 1 ELSE 0) + (IF b \in inflight THEN 1 ELSE 0)
      BY <2>1, <3>1, <3>2 DEF HandInv
    <3>. QED BY <3>3 DEF K
  <2>3. active_reqs = Cardinality({b \in Buffer : buffer_in_use[b] = 1})
    BY <2>1 DEF LoopInv, InUse
  <2>4. pc = "done" => active_reqs = 0
    BY <2>1, FS_EmptySet DEF LoopInv
  <2>. QED BY <2>2, <2>3, <2>4 DEF EachInOneHand
<1>. QED BY <1>1, CopyInvariant, PTL

\* bytes_written counts what is in the destination, but for the writes that
\* are complete and not seen yet; so the loop does not end early.
THEOREM WritesAreCounted == Spec => []BytesCounted
<1>1. CopyInv => BytesCounted
  BY DEF CopyInv, DataInv, BytesCounted
<1>. QED BY <1>1, CopyInvariant, PTL

\* When the loop has ended by its own condition, nothing is missing.
LEMMA DoneIsComplete == CopyInv /\ pc = "done" => Copy!Missing = {}
<1>. SUFFICES ASSUME CopyInv, pc = "done" PROVE Copy!Missing = {}
  OBVIOUS
<1>1. /\ TypeInv /\ HandInv /\ RangesInv /\ ContentInv /\ DestInv /\ BytesCounted
      /\ InUse = {} /\ bytes_written >= file_size
  BY DEF CopyInv, DataInv, LoopInv
<1>2. UnseenWrites = {}
  <2>1. \A b, n : ~Arrived(b, n)
    BY <1>1, ArrivedInUse
  <2>. QED BY <1>1, <2>1, UnseenAre
<1>3. Written \in SUBSET Unit /\ IsFiniteSet(Written) /\ Cardinality(Written) \in Nat
  BY <1>1, UnseenWritten, FS_CardinalityType
<1>4. Cardinality(Written) >= file_size
  BY <1>1, <1>2, <1>3, FS_EmptySet DEF BytesCounted
<1>5. IsFiniteSet(Unit) /\ Cardinality(Unit) = file_size
  BY FS_Interval, UringCopyAssumption DEF Unit
<1>6. Written = Unit
  BY <1>3, <1>4, <1>5, UringCopyAssumption, FS_Subset
<1>7. \A u \in Unit : dest[u] = u
  BY <1>1, <1>6 DEF Written, DestInv
<1>. QED BY <1>7 DEF Copy!Missing, Unit

\* The initial state is that of the abstract copy.
LEMMA InitIsCopy == Init => Copy!CopyInit
BY DEF Init, Copy!CopyInit, Unit

\* Every step is one of the abstract copy, or none of it is seen there.
LEMMA StepIsCopy ==
  ASSUME CopyInv, CopyInv', [Next]_vars
  PROVE  \/ Copy!Write \/ Copy!Finish \/ Copy!GiveUp \/ Copy!Spoil
         \/ UNCHANGED <<dest, CASE pc = "done" -> "complete"
                                [] pc = "failed" -> "failed" [] OTHER -> "no">>
<1>1. TypeInv /\ TypeInv' /\ HandInv /\ LoopInv /\ RangesInv /\ ContentInv
  BY DEF CopyInv, DataInv
<1>2. ASSUME NEW b \in Buffer, CompleteWrite(b) PROVE Copy!Write \/ Copy!Spoil
  <2>1. /\ b \in inflight /\ info[b].op_type = 1 /\ pc' = pc /\ info' = info
    BY <1>2 DEF CompleteWrite
  <2>2. b \in InUse /\ pc # "done"
    BY <1>1, <2>1 DEF HandInv, LoopInv
  <2>3. CASE pc = "failed"
    <3>1. dest' \in [1 .. file_size -> 0 .. file_size]
      BY <1>1 DEF TypeInv, Unit
    <3>. QED BY <2>1, <2>3, <3>1 DEF Copy!Spoil
  <2>4. CASE pc # "failed"
    <3>1. PICK r \in -1 .. SIZE :
            /\ r <= len[b] /\ cq' = Append(cq, [buf |-> b, res |-> r])
            /\ dest' = [u \in Unit |-> IF u - info[b].offset \in 1 .. r THEN u ELSE dest[u]]
      BY <1>1, <1>2, <2>2, <2>4, WriteEffect
    <3>2. \A n : ~Arrived(b, n)
      BY <1>1, <2>1, <3>1, KernelArrives
    <3>3. DestInv /\ info[b].offset \in Nat /\ len[b] \in Nat
      BY <1>1, <2>4 DEF CopyInv, DataInv, TypeInv
    <3>4. Sent(b, r) \in SUBSET Copy!Missing
      <4>. SUFFICES ASSUME NEW u \in Unit, u - info[b].offset \in 1 .. r PROVE dest[u] # u
        BY DEF Sent, Copy!Missing, Unit
      <4>1. u - info[b].offset \in 1 .. len[b] /\ u = Place(b, u - info[b].offset)
        BY <3>1, <3>3 DEF Place, Unit
      <4>2. dest[u] = 0
        BY <2>2, <3>2, <3>3, <4>1 DEF DestInv
      <4>. QED BY <4>2 DEF Unit
    <3>5. dest' = [u \in 1 .. file_size |-> IF u \in Sent(b, r) THEN u ELSE dest[u]]
      BY <3>1 DEF Sent, Unit
    <3>. QED BY <2>1, <2>2, <2>4, <3>4, <3>5 DEF Copy!Write
  <2>. QED BY <2>3, <2>4
\* all other steps leave the destination alone
<1>3. ASSUME dest' = dest, pc' = pc \/ pc \notin {"done", "failed"}
      PROVE  \/ Copy!Finish \/ Copy!GiveUp
             \/ UNCHANGED <<dest, CASE pc = "done" -> "complete"
                                    [] pc = "failed" -> "failed" [] OTHER -> "no">>
  <2>1. CASE pc' = pc
    BY <1>3, <2>1
  <2>2. CASE pc \notin {"done", "failed"} /\ pc' = "done"
    <3>1. Copy!Missing' = {}
      <4>1. (CopyInv /\ pc = "done" => Copy!Missing = {})'
        BY DoneIsComplete, PTL
      <4>. QED BY <2>2, <4>1
    <3>2. Copy!Missing = {}
      BY <1>3, <3>1 DEF Copy!Missing
    <3>. QED BY <1>3, <2>2, <3>2 DEF Copy!Finish
  <2>3. CASE pc \notin {"done", "failed"} /\ pc' = "failed"
    BY <1>3, <2>3 DEF Copy!GiveUp
  <2>4. CASE pc \notin {"done", "failed"} /\ pc' \notin {"done", "failed"}
    BY <1>3, <2>4
  <2>. QED BY <1>3, <2>1, <2>2, <2>3, <2>4
<1>4. ASSUME NEW b \in Buffer, CompleteRead(b) PROVE dest' = dest /\ pc' = pc
  BY <1>4 DEF CompleteRead
<1>5. CASE async_io \/ WaitFails
  <2>1. dest' = dest /\ pc \notin {"done", "failed"}
    BY <1>5 DEF async_io, Open, Fill, FillEnd, Submit, ReadDone, WriteDone, Seen, WaitFails
  <2>. QED BY <1>3, <2>1
<1>6. CASE UNCHANGED vars
  BY <1>6 DEF vars
<1>. QED BY <1>2, <1>3, <1>4, <1>5, <1>6 DEF Next, Kernel

\* However the kernel orders the requests, and whatever fails, each unit goes
\* to its own place, none is overwritten, and a copy that is not given up ends
\* complete: async_io implements FileCopy.
THEOREM AsyncIsFileCopy == Spec => IsFileCopy
<1>1. CopyInv /\ CopyInv' /\ [Next]_vars
        => [Copy!Write \/ Copy!Finish \/ Copy!GiveUp \/ Copy!Spoil]_
             <<dest, CASE pc = "done" -> "complete" [] pc = "failed" -> "failed" [] OTHER -> "no">>
  BY StepIsCopy
<1>. QED BY <1>1, InitIsCopy, CopyInvariant, PTL DEF Spec, IsFileCopy, Copy!CopySpec

-----------------------------------------------------------------------------
(* The whole program *)

\* The run of async_io is part of the run of the program.
LEMMA ProgramRunsCopy == ProgramSpec => Spec
<1>1. ProgramInit => Init
  BY DEF ProgramInit
<1>2. [ProgramNext]_programVars => [Next]_vars
  BY DEF ProgramNext, programVars, Return
<1>. QED BY <1>1, <1>2, PTL DEF ProgramSpec, Spec

\* What was shown of async_io holds after blocking_io has run: no request is
\* forgotten, bytes_written is right, and the copy is one of FileCopy.
THEOREM ProgramCopies == ProgramSpec => []EachInOneHand /\ []BytesCounted /\ IsFileCopy
BY ProgramRunsCopy, NoRequestForgotten, WritesAreCounted, AsyncIsFileCopy, PTL

\* what blocking_io has read and not yet written
Pending == IF bpc = "write" THEN read_bytes ELSE 0

OrderTypes ==
  /\ bpc \in {"open", "read", "write", "done"}
  /\ src_pos \in 0 .. file_size /\ dest_pos \in 0 .. file_size
  /\ read_bytes \in -1 .. SIZE /\ (bpc = "write" => read_bytes > 0)
  /\ copied \in [Unit -> Nat]

\* The destination has as many units as its position says; they are in order, and
\* all come from what was read and is not pending.
OrderInv ==
  /\ OrderTypes
  /\ dest_pos + Pending <= src_pos
  /\ \A u \in Unit :
       /\ u <= dest_pos => copied[u] \in 1 .. src_pos - Pending
       /\ u > dest_pos => copied[u] = 0
       /\ u <= dest_pos /\ dest_pos + Pending = src_pos => copied[u] = u
  /\ \A u, v \in Unit : u < v /\ v <= dest_pos => copied[u] < copied[v]

\* Every step keeps the order.
LEMMA StepOrder == OrderInv /\ [ProgramNext]_programVars => OrderInv'
<1>. USE UringCopyAssumption
<1>. SUFFICES ASSUME OrderInv, [ProgramNext]_programVars PROVE OrderInv'
  OBVIOUS
<1>1. /\ bpc \in {"open", "read", "write", "done"}
      /\ src_pos \in 0 .. file_size /\ dest_pos \in 0 .. file_size
      /\ read_bytes \in -1 .. SIZE /\ (bpc = "write" => read_bytes > 0)
      /\ copied \in [Unit -> Nat]
      /\ dest_pos + Pending <= src_pos /\ Pending \in Nat
  BY DEF OrderInv, OrderTypes, Pending
<1>2. CASE UNCHANGED blockingVars
  BY <1>2 DEF blockingVars, OrderInv, OrderTypes, Pending
<1>3. CASE Blocking!Open
  <2>1. bpc = "open" /\ bpc' \in {"read", "done"}
        /\ UNCHANGED <<src_pos, dest_pos, read_bytes, copied>>
    BY <1>3 DEF Blocking!Open
  <2>2. Pending' = Pending
    BY <2>1 DEF Pending
  <2>. QED BY <2>1, <2>2 DEF OrderInv, OrderTypes
<1>4. CASE Blocking!Read
  <2>1. PICK n \in -1 .. SIZE :
          /\ src_pos + n <= file_size /\ read_bytes' = n
          /\ IF n > 0
             THEN bpc' = "write" /\ src_pos' = src_pos + n
             ELSE bpc' = "done" /\ UNCHANGED src_pos
    BY <1>4 DEF Blocking!Read
  <2>2. bpc = "read" /\ UNCHANGED <<dest_pos, copied>>
    BY <1>4 DEF Blocking!Read
  \* what is read becomes pending
  <2>3. PICK q \in Nat : src_pos' = src_pos + q /\ Pending' = q
    <3>1. CASE n > 0
      BY <1>1, <2>1, <3>1 DEF Pending
    <3>2. CASE ~(n > 0)
      BY <1>1, <2>1, <3>2 DEF Pending
    <3>. QED BY <3>1, <3>2
  <2>4. OrderTypes'
    BY <1>1, <2>1, <2>2, <2>3 DEF OrderTypes
  <2>5. Pending = 0
    BY <2>2 DEF Pending
  <2>6. /\ dest_pos' + Pending' <= src_pos' /\ src_pos' - Pending' = src_pos - Pending
        /\ dest_pos' + Pending' = src_pos' => dest_pos + Pending = src_pos
    BY <1>1, <2>2, <2>3, <2>5
  <2>. QED BY <2>2, <2>4, <2>6 DEF OrderInv
<1>5. CASE Blocking!Write
  <2>1. bpc = "write" /\ Pending = read_bytes /\ UNCHANGED <<src_pos, read_bytes>>
    BY <1>5 DEF Blocking!Write, Pending
  <2>2. CASE bpc' = "done" /\ UNCHANGED <<copied, dest_pos>>
    <3>1. Pending' = 0 /\ dest_pos + Pending' < src_pos /\ Pending > 0
      BY <1>1, <2>1, <2>2 DEF Pending
    <3>2. \A u \in Unit : u <= dest_pos => copied[u] \in 1 .. src_pos - Pending'
      BY <1>1, <3>1 DEF OrderInv
    <3>3. OrderTypes'
      BY <1>1, <2>1, <2>2 DEF OrderTypes
    <3>4. dest_pos' + Pending' # src_pos' /\ dest_pos' + Pending' <= src_pos'
      BY <1>1, <2>1, <2>2, <3>1
    <3>. QED BY <2>1, <2>2, <3>2, <3>3, <3>4 DEF OrderInv
  <2>3. ASSUME NEW n \in 1 .. read_bytes,
               copied' = [u \in 1 .. file_size |->
                 IF u - dest_pos \in 1 .. n
                 THEN src_pos - read_bytes + (u - dest_pos) ELSE copied[u]],
               dest_pos' = dest_pos + n, bpc' = "read"
        PROVE  OrderInv'
    <3>1. Pending' = 0 /\ dest_pos' + read_bytes <= src_pos + n /\ dest_pos' <= src_pos
      BY <1>1, <2>1, <2>3 DEF Pending
    <3>2. ASSUME NEW u \in Unit
          PROVE  /\ u <= dest_pos => copied'[u] = copied[u]
                 /\ u > dest_pos /\ u <= dest_pos'
                      => copied'[u] = src_pos - read_bytes + (u - dest_pos)
                 /\ u > dest_pos' => copied'[u] = copied[u]
      BY <1>1, <2>3 DEF Unit
    <3>3. copied' \in [Unit -> Nat]
      <4>1. \A u \in Unit : IF u - dest_pos \in 1 .. n
                 THEN src_pos - read_bytes + (u - dest_pos) \in Nat ELSE copied[u] \in Nat
        BY <1>1, <2>1 DEF Unit
      <4>. QED BY <2>3, <4>1 DEF Unit
    <3>4. OrderTypes'
      BY <1>1, <2>1, <2>3, <3>1, <3>3 DEF OrderTypes
    <3>5. ASSUME NEW u \in Unit
          PROVE  /\ u <= dest_pos' => copied'[u] \in 1 .. src_pos
                 /\ u > dest_pos' => copied'[u] = 0
                 /\ u <= dest_pos' /\ dest_pos' = src_pos => copied'[u] = u
      <4>1. u \in Nat /\ dest_pos' \in Nat
        BY <1>1, <2>3 DEF Unit
      <4>2. CASE u <= dest_pos
        <5>1. copied'[u] = copied[u] /\ copied[u] \in 1 .. src_pos - read_bytes
          BY <2>1, <3>2, <4>2 DEF OrderInv
        <5>2. dest_pos' = src_pos => dest_pos + Pending = src_pos
          BY <1>1, <2>1, <2>3, <3>1
        <5>3. dest_pos' = src_pos => copied[u] = u
          BY <4>2, <5>2 DEF OrderInv
        <5>. QED BY <1>1, <2>3, <4>1, <4>2, <5>1, <5>3
      <4>3. CASE u > dest_pos /\ u <= dest_pos'
        <5>1. copied'[u] = src_pos - read_bytes + (u - dest_pos)
          BY <3>2, <4>3
        <5>. QED BY <1>1, <2>1, <2>3, <3>1, <4>1, <4>3, <5>1
      <4>4. CASE u > dest_pos'
        <5>1. copied'[u] = copied[u] /\ u > dest_pos
          BY <1>1, <2>3, <3>2, <4>1, <4>4
        <5>. QED BY <4>1, <4>4, <5>1 DEF OrderInv
      <4>. QED BY <1>1, <4>1, <4>2, <4>3, <4>4
    <3>6. ASSUME NEW u \in Unit, NEW v \in Unit, u < v, v <= dest_pos'
          PROVE  copied'[u] < copied'[v]
      <4>1. u \in Nat /\ v \in Nat /\ dest_pos' \in Nat
        BY <1>1, <2>3 DEF Unit
      <4>2. CASE v <= dest_pos
        BY <1>1, <3>2, <3>6, <4>1, <4>2 DEF OrderInv
      <4>3. CASE v > dest_pos /\ u <= dest_pos
        <5>1. copied'[u] \in 1 .. src_pos - read_bytes
          BY <2>1, <3>2, <4>3 DEF OrderInv
        <5>2. copied'[v] = src_pos - read_bytes + (v - dest_pos)
          BY <3>2, <3>6, <4>3
        <5>. QED BY <1>1, <4>1, <4>3, <5>1, <5>2
      <4>4. CASE v > dest_pos /\ u > dest_pos
        <5>1. /\ copied'[u] = src_pos - read_bytes + (u - dest_pos)
              /\ copied'[v] = src_pos - read_bytes + (v - dest_pos)
          BY <3>2, <3>6, <4>1, <4>4
        <5>. QED BY <1>1, <3>6, <4>1, <5>1
      <4>. QED BY <1>1, <4>1, <4>2, <4>3, <4>4
    <3>7. src_pos' - Pending' = src_pos /\ dest_pos' + Pending' = dest_pos'
      BY <1>1, <2>1, <2>3, <3>1
    <3>. QED BY <2>1, <3>1, <3>4, <3>5, <3>6, <3>7 DEF OrderInv
  <2>. QED BY <1>5, <2>2, <2>3 DEF Blocking!Write
<1>6. CASE Return
  <2>1. /\ bpc' = "open" /\ src_pos' = 0 /\ dest_pos' = 0 /\ read_bytes' = 0
        /\ copied' = [u \in Unit |-> 0]
    BY <1>6 DEF Return
  <2>2. \A u, v \in Unit : v > dest_pos' /\ copied'[u] = 0
    BY <2>1 DEF Unit
  <2>3. Pending' = 0
    BY <2>1 DEF Pending
  <2>4. OrderTypes'
    BY <2>1 DEF OrderTypes
  <2>. QED BY <2>1, <2>2, <2>3, <2>4 DEF OrderInv, Unit
<1>. QED BY <1>2, <1>3, <1>4, <1>5, <1>6
     DEF ProgramNext, Blocking!Next, programVars, blockingVars

\* What blocking_io copies is in order, without gaps and none twice, whatever
\* read() and write() return; and in its own place until a write was short.
THEOREM BlockingKeepsOrder == ProgramSpec => []BlockingInOrder
<1>1. ProgramInit => OrderInv
  <2>. SUFFICES ASSUME ProgramInit PROVE OrderInv
    OBVIOUS
  <2>1. /\ bpc = "open" /\ src_pos = 0 /\ dest_pos = 0 /\ read_bytes = 0
        /\ copied = [u \in Unit |-> 0]
    BY DEF ProgramInit, Blocking!Init, Unit
  <2>2. \A u, v \in Unit : v > dest_pos /\ copied[u] = 0
    BY <2>1 DEF Unit
  <2>3. OrderTypes /\ Pending = 0
    BY <2>1, UringCopyAssumption DEF OrderTypes, Pending
  <2>4. \A u \in Unit : ~(u <= dest_pos)
    BY <2>1 DEF Unit
  <2>. QED BY <2>1, <2>2, <2>3, <2>4 DEF OrderInv
<1>2. OrderInv => BlockingInOrder
  <2>. SUFFICES ASSUME OrderInv, NEW u \in Unit, NEW v \in Unit
                PROVE  /\ copied[u] # 0 <=> u <= dest_pos
                       /\ u < v /\ copied[v] # 0 => copied[u] < copied[v]
                       /\ u <= dest_pos /\ ~Blocking!WasShort => copied[u] = u
    BY DEF BlockingInOrder, Blocking!InOrder, Unit
  <2>1. u \in Nat /\ v \in Nat /\ dest_pos \in Nat
    BY UringCopyAssumption DEF Unit, OrderInv, OrderTypes
  <2>2. copied[u] # 0 <=> u <= dest_pos
    BY <2>1 DEF OrderInv
  <2>3. copied[v] # 0 <=> v <= dest_pos
    BY <2>1 DEF OrderInv
  <2>4. ~Blocking!WasShort => dest_pos + Pending = src_pos
    BY DEF Blocking!WasShort, Pending
  <2>. QED BY <2>2, <2>3, <2>4 DEF OrderInv
<1>. QED BY <1>1, <1>2, StepOrder, PTL DEF ProgramSpec
=============================================================================
