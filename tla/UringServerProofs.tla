-------------------------- MODULE UringServerProofs --------------------------
(***************************************************************************)
(* Theorems about server_io_uring.c, for any number of clients, slots and  *)
(* descriptors and whatever calls may fail.                                *)
(***************************************************************************)
EXTENDS UringChat, ChatServerProofs, FiniteSetTheorems, SequenceTheorems

-----------------------------------------------------------------------------
(* The inductive invariant *)

\* the completions that ask for the same handling
RecvOf(c) == {e \in Completion : e.type = "recv" /\ e.conn = c}
OfAccept == {e \in Completion : e.type = "accept"}

\* what the handlers take for granted of a completion
Sound(e) ==
  /\ e.type = "recv" => e.conn \in Conn
  /\ e.type = "accept" /\ e.res # -1 => e.res = 1 /\ e.conn \in Conn /\ e.fd \in Fd

TypeInv ==
  /\ TypeOK
  /\ pc = "send" => bi >= 1
  /\ pc # "wait" => cqe.conn \in Conn
  /\ \A k \in DOMAIN cq : Sound(cq[k])

\* the slot is not that of a client whose descriptor was closed
Kept(i) == clients[i].is_active /\ ~(pc = "unlist" /\ clients[i].fd = cqe.fd)
Served(c) == \E i \in Slot : Kept(i) /\ ConnIn(i) = c

\* TableInv, for all slots but that one
KeptTable == DescInv /\ SlotsDiffer /\ \A i \in Slot : Kept(i) => Holds(i)

\* That one has the number of its client still; whoever has the descriptor has none.
StaleInv ==
  pc = "unlist" =>
    /\ cqe.fd \in Fd /\ idOf[cqe.conn] # 0
    /\ \A c \in Conn : fdt[cqe.fd] = c => idOf[c] = 0
    /\ \A i \in Slot : clients[i].is_active /\ clients[i].fd = cqe.fd =>
         clients[i].id = idOf[cqe.conn]

\* a listed client's receive was asked for with the descriptor of its slot
RequestFd == \A i \in Slot : Kept(i) => reqfd[ConnIn(i)] = clients[i].fd
ListedFd == \A i \in Slot : clients[i].is_active => reqfd[ConnIn(i)] = clients[i].fd

\* A completed receive names the descriptor of its request; an accepted connection
\* is on its descriptor and not in the table yet.
EntryOwn(e) ==
  /\ e.type = "recv" => e.fd = reqfd[e.conn]
  /\ e.type = "accept" /\ e.res # -1 => fdt[e.fd] = e.conn /\ idOf[e.conn] = 0
CompletionsOwn ==
  /\ \A k \in DOMAIN cq : EntryOwn(cq[k])
  /\ pc \in {"send", "finish"} => cqe.fd = reqfd[cqe.conn]

OwnInv == KeptTable /\ StaleInv /\ RequestFd /\ CompletionsOwn

\* the places of a sequence that hold one of V
Hits(s, V) == {n \in DOMAIN s : s[n] \in V}

\* RequestsUnderWay, said with the parts RecvsOf adds up
Asked(c) == Count(sq, c) + recvs[c]
Queued(c) == Cardinality(Hits(cq, RecvOf(c)))
AcceptsAsked == Count(sq, NoConn) + accepting
AcceptsDone == Cardinality(Hits(cq, OfAccept))
Handling(c) == IF pc \in {"send", "finish"} /\ cqe.conn = c THEN 1 ELSE 0
CountInv ==
  /\ \A c \in Conn :
       Asked(c) + Queued(c) + Handling(c) = IF Served(c) THEN 1 ELSE 0
  /\ AcceptsAsked + AcceptsDone = 1

UringInv == TypeInv /\ OwnInv /\ CountInv

\* Between the close and the loop that gives the slot up is where they differ.
LEMMA KeptAll ==
  pc # "unlist" =>
    /\ \A i \in Slot : Kept(i) <=> clients[i].is_active
    /\ \A c \in Conn : Served(c) <=> Listed(c)
    /\ KeptTable <=> TableInv
    /\ RequestFd <=> ListedFd
    /\ StaleInv
<1>. SUFFICES ASSUME pc # "unlist"
              PROVE  /\ \A i \in Slot : Kept(i) <=> clients[i].is_active
                     /\ \A c \in Conn : Served(c) <=> Listed(c)
                     /\ KeptTable <=> TableInv
                     /\ RequestFd <=> ListedFd
                     /\ StaleInv
  OBVIOUS
<1>1. \A i \in Slot : Kept(i) <=> clients[i].is_active
  BY DEF Kept
<1>2. \A c \in Conn : Served(c) <=> Listed(c)
  BY <1>1 DEF Served, Listed
<1>3. KeptTable <=> TableInv
  BY <1>1 DEF KeptTable, TableInv, DescInv, SlotsHold
<1>4. RequestFd <=> ListedFd
  BY <1>1 DEF RequestFd, ListedFd
<1>. QED BY <1>1, <1>2, <1>3, <1>4 DEF StaleInv

\* So it is after a step.
LEMMA KeptNext ==
  (pc # "unlist" =>
    /\ \A i \in Slot : Kept(i) <=> clients[i].is_active
    /\ \A c \in Conn : Served(c) <=> Listed(c)
    /\ KeptTable <=> TableInv
    /\ RequestFd <=> ListedFd
    /\ StaleInv)'
BY KeptAll, PTL

\* A step that leaves the descriptors and the connections alone.
LEMMA StutterDesc ==
  ASSUME DescInv, UNCHANGED <<fdt, backlog, peer, idOf>>
  PROVE  DescInv'
BY NobodyPends DEF DescInv, PendingFresh, Pending

\* A client with a number is served when it is listed, and one without is not served.
LEMMA ServedIs ==
  KeptTable /\ StaleInv => \A c \in Conn : Served(c) <=> Listed(c) /\ idOf[c] # 0
<1>. SUFFICES ASSUME KeptTable, StaleInv, NEW c \in Conn
              PROVE  Served(c) <=> Listed(c) /\ idOf[c] # 0
  OBVIOUS
<1>1. ASSUME NEW i \in Slot, Kept(i), ConnIn(i) = c PROVE clients[i].is_active /\ idOf[c] # 0
  BY <1>1 DEF Kept, KeptTable, Holds, ConnIn
<1>2. ASSUME NEW i \in Slot, clients[i].is_active, ConnIn(i) = c, idOf[c] # 0 PROVE Kept(i)
  BY <1>2 DEF Kept, StaleInv, ConnIn
<1>. QED BY <1>1, <1>2 DEF Served, Listed

\* So it is after a step.
LEMMA ServedNext ==
  (KeptTable /\ StaleInv => \A c \in Conn : Served(c) <=> Listed(c) /\ idOf[c] # 0)'
BY ServedIs, PTL

\* A step at which no slot and no number changes, and no kept slot's descriptor.
LEMMA KeptSame ==
  ASSUME KeptTable, StaleInv, DescInv', UNCHANGED <<clients, idOf>>,
         UNCHANGED <<pc, cqe>>,
         \A i \in Slot : Kept(i) => fdt'[clients[i].fd] = fdt[clients[i].fd],
         pc = "unlist" => \A c \in Conn : fdt'[cqe.fd] = c => idOf[c] = 0
  PROVE  /\ KeptTable' /\ StaleInv'
         /\ \A i \in Slot : (Kept(i)' <=> Kept(i)) /\ (Kept(i) => ConnIn(i)' = ConnIn(i))
         /\ \A c : Served(c)' <=> Served(c)
<1>1. \A i \in Slot : Kept(i)' <=> Kept(i)
  BY DEF Kept
<1>2. \A i \in Slot : Kept(i) => ConnIn(i)' = ConnIn(i)
  BY DEF ConnIn
<1>3. KeptTable'
  BY <1>1 DEF KeptTable, SlotsDiffer, Holds
<1>4. StaleInv'
  BY DEF StaleInv
<1>5. \A c : Served(c)' <=> Served(c)
  BY <1>1, <1>2 DEF Served
<1>. QED BY <1>1, <1>2, <1>3, <1>4, <1>5

-----------------------------------------------------------------------------
(* Counting in sequences *)

\* Counting in a sequence gives a number.
LEMMA HitsFinite ==
  ASSUME NEW T, NEW s \in Seq(T), NEW V
  PROVE  IsFiniteSet(Hits(s, V)) /\ Cardinality(Hits(s, V)) \in Nat
<1>1. Len(s) \in Nat /\ DOMAIN s = 1 .. Len(s)
  OBVIOUS
<1>2. IsFiniteSet(1 .. Len(s))
  BY <1>1, FS_Interval
<1>3. Hits(s, V) \in SUBSET (1 .. Len(s))
  BY <1>1 DEF Hits
<1>4. IsFiniteSet(Hits(s, V))
  BY <1>2, <1>3, FS_Subset
<1>. QED BY <1>4, FS_CardinalityType

\* Shifting a set of places does not change its size.
LEMMA ShiftSize ==
  ASSUME NEW S \in SUBSET Nat, IsFiniteSet(S), NEW d \in Nat
  PROVE  /\ IsFiniteSet({n + d : n \in S})
         /\ Cardinality({n + d : n \in S}) = Cardinality(S)
<1>. DEFINE T == {n + d : n \in S}
            f == [n \in S |-> n + d]
<1>1. f \in Surjection(S, T)
  <2>1. f \in [S -> T]
    OBVIOUS
  <2>2. \A t \in T : \E n \in S : f[n] = t
    OBVIOUS
  <2>. QED BY <2>1, <2>2 DEF Surjection
<1>2. f \in Injection(S, T)
  <2>1. f \in [S -> T]
    OBVIOUS
  <2>2. \A m, n \in S : f[m] = f[n] => m = n
    OBVIOUS
  <2>. QED BY <2>1, <2>2 DEF Injection, IsInjective
<1>. QED BY <1>1, <1>2, FS_Surjection

\* What is counted in two sequences is counted in the one after the other.
LEMMA ConcatHits ==
  ASSUME NEW T, NEW s \in Seq(T), NEW t \in Seq(T), NEW V
  PROVE  Cardinality(Hits(s \o t, V)) = Cardinality(Hits(s, V)) + Cardinality(Hits(t, V))
<1>. DEFINE R == {n + Len(s) : n \in Hits(t, V)}
<1>1. /\ Len(s) \in Nat /\ DOMAIN s = 1 .. Len(s)
      /\ Len(t) \in Nat /\ DOMAIN t = 1 .. Len(t)
      /\ DOMAIN (s \o t) = 1 .. Len(s) + Len(t)
      /\ \A n \in 1 .. Len(s) : (s \o t)[n] = s[n]
      /\ \A n \in 1 .. Len(t) : (s \o t)[n + Len(s)] = t[n]
  OBVIOUS
<1>2. Hits(s \o t, V) = Hits(s, V) \cup R
  <2>1. ASSUME NEW n \in Hits(s \o t, V) PROVE n \in Hits(s, V) \cup R
    <3>1. n \in 1 .. Len(s) + Len(t) /\ (s \o t)[n] \in V
      BY <1>1 DEF Hits
    <3>2. CASE n <= Len(s)
      BY <1>1, <3>1, <3>2 DEF Hits
    <3>3. CASE n > Len(s)
      <4>1. PICK m \in 1 .. Len(t) : n = m + Len(s)
        <5>1. n - Len(s) \in 1 .. Len(t) /\ n = (n - Len(s)) + Len(s)
          BY <1>1, <3>1, <3>3
        <5>. QED BY <5>1
      <4>2. t[m] \in V
        BY <1>1, <3>1, <4>1
      <4>. QED BY <1>1, <4>1, <4>2 DEF Hits
    <3>. QED BY <1>1, <3>1, <3>2, <3>3
  <2>2. ASSUME NEW n \in Hits(s, V) PROVE n \in Hits(s \o t, V)
    BY <1>1 DEF Hits
  <2>3. ASSUME NEW n \in R PROVE n \in Hits(s \o t, V)
    <3>1. PICK m \in Hits(t, V) : n = m + Len(s)
      OBVIOUS
    <3>2. m \in 1 .. Len(t) /\ t[m] \in V
      BY <1>1 DEF Hits
    <3>3. n \in 1 .. Len(s) + Len(t) /\ (s \o t)[n] = t[m]
      BY <1>1, <3>1, <3>2
    <3>. QED BY <1>1, <3>2, <3>3 DEF Hits
  <2>. QED BY <2>1, <2>2, <2>3
<1>3. Hits(s, V) \cap R = {}
  BY <1>1 DEF Hits
<1>4. /\ IsFiniteSet(Hits(s, V)) /\ Cardinality(Hits(s, V)) \in Nat
      /\ IsFiniteSet(Hits(t, V)) /\ Cardinality(Hits(t, V)) \in Nat
  BY HitsFinite
<1>5. Hits(t, V) \in SUBSET Nat
  BY <1>1 DEF Hits
<1>6. IsFiniteSet(R) /\ Cardinality(R) = Cardinality(Hits(t, V))
  BY <1>1, <1>4, <1>5, ShiftSize
<1>7. Cardinality(Hits(s, V) \cup R) =
        Cardinality(Hits(s, V)) + Cardinality(R) - Cardinality(Hits(s, V) \cap R)
  BY <1>4, <1>6, FS_Union
<1>8. Cardinality(Hits(s, V) \cap R) = 0
  BY <1>3, FS_EmptySet
<1>. QED BY <1>2, <1>4, <1>6, <1>7, <1>8

\* One element counts as one or not at all.
LEMMA SingleHit ==
  ASSUME NEW x, NEW V
  PROVE  Cardinality(Hits(<<x>>, V)) = IF x \in V THEN 1 ELSE 0
<1>1. DOMAIN <<x>> = {1} /\ <<x>>[1] = x
  OBVIOUS
<1>2. CASE x \in V
  <2>1. Hits(<<x>>, V) = {1}
    BY <1>1, <1>2 DEF Hits
  <2>. QED BY <1>2, <2>1, FS_Singleton
<1>3. CASE x \notin V
  <2>1. Hits(<<x>>, V) = {}
    BY <1>1, <1>3 DEF Hits
  <2>. QED BY <1>3, <2>1, FS_EmptySet
<1>. QED BY <1>2, <1>3

\* A new last element, and the first one gone.
LEMMA AppendHits ==
  ASSUME NEW T, NEW s \in Seq(T), NEW x \in T, NEW V
  PROVE  Cardinality(Hits(Append(s, x), V)) =
           Cardinality(Hits(s, V)) + (IF x \in V THEN 1 ELSE 0)
<1>1. <<x>> \in Seq(T) /\ Append(s, x) \in Seq(T) /\ s \o <<x>> \in Seq(T)
  OBVIOUS
<1>2. Append(s, x) = s \o <<x>>
  <2>1. Len(Append(s, x)) = Len(s \o <<x>>)
    OBVIOUS
  <2>2. \A i \in 1 .. Len(Append(s, x)) : Append(s, x)[i] = (s \o <<x>>)[i]
    OBVIOUS
  <2>. QED BY <1>1, <2>1, <2>2, SeqEqual
<1>3. Cardinality(Hits(s \o <<x>>, V)) =
        Cardinality(Hits(s, V)) + Cardinality(Hits(<<x>>, V))
  BY <1>1, ConcatHits
<1>4. Cardinality(Hits(<<x>>, V)) = IF x \in V THEN 1 ELSE 0
  BY SingleHit
<1>. QED BY <1>2, <1>3, <1>4

\* Taking the first of a sequence takes it out of the places counted.
LEMMA TailHits ==
  ASSUME NEW T, NEW s \in Seq(T), s # <<>>, NEW V
  PROVE  Cardinality(Hits(s, V)) =
           (IF Head(s) \in V THEN 1 ELSE 0) + Cardinality(Hits(Tail(s), V))
<1>1. /\ s = <<Head(s)>> \o Tail(s)
      /\ Head(s) \in T /\ <<Head(s)>> \in Seq(T) /\ Tail(s) \in Seq(T)
  <2>1. Len(s) \in Nat \ {0} /\ Head(s) = s[1] /\ s[1] \in T
    OBVIOUS
  <2>2. /\ SubSeq(s, 1, Len(s)) = <<s[1]>> \o SubSeq(s, 2, Len(s))
        /\ SubSeq(s, 1, Len(s)) = s
        /\ Tail(s) = SubSeq(s, 2, Len(s))
    <3>1. 1 \in 1 .. Len(s) /\ Len(s) \in 1 .. Len(s) /\ 1 + 1 = 2
      BY <2>1
    <3>. QED BY <3>1, SubSeqRecursiveFirst, SubSeqFull, TailIsSubSeq
  <2>. QED BY <2>1, <2>2
<1>2. Cardinality(Hits(<<Head(s)>> \o Tail(s), V)) =
        Cardinality(Hits(<<Head(s)>>, V)) + Cardinality(Hits(Tail(s), V))
  BY <1>1, ConcatHits
<1>. QED BY <1>1, <1>2, SingleHit

\* Where something is counted, something is.
LEMMA HitExists ==
  ASSUME NEW T, NEW s \in Seq(T), NEW V
  PROVE  Cardinality(Hits(s, V)) = 0 <=> \A k \in DOMAIN s : s[k] \notin V
<1>1. IsFiniteSet(Hits(s, V))
  BY HitsFinite
<1>2. Cardinality(Hits(s, V)) = 0 <=> Hits(s, V) = {}
  BY <1>1, FS_EmptySet
<1>. QED BY <1>2 DEF Hits

-----------------------------------------------------------------------------
(* Requests *)

\* Count counts the places that hold r.
LEMMA CountHits ==
  ASSUME NEW s, NEW r
  PROVE  Count(s, r) = Cardinality(Hits(s, {r}))
<1>1. {n \in DOMAIN s : s[n] = r} = Hits(s, {r})
  BY DEF Hits
<1>. QED BY <1>1 DEF Count

\* Counting gives a number.
LEMMA CountNat ==
  ASSUME NEW T, NEW s \in Seq(T), NEW r
  PROVE  Count(s, r) \in Nat
BY CountHits, HitsFinite

\* Two sequences, one after the other, have the requests of both.
LEMMA CountConcat ==
  ASSUME NEW T, NEW s \in Seq(T), NEW t \in Seq(T), NEW r
  PROVE  Count(s \o t, r) = Count(s, r) + Count(t, r)
<1>1. /\ Count(s \o t, r) = Cardinality(Hits(s \o t, {r}))
      /\ Count(s, r) = Cardinality(Hits(s, {r})) /\ Count(t, r) = Cardinality(Hits(t, {r}))
  BY CountHits
<1>. QED BY <1>1, ConcatHits

\* A sequence of one request has it once and no other.
LEMMA CountOne ==
  ASSUME NEW x, NEW r
  PROVE  Count(<<x>>, r) = IF x = r THEN 1 ELSE 0
<1>1. Count(<<x>>, r) = Cardinality(Hits(<<x>>, {r}))
  BY CountHits
<1>2. Cardinality(Hits(<<x>>, {r})) = IF x \in {r} THEN 1 ELSE 0
  BY SingleHit
<1>. QED BY <1>1, <1>2

Request == Conn \cup {NoConn}

\* What is submitted is with the kernel or still in the queue, each request once.
LEMMA Submitted ==
  ASSUME TypeOK, NEW rs \in Seq(Request), io_uring_submit(rs)
  PROVE  /\ sq' \in Seq(Request) /\ accepting' \in Nat /\ recvs' \in [Conn -> Nat]
         /\ \A c \in Conn : Asked(c)' = Asked(c) + Count(rs, c)
         /\ AcceptsAsked' = AcceptsAsked + Count(rs, NoConn)
<1>. DEFINE all == sq \o rs
<1>1. sq \in Seq(Request) /\ accepting \in Nat /\ recvs \in [Conn -> Nat]
  BY DEF TypeOK, Request
<1>2. all \in Seq(Request) /\ Len(all) \in Nat
  BY <1>1
<1>3. PICK n \in 0 .. Len(all) :
        /\ accepting' = accepting + Count(SubSeq(all, 1, n), NoConn)
        /\ recvs' = [c \in Conn |-> recvs[c] + Count(SubSeq(all, 1, n), c)]
        /\ sq' = SubSeq(all, n + 1, Len(all))
  BY DEF io_uring_submit
<1>. DEFINE given == SubSeq(all, 1, n)
<1>4. given \in Seq(Request) /\ sq' \in Seq(Request) /\ all = given \o sq'
  <2>1. /\ 1 \in 1 .. Len(all) + 1 /\ n \in 1 - 1 .. Len(all)
        /\ Len(all) \in n .. Len(all)
    BY <1>2
  <2>2. given \o SubSeq(all, n + 1, Len(all)) = SubSeq(all, 1, Len(all))
    BY <1>2, <2>1, ConcatAdjacentSubSeq
  <2>3. SubSeq(all, 1, Len(all)) = all
    BY <1>2, SubSeqFull
  <2>4. given \in Seq(Request) /\ SubSeq(all, n + 1, Len(all)) \in Seq(Request)
    BY <1>2
  <2>. QED BY <1>3, <2>2, <2>3, <2>4
<1>. HIDE DEF all, given
<1>5. \A r :
             /\ Count(given, r) \in Nat /\ Count(sq', r) \in Nat
             /\ Count(sq, r) \in Nat /\ Count(rs, r) \in Nat
             /\ Count(given, r) + Count(sq', r) = Count(sq, r) + Count(rs, r)
  <2>. TAKE r
  <2>1. Count(all, r) = Count(given, r) + Count(sq', r)
    BY <1>4, CountConcat
  <2>2. Count(all, r) = Count(sq, r) + Count(rs, r)
    BY <1>1, CountConcat DEF all
  <2>3. /\ Count(given, r) \in Nat /\ Count(sq', r) \in Nat
        /\ Count(sq, r) \in Nat /\ Count(rs, r) \in Nat
    BY <1>1, <1>4, CountNat
  <2>. QED BY <2>1, <2>2, <2>3
<1>6. accepting' = accepting + Count(given, NoConn)
  BY <1>3 DEF given
<1>7. recvs' = [c \in Conn |-> recvs[c] + Count(given, c)]
  BY <1>3 DEF given
<1>8. accepting' \in Nat
  BY <1>1, <1>5, <1>6
<1>9. recvs' \in [Conn -> Nat]
  BY <1>1, <1>5, <1>7
<1>10. ASSUME NEW c \in Conn
       PROVE  Count(sq', c) + recvs'[c] = Count(sq, c) + recvs[c] + Count(rs, c)
  <2>. DEFINE g == Count(given, c)
              l == Count(sq', c)
              q == Count(sq, c)
              w == Count(rs, c)
              h == recvs[c]
  <2>1. h \in Nat /\ recvs'[c] = h + g
    BY <1>1, <1>6, <1>7
  <2>2. g \in Nat /\ l \in Nat /\ q \in Nat /\ w \in Nat /\ g + l = q + w
    BY <1>5
  <2>. HIDE DEF g, l, q, w, h
  <2>3. l + (h + g) = q + h + w
    BY <2>1, <2>2
  <2>4. l + recvs'[c] = q + h + w
    BY <2>1, <2>3, Zenon
  <2>. QED BY <2>4, Zenon DEF l, q, w, h
<1>11. Count(sq', NoConn) + accepting' = Count(sq, NoConn) + accepting + Count(rs, NoConn)
  <2>. DEFINE g == Count(given, NoConn)
              l == Count(sq', NoConn)
              q == Count(sq, NoConn)
              w == Count(rs, NoConn)
              h == accepting
  <2>1. h \in Nat /\ accepting' = h + g
    BY <1>1, <1>6, <1>7
  <2>2. g \in Nat /\ l \in Nat /\ q \in Nat /\ w \in Nat /\ g + l = q + w
    BY <1>5
  <2>. HIDE DEF g, l, q, w, h
  <2>3. l + (h + g) = q + h + w
    BY <2>1, <2>2
  <2>4. l + accepting' = q + h + w
    BY <2>1, <2>3, Zenon
  <2>. QED BY <2>4, Zenon DEF l, q, w, h
<1>. QED BY <1>4, <1>8, <1>9, <1>10, <1>11, Zenon DEF Asked, AcceptsAsked

\* What the places of the completion queue hold.
LEMMA CompletionTypes ==
  ASSUME TypeOK
  PROVE  /\ cq \in Seq(Completion)
         /\ \A k \in DOMAIN cq :
              /\ cq[k] \in Completion
              /\ cq[k].type \in {"accept", "recv"} /\ cq[k].conn \in Conn \cup {NoConn}
              /\ cq[k].fd \in Fd \cup {0} /\ cq[k].res \in {-1, 0, 1} /\ cq[k].upto \in Nat
<1>1. cq \in Seq(Completion)
  BY DEF TypeOK
<1>2. \A k \in DOMAIN cq : cq[k] \in Completion
  BY <1>1
<1>. QED BY <1>1, <1>2 DEF Completion

\* The counted parts of a connection's receives.
LEMMA RecvsAre ==
  TypeOK =>
    \A c \in Conn :
      /\ recvs[c] > 0 => Asked(c) > 0
      /\ Asked(c) \in Nat /\ Queued(c) \in Nat /\ Handling(c) \in {0, 1}
      /\ RecvsOf(c) = Asked(c) + Queued(c) + Handling(c)
<1>. SUFFICES ASSUME TypeOK, NEW c \in Conn
              PROVE  /\ recvs[c] > 0 => Asked(c) > 0
                     /\ Asked(c) \in Nat /\ Queued(c) \in Nat /\ Handling(c) \in {0, 1}
                     /\ RecvsOf(c) = Asked(c) + Queued(c) + Handling(c)
  OBVIOUS
<1>1. sq \in Seq(Request) /\ recvs \in [Conn -> Nat] /\ cq \in Seq(Completion)
  BY DEF TypeOK, Request
<1>2. {k \in DOMAIN cq : cq[k].type = "recv" /\ cq[k].conn = c} = Hits(cq, RecvOf(c))
  BY CompletionTypes DEF Hits, RecvOf
<1>3. Queued(c) \in Nat
  BY <1>1, HitsFinite DEF Queued
<1>4. Count(sq, c) \in Nat /\ recvs[c] \in Nat
  BY <1>1, CountNat
<1>5. Asked(c) \in Nat /\ (recvs[c] > 0 => Asked(c) > 0)
  BY <1>4 DEF Asked
<1>6. RecvsOf(c) = Asked(c) + Queued(c) + Handling(c)
  BY <1>2 DEF RecvsOf, Asked, Queued, Handling
<1>. QED BY <1>3, <1>5, <1>6 DEF Handling

\* The counted parts of the accepts.
LEMMA AcceptsAre ==
  TypeOK =>
    /\ accepting > 0 => AcceptsAsked > 0
    /\ AcceptsAsked \in Nat /\ AcceptsDone \in Nat
    /\ Count(sq, NoConn) + accepting + Cardinality({k \in DOMAIN cq : cq[k].type = "accept"})
         = AcceptsAsked + AcceptsDone
<1>. SUFFICES ASSUME TypeOK
              PROVE  /\ accepting > 0 => AcceptsAsked > 0
                     /\ AcceptsAsked \in Nat /\ AcceptsDone \in Nat
                     /\ Cardinality({k \in DOMAIN cq : cq[k].type = "accept"}) = AcceptsDone
  BY DEF AcceptsAsked
<1>1. sq \in Seq(Request) /\ accepting \in Nat /\ cq \in Seq(Completion)
  BY DEF TypeOK, Request
<1>2. {k \in DOMAIN cq : cq[k].type = "accept"} = Hits(cq, OfAccept)
  BY CompletionTypes DEF Hits, OfAccept
<1>3. Count(sq, NoConn) \in Nat /\ AcceptsDone \in Nat
  BY <1>1, CountNat, HitsFinite DEF AcceptsDone
<1>4. AcceptsAsked \in Nat /\ (accepting > 0 => AcceptsAsked > 0)
  BY <1>1, <1>3 DEF AcceptsAsked
<1>. QED BY <1>2, <1>3, <1>4 DEF AcceptsDone

\* CountInv says what RequestsUnderWay says.
LEMMA CountedIs == TypeOK /\ KeptTable /\ StaleInv => (RequestsUnderWay <=> CountInv)
<1>. SUFFICES ASSUME TypeOK, KeptTable, StaleInv PROVE RequestsUnderWay <=> CountInv
  OBVIOUS
<1>1. \A c \in Conn : idOf[c] > 0 <=> idOf[c] # 0
  BY DEF TypeOK, TableTypeOK
<1>2. \A c \in Conn : Served(c) <=> Listed(c) /\ idOf[c] > 0
  BY <1>1, ServedIs
<1>. QED BY <1>2, RecvsAre, AcceptsAre, Zenon DEF RequestsUnderWay, CountInv

\* Only a client that is served has a receive anywhere, and it has one.
LEMMA OnlyListed ==
  ASSUME TypeOK, CountInv, NEW c \in Conn
  PROVE  /\ recvs[c] > 0 \/ Asked(c) > 0 \/ Queued(c) > 0 \/ Handling(c) = 1 => Served(c)
         /\ Handling(c) = 1 => Queued(c) = 0
         /\ Queued(c) <= 1
<1>1. /\ Asked(c) \in Nat /\ Queued(c) \in Nat /\ Handling(c) \in {0, 1}
      /\ recvs[c] > 0 => Asked(c) > 0
      /\ Asked(c) + Queued(c) + Handling(c) = IF Served(c) THEN 1 ELSE 0
  BY RecvsAre DEF CountInv
<1>. QED BY <1>1

\* A queued completion of c's receive is counted.
LEMMA QueuedHere ==
  ASSUME TypeOK, NEW c \in Conn
  PROVE  Queued(c) = 0 <=>
           \A k \in DOMAIN cq : ~(cq[k].type = "recv" /\ cq[k].conn = c)
<1>1. cq \in Seq(Completion)
  BY DEF TypeOK
<1>2. Queued(c) = 0 <=> \A k \in DOMAIN cq : cq[k] \notin RecvOf(c)
  BY <1>1, HitExists DEF Queued
<1>. QED BY <1>2, CompletionTypes DEF RecvOf

\* A completion goes to the end of the queue.
LEMMA Enqueued ==
  ASSUME TypeOK, NEW e \in Completion, cq' = Append(cq, e)
  PROVE  /\ cq' \in Seq(Completion)
         /\ \A k \in DOMAIN cq' : cq'[k] = e \/ \E j \in DOMAIN cq : cq'[k] = cq[j]
         /\ \A V : Cardinality(Hits(cq', V)) =
                     Cardinality(Hits(cq, V)) + (IF e \in V THEN 1 ELSE 0)
<1>1. cq \in Seq(Completion)
  BY DEF TypeOK
<1>2. cq' \in Seq(Completion)
  BY <1>1
<1>3. \A k \in DOMAIN cq' : cq'[k] = e \/ \E j \in DOMAIN cq : cq'[k] = cq[j]
  BY <1>1
<1>4. \A V : Cardinality(Hits(Append(cq, e), V)) =
                     Cardinality(Hits(cq, V)) + (IF e \in V THEN 1 ELSE 0)
  BY <1>1, AppendHits
<1>. QED BY <1>2, <1>3, <1>4

\* The oldest completion leaves it.
LEMMA Dequeued ==
  ASSUME TypeOK, cq # <<>>, cq' = Tail(cq)
  PROVE  /\ cq' \in Seq(Completion)
         /\ 1 \in DOMAIN cq /\ Head(cq) = cq[1] /\ cq[1] \in Completion
         /\ \A k \in DOMAIN cq' : k + 1 \in DOMAIN cq /\ cq'[k] = cq[k + 1]
         /\ \A V : Cardinality(Hits(cq, V)) =
                     (IF Head(cq) \in V THEN 1 ELSE 0) + Cardinality(Hits(cq', V))
<1>1. cq \in Seq(Completion)
  BY DEF TypeOK
<1>2. cq' \in Seq(Completion) /\ 1 \in DOMAIN cq /\ Head(cq) = cq[1] /\ cq[1] \in Completion
  BY <1>1
<1>3. \A k \in DOMAIN cq' : k + 1 \in DOMAIN cq /\ cq'[k] = cq[k + 1]
  BY <1>1
<1>4. \A V : Cardinality(Hits(cq, V)) =
               (IF Head(cq) \in V THEN 1 ELSE 0) + Cardinality(Hits(Tail(cq), V))
  BY <1>1, TailHits
<1>. QED BY <1>2, <1>3, <1>4

-----------------------------------------------------------------------------
(* Types *)

\* The initial state has the types.
LEMMA InitTypes == Init => TypeInv
<1>. SUFFICES ASSUME Init PROVE TypeInv
  OBVIOUS
<1>1. SocketsTypeOK
  BY SocketsAssumption DEF Init, SocketsInit, SocketsTypeOK, PeerState
<1>2. TableTypeOK
  BY DEF Init, TableInit, TableTypeOK
<1>3. /\ cqe \in Completion /\ cq \in Seq(Completion)
      /\ sq \in Seq(Conn \cup {NoConn}) /\ accepting \in Nat
  <2>1. cqe = NoCqe /\ cq = <<>>
    BY DEF Init
  <2>2. NoCqe \in Completion
    BY DEF NoCqe, Completion
  <2>3. \/ sq = <<>> /\ accepting = 1
        \/ sq = <<NoConn>> /\ accepting = 0
    BY DEF Init
  <2>4. <<NoConn>> \in Seq(Conn \cup {NoConn}) /\ <<>> \in Seq(Conn \cup {NoConn})
    OBVIOUS
  <2>5. <<>> \in Seq(Completion)
    OBVIOUS
  <2>6. accepting \in Nat
    BY <2>3
  <2>7. sq \in Seq(Conn \cup {NoConn})
    BY <2>3, <2>4, Zenon
  <2>. QED BY <2>1, <2>2, <2>5, <2>6, <2>7, Zenon
<1>4. /\ recvs \in [Conn -> Nat] /\ reqfd \in [Conn -> Fd \cup {0}]
      /\ pc = "wait" /\ bi = 0
  BY DEF Init
<1>5. DOMAIN cq = {}
  <2>1. cq = <<>>
    BY DEF Init
  <2>. QED BY <2>1
<1>6. bi \in 0 .. MaxClients + 1
  BY <1>4, ChatServerAssumption
<1>. QED BY <1>1, <1>2, <1>3, <1>4, <1>5, <1>6 DEF TypeInv, TypeOK

\* What an accept completion says.
LEMMA AcceptSeen ==
  ASSUME TypeInv, Seen("accept")
  PROVE  /\ cq # <<>> /\ cq' = Tail(cq) /\ Head(cq) \in Completion /\ Head(cq).type = "accept"
         /\ Head(cq).res # -1 =>
              Head(cq).res = 1 /\ Head(cq).conn \in Conn /\ Head(cq).fd \in Fd
<1>1. cq # <<>> /\ cq' = Tail(cq) /\ Head(cq).type = "accept"
  BY DEF Seen
<1>2. 1 \in DOMAIN cq /\ Head(cq) = cq[1] /\ cq[1] \in Completion
  BY <1>1, Dequeued DEF TypeInv
<1>3. Sound(cq[1])
  BY <1>2 DEF TypeInv
<1>. QED BY <1>1, <1>2, <1>3 DEF Sound

\* The steps of the kernel's side.
LEMMA KernelTypes == TypeInv /\ Kernel => TypeInv'
<1>. SUFFICES ASSUME TypeInv, Kernel PROVE TypeInv'
  OBVIOUS
<1>1. TypeOK /\ SocketsTypeOK /\ TableTypeOK
  BY DEF TypeInv, TypeOK
<1>2. ASSUME UNCHANGED <<tableVars, pc, sq, reqfd, cqe, bi>>, SocketsTypeOK',
             accepting' \in Nat, recvs' \in [Conn -> Nat],
             NEW e \in Completion, Sound(e), cq' = Append(cq, e)
      PROVE  TypeInv'
  <2>1. TableTypeOK'
    BY <1>1, <1>2 DEF TableTypeOK, tableVars
  <2>2. cq' \in Seq(Completion) /\ \A k \in DOMAIN cq' : Sound(cq'[k])
    BY <1>1, <1>2, Enqueued DEF TypeInv
  <2>3. TypeOK'
    BY <1>1, <1>2, <2>1, <2>2 DEF TypeOK
  <2>. QED BY <1>2, <2>2, <2>3 DEF TypeInv, Sound
<1>3. CASE KernelAccept
  <2>1. PICK c \in backlog, f \in Fd :
          /\ LowestFree(f) /\ AcceptConn(c, f)
          /\ cq' = Append(cq, [type |-> "accept", conn |-> c, fd |-> f, res |-> 1, upto |-> 0])
    BY <1>3 DEF KernelAccept
  <2>2. c \in Conn
    BY <1>1 DEF SocketsTypeOK
  <2>3. SocketsTypeOK'
    BY <1>1, <2>1, <2>2 DEF AcceptConn, SocketsTypeOK
  <2>. DEFINE e == [type |-> "accept", conn |-> c, fd |-> f, res |-> 1, upto |-> 0]
  <2>4. e \in Completion /\ Sound(e)
    BY <2>2 DEF Completion, Sound
  <2>5. accepting' \in Nat /\ recvs' \in [Conn -> Nat]
    BY <1>1, <1>3 DEF KernelAccept, TypeOK
  <2>6. UNCHANGED <<tableVars, pc, sq, reqfd, cqe, bi>>
    BY <1>3 DEF KernelAccept
  <2>. QED BY <1>2, <2>1, <2>3, <2>4, <2>5, <2>6
<1>4. CASE KernelAcceptFails
  <2>1. SocketsTypeOK'
    BY <1>1, <1>4 DEF KernelAcceptFails, sockVars, SocketsTypeOK
  <2>2. NoCqe \in Completion /\ Sound(NoCqe)
    BY DEF NoCqe, Completion, Sound
  <2>3. accepting' \in Nat /\ recvs' \in [Conn -> Nat]
    BY <1>1, <1>4 DEF KernelAcceptFails, TypeOK
  <2>4. UNCHANGED <<tableVars, pc, sq, reqfd, cqe, bi>> /\ cq' = Append(cq, NoCqe)
    BY <1>4 DEF KernelAcceptFails
  <2>. QED BY <1>2, <2>1, <2>2, <2>3, <2>4
<1>5. ASSUME NEW c \in Conn, KernelRecv(c) PROVE TypeInv'
  <2>1. PICK r \in {-1, 0, 1} :
          /\ CASE r = 1 -> RecvData(c) [] r = 0 -> RecvEof(c) [] OTHER -> RecvError(c)
          /\ cq' = Append(cq, [type |-> "recv", conn |-> c, fd |-> reqfd[c],
                               res |-> r, upto |-> IF r = 1 THEN taken'[c] ELSE 0])
    BY <1>5 DEF KernelRecv
  <2>2. RecvData(c) \/ RecvEof(c) \/ RecvError(c)
    BY <2>1
  <2>3. SocketsTypeOK'
    BY <1>1, <2>2, RecvTypes
  <2>. DEFINE n == IF r = 1 THEN taken'[c] ELSE 0
              e == [type |-> "recv", conn |-> c, fd |-> reqfd[c], res |-> r, upto |-> n]
  <2>4. n \in Nat /\ reqfd[c] \in Fd \cup {0}
    BY <1>1, <2>3 DEF SocketsTypeOK, TypeOK
  <2>5. e \in Completion /\ Sound(e)
    <3>. HIDE DEF n
    <3>. QED BY <2>4 DEF Completion, Sound
  <2>6. accepting' \in Nat /\ recvs' \in [Conn -> Nat]
    BY <1>1, <1>5 DEF KernelRecv, TypeOK
  <2>7. UNCHANGED <<tableVars, pc, sq, reqfd, cqe, bi>>
    BY <1>5 DEF KernelRecv
  <2>. QED BY <1>2, <2>1, <2>3, <2>5, <2>6, <2>7
<1>. QED BY <1>3, <1>4, <1>5 DEF Kernel

\* The steps of the loop.
LEMMA LoopTypes == TypeInv /\ Loop => TypeInv'
<1>. SUFFICES ASSUME TypeInv, Loop PROVE TypeInv'
  OBVIOUS
<1>1. TypeOK /\ SocketsTypeOK /\ TableTypeOK
  BY DEF TypeInv, TypeOK
<1>2. ASSUME SocketsTypeOK', TableTypeOK',
             pc' \in {"wait", "send", "finish", "unlist"}, sq' \in Seq(Request), accepting' \in Nat,
             recvs' \in [Conn -> Nat], reqfd' \in [Conn -> Fd \cup {0}],
             cqe' \in Completion, bi' \in 0 .. MaxClients + 1,
             pc' = "send" => bi' >= 1,
             pc' # "wait" => cqe'.conn \in Conn,
             UNCHANGED cq \/ (cq # <<>> /\ cq' = Tail(cq))
      PROVE  TypeInv'
  <2>1. cq' \in Seq(Completion) /\ \A k \in DOMAIN cq' : Sound(cq'[k])
    <3>1. CASE UNCHANGED cq
      BY <1>1, <3>1 DEF TypeInv, TypeOK
    <3>2. CASE cq # <<>> /\ cq' = Tail(cq)
      BY <1>1, <3>2, Dequeued DEF TypeInv
    <3>. QED BY <1>2, <3>1, <3>2
  <2>2. TypeOK'
    BY <1>2, <2>1 DEF TypeOK, Request
  <2>. QED BY <1>2, <2>1, <2>2 DEF TypeInv, Sound
<1>3. /\ pc \in {"wait", "send", "finish", "unlist"} /\ sq \in Seq(Request) /\ accepting \in Nat
      /\ recvs \in [Conn -> Nat] /\ reqfd \in [Conn -> Fd \cup {0}]
      /\ cqe \in Completion /\ bi \in 0 .. MaxClients + 1
      /\ pc = "send" => bi >= 1
      /\ pc # "wait" => cqe.conn \in Conn
      /\ MaxClients \in Nat \ {0}
  BY <1>1, ChatServerAssumption DEF TypeInv, TypeOK, Request
<1>4. NoCqe \in Completion
  BY DEF NoCqe, Completion
<1>5. CASE AcceptDone
  <2>. DEFINE c == Head(cq).conn
              f == Head(cq).fd
  <2>1. /\ pc = "wait" /\ Seen("accept") /\ UNCHANGED <<pc, cqe, bi>>
    BY <1>5 DEF AcceptDone, At
  <2>2. /\ cq # <<>> /\ cq' = Tail(cq)
        /\ Head(cq).res = 1 => c \in Conn /\ f \in Fd
    BY <2>1, AcceptSeen
  <2>3. SocketsTypeOK' /\ TableTypeOK' /\ reqfd' \in [Conn -> Fd \cup {0}]
    <3>1. CASE /\ Head(cq).res = 1 /\ Register(c, f)
               /\ reqfd' = [reqfd EXCEPT ![c] = f] /\ UNCHANGED sockVars
      <4>1. TableTypeOK'
        BY <1>1, <2>2, <3>1, RegisterTypes
      <4>2. reqfd' \in [Conn -> Fd \cup {0}]
        BY <1>3, <2>2, <3>1
      <4>3. SocketsTypeOK'
        BY <1>1, <3>1 DEF SocketsTypeOK, sockVars
      <4>. QED BY <4>1, <4>2, <4>3
    <3>2. CASE CloseFd(f) /\ UNCHANGED <<tableVars, reqfd>>
      BY <1>1, <1>3, <3>2, CloseTypes DEF TableTypeOK, tableVars
    <3>3. CASE UNCHANGED <<sockVars, tableVars, reqfd>>
      BY <1>1, <1>3, <3>3 DEF SocketsTypeOK, sockVars, TableTypeOK, tableVars
    <3>. QED BY <1>5, <3>1, <3>2, <3>3 DEF AcceptDone
  <2>4. sq' \in Seq(Request) /\ accepting' \in Nat /\ recvs' \in [Conn -> Nat]
    <3>1. ASSUME Head(cq).res = 1, io_uring_submit(add_recv_request(c) \o add_accept_request)
          PROVE  sq' \in Seq(Request) /\ accepting' \in Nat /\ recvs' \in [Conn -> Nat]
      <4>1. add_recv_request(c) \o add_accept_request \in Seq(Request)
        BY <2>2, <3>1 DEF add_recv_request, add_accept_request, Request
      <4>. QED BY <1>1, <3>1, <4>1, Submitted
    <3>2. ASSUME io_uring_submit(add_accept_request)
          PROVE  sq' \in Seq(Request) /\ accepting' \in Nat /\ recvs' \in [Conn -> Nat]
      <4>1. add_accept_request \in Seq(Request)
        BY DEF add_accept_request, Request
      <4>. QED BY <1>1, <3>2, <4>1, Submitted
    <3>. QED BY <1>5, <3>1, <3>2 DEF AcceptDone
  <2>. HIDE DEF c, f
  <2>. QED BY <1>2, <1>3, <2>1, <2>2, <2>3, <2>4
<1>6. CASE RecvDone
  <2>1. /\ cq # <<>> /\ cq' = Tail(cq) /\ cqe' = Head(cq)
        /\ UNCHANGED <<sockVars, sq, accepting, recvs, reqfd>>
        /\ Head(cq).type = "recv"
    BY <1>6 DEF RecvDone, Seen
  <2>2. 1 \in DOMAIN cq /\ cqe' = cq[1] /\ cq[1] \in Completion /\ Sound(cq[1])
    BY <1>1, <2>1, Dequeued DEF TypeInv
  <2>3. cqe' \in Completion /\ cqe'.conn \in Conn /\ cqe'.fd \in Fd \cup {0} /\ cqe'.upto \in Nat
    BY <2>1, <2>2 DEF Sound, Completion
  <2>4. SocketsTypeOK'
    BY <1>1, <2>1 DEF SocketsTypeOK, sockVars
  <2>5. CASE /\ StartBroadcast(cqe'.conn, IdOfFd(cqe'.fd), cqe'.upto)
             /\ pc' = "send" /\ bi' = 1
    <3>1. IdOfFd(cqe'.fd) \in Int
      <4>1. \A i \in Slot : clients[i].id \in Int
        BY <1>1 DEF TableTypeOK
      <4>2. CASE \E i \in Slot : FirstWithFd(i, cqe'.fd)
        <5>1. (CHOOSE i \in Slot : FirstWithFd(i, cqe'.fd)) \in Slot
          BY <4>2
        <5>. QED BY <4>1, <4>2, <5>1 DEF IdOfFd
      <4>3. CASE ~\E i \in Slot : FirstWithFd(i, cqe'.fd)
        BY <4>3 DEF IdOfFd
      <4>. QED BY <4>2, <4>3
    <3>2. TableTypeOK'
      BY <1>1, <2>3, <2>5, <3>1, StartTypes
    <3>. QED BY <1>2, <1>3, <2>1, <2>3, <2>4, <2>5, <3>2
  <2>6. CASE pc' = "finish" /\ UNCHANGED <<tableVars, bi>>
    <3>1. TableTypeOK'
      BY <1>1, <2>6 DEF TableTypeOK, tableVars
    <3>. QED BY <1>2, <1>3, <2>1, <2>3, <2>4, <2>6, <3>1
  <2>. QED BY <1>6, <2>5, <2>6 DEF RecvDone
<1>7. CASE BroadcastSend
  <2>1. /\ BroadcastTo(bi, cqe.fd) /\ bi' = bi + 1 /\ bi <= MaxClients /\ pc = "send"
        /\ UNCHANGED <<tableVars, pc, sq, accepting, recvs, reqfd, cq, cqe>>
    BY <1>7 DEF BroadcastSend, At
  <2>2. bi \in Slot
    BY <1>3, <2>1 DEF Slot
  <2>3. SocketsTypeOK'
    BY <1>1, <2>1, <2>2, BroadcastTypes
  <2>4. TableTypeOK'
    BY <1>1, <2>1 DEF TableTypeOK, tableVars
  <2>5. bi' \in 0 .. MaxClients + 1 /\ bi' >= 1
    BY <1>3, <2>1
  <2>. QED BY <1>2, <1>3, <2>1, <2>3, <2>4, <2>5
<1>8. CASE BroadcastDone
  <2>1. SocketsTypeOK' /\ TableTypeOK'
    BY <1>1, <1>8 DEF BroadcastDone, SocketsTypeOK, sockVars, TableTypeOK, tableVars
  <2>. QED BY <1>2, <1>3, <1>8, <2>1 DEF BroadcastDone, At
<1>9. CASE Resubmit
  <2>1. SocketsTypeOK' /\ TableTypeOK'
    BY <1>1, <1>9 DEF Resubmit, SocketsTypeOK, sockVars, TableTypeOK, tableVars
  <2>2. cqe.conn \in Conn
    BY <1>3, <1>9 DEF Resubmit, At
  <2>3. add_recv_request(cqe.conn) \in Seq(Request)
    BY <2>2 DEF add_recv_request, Request
  <2>4. sq' \in Seq(Request) /\ accepting' \in Nat /\ recvs' \in [Conn -> Nat]
    BY <1>1, <1>9, <2>3, Submitted DEF Resubmit
  <2>5. pc' = "wait" /\ cqe' = NoCqe /\ UNCHANGED <<reqfd, cq, bi>>
    BY <1>9 DEF Resubmit
  <2>. QED BY <1>2, <1>3, <1>4, <2>1, <2>4, <2>5
<1>10. CASE CloseClient
  <2>1. SocketsTypeOK'
    BY <1>1, <1>10, CloseTypes DEF CloseClient
  <2>2. TableTypeOK'
    BY <1>1, <1>10 DEF CloseClient, TableTypeOK, tableVars
  <2>. QED BY <1>2, <1>3, <1>10, <2>1, <2>2 DEF CloseClient, At
<1>11. CASE Unlist
  <2>1. SocketsTypeOK'
    BY <1>1, <1>11 DEF Unlist, SocketsTypeOK, sockVars
  <2>2. TableTypeOK'
    BY <1>1, <1>11 DEF Unlist, Unregister, TableTypeOK
  <2>. QED BY <1>2, <1>3, <1>4, <1>11, <2>1, <2>2 DEF Unlist
<1>. QED BY <1>5, <1>6, <1>7, <1>8, <1>9, <1>10, <1>11 DEF Loop

\* Every step keeps the types.
LEMMA StepTypes == TypeInv /\ [Next]_vars => TypeInv'
<1>. SUFFICES ASSUME TypeInv, [Next]_vars PROVE TypeInv'
  OBVIOUS
<1>1. TypeOK /\ SocketsTypeOK /\ TableTypeOK
  BY DEF TypeInv, TypeOK
<1>2. ASSUME SocketsTypeOK', UNCHANGED <<tableVars, ringVars>> PROVE TypeInv'
  <2>1. TableTypeOK'
    BY <1>1, <1>2 DEF TableTypeOK, tableVars
  <2>. QED BY <1>2, <2>1 DEF TypeInv, TypeOK, ringVars
<1>3. CASE WaitFails
  <2>1. SocketsTypeOK'
    BY <1>1, <1>3 DEF WaitFails, SocketsTypeOK
  <2>. QED BY <1>2, <1>3, <2>1 DEF WaitFails
<1>4. CASE ClientNext /\ UNCHANGED <<tableVars, ringVars>>
  BY <1>1, <1>2, <1>4, ClientTypes
<1>5. CASE UNCHANGED vars
  <2>1. SocketsTypeOK'
    BY <1>1, <1>5 DEF vars, sockVars, SocketsTypeOK
  <2>. QED BY <1>2, <1>5, <2>1 DEF vars
<1>. QED BY <1>3, <1>4, <1>5, KernelTypes, LoopTypes DEF Next

-----------------------------------------------------------------------------
(* Ownership and counting, step by step *)

Waits(e) == \E k \in DOMAIN cq : cq[k] = e

\* Nothing is owned at the start, and one accept is under way.
LEMMA InitOwn == Init => OwnInv /\ CountInv
<1>. SUFFICES ASSUME Init PROVE OwnInv /\ CountInv
  OBVIOUS
<1>1. TableInv
  BY InitTable DEF Init
<1>2. \A i \in Slot : ~clients[i].is_active
  BY DEF Init, TableInit
<1>3. cq = <<>> /\ pc = "wait" /\ recvs = [c \in Conn |-> 0]
  BY DEF Init
<1>4. DOMAIN cq = {}
  BY <1>3
<1>5. OwnInv
  BY <1>1, <1>2, <1>3, <1>4, KeptAll DEF OwnInv, RequestFd, CompletionsOwn
<1>6. \A V : Cardinality(Hits(cq, V)) = 0
  <2>1. \A V : Hits(cq, V) = {}
    BY <1>4 DEF Hits
  <2>. QED BY <2>1, FS_EmptySet
<1>7. \A r : Count(<<>>, r) = 0
  <2>1. \A r : {n \in DOMAIN <<>> : <<>>[n] = r} = {}
    OBVIOUS
  <2>. QED BY <2>1, FS_EmptySet DEF Count
<1>8. \A c \in Conn : Asked(c) = 0
  <2>. TAKE c \in Conn
  <2>1. sq = <<>> \/ sq = <<NoConn>>
    BY DEF Init
  <2>2. Count(<<NoConn>>, c) = 0
    BY CountOne, SocketsAssumption
  <2>3. Count(sq, c) = 0
    BY <1>7, <2>1, <2>2, Zenon
  <2>. QED BY <1>3, <2>3 DEF Asked
<1>9. AcceptsAsked = 1
  <2>1. CASE sq = <<>> /\ accepting = 1
    <3>1. Count(sq, NoConn) = 0
      BY <1>7, <2>1, Zenon
    <3>. QED BY <2>1, <3>1 DEF AcceptsAsked
  <2>2. CASE sq = <<NoConn>> /\ accepting = 0
    <3>1. Count(<<NoConn>>, NoConn) = 1
      BY CountOne
    <3>2. Count(sq, NoConn) = 1
      BY <2>2, <3>1, Zenon
    <3>. QED BY <2>2, <3>2 DEF AcceptsAsked
  <2>. QED BY <2>1, <2>2 DEF Init
<1>10. CountInv
  <2>1. \A c \in Conn : Queued(c) = 0 /\ Handling(c) = 0 /\ ~Served(c)
    BY <1>2, <1>3, <1>6 DEF Queued, Handling, Served, Kept
  <2>2. AcceptsDone = 0
    BY <1>6 DEF AcceptsDone
  <2>. QED BY <1>8, <1>9, <2>1, <2>2 DEF CountInv
<1>. QED BY <1>5, <1>10

\* The counts after a completion e was queued.
LEMMA QueuedMore ==
  ASSUME TypeOK, NEW e \in Completion, cq' = Append(cq, e)
  PROVE  /\ AcceptsDone' = AcceptsDone + (IF e.type = "accept" THEN 1 ELSE 0)
         /\ \A d \in Conn :
              Queued(d)' = Queued(d) + (IF e.type = "recv" /\ e.conn = d THEN 1 ELSE 0)
         /\ \A g : Waits(g)' => g = e \/ Waits(g)
<1>1. e \in OfAccept <=> e.type = "accept"
  BY DEF OfAccept
<1>2. \A d : e \in RecvOf(d) <=> e.type = "recv" /\ e.conn = d
  BY DEF RecvOf
<1>3. AcceptsDone' = AcceptsDone + (IF e.type = "accept" THEN 1 ELSE 0)
  BY <1>1, Enqueued DEF AcceptsDone
<1>4. ASSUME NEW d \in Conn
      PROVE  Queued(d)' = Queued(d) + (IF e.type = "recv" /\ e.conn = d THEN 1 ELSE 0)
  BY <1>2, Enqueued DEF Queued, RecvOf
<1>5. \A g : Waits(g)' => g = e \/ Waits(g)
  BY Enqueued DEF Waits
<1>. QED BY <1>3, <1>4, <1>5

\* The counts after the oldest completion was seen.
LEMMA QueuedLess ==
  ASSUME TypeOK, cq # <<>>, cq' = Tail(cq), NEW e, e = Head(cq)
  PROVE  /\ AcceptsDone = AcceptsDone' + (IF e.type = "accept" THEN 1 ELSE 0)
         /\ \A d \in Conn :
              Queued(d) = Queued(d)' + (IF e.type = "recv" /\ e.conn = d THEN 1 ELSE 0)
         /\ Waits(e) /\ e \in Completion
         /\ \A g : Waits(g)' => Waits(g)
<1>1. e \in Completion /\ Waits(e)
  BY Dequeued DEF Waits
<1>2. e \in OfAccept <=> e.type = "accept"
  BY <1>1 DEF OfAccept
<1>3. \A d : e \in RecvOf(d) <=> e.type = "recv" /\ e.conn = d
  BY <1>1 DEF RecvOf
<1>4. \A V : Cardinality(Hits(cq, V)) = (IF e \in V THEN 1 ELSE 0) + Cardinality(Hits(cq', V))
  BY Dequeued
<1>5. cq' \in Seq(Completion)
  BY Dequeued
<1>6. AcceptsDone = (IF e \in OfAccept THEN 1 ELSE 0) + AcceptsDone' /\ AcceptsDone' \in Nat
  BY <1>4, <1>5, HitsFinite DEF AcceptsDone, OfAccept
<1>7. ASSUME NEW d \in Conn
      PROVE  Queued(d) = (IF e \in RecvOf(d) THEN 1 ELSE 0) + Queued(d)' /\ Queued(d)' \in Nat
  BY <1>4, <1>5, HitsFinite DEF Queued, RecvOf
<1>8. \A g : Waits(g)' => Waits(g)
  BY Dequeued DEF Waits
<1>. QED BY <1>1, <1>2, <1>3, <1>6, <1>7, <1>8

\* A completion that waits is about what its descriptor belongs to.
LEMMA EntriesOwn ==
  ASSUME CompletionsOwn, NEW e, Waits(e)
  PROVE  EntryOwn(e)
BY DEF CompletionsOwn, Waits

\* The kernel's side keeps ownership and the counts.
LEMMA KernelOwn == TypeInv /\ OwnInv /\ CountInv /\ TypeInv' /\ Kernel => OwnInv' /\ CountInv'
<1>. SUFFICES ASSUME TypeInv, OwnInv, CountInv, TypeInv', Kernel PROVE OwnInv' /\ CountInv'
  OBVIOUS
<1>1. /\ TypeOK /\ TypeOK' /\ SocketsTypeOK /\ TableTypeOK
      /\ accepting \in Nat /\ recvs \in [Conn -> Nat] /\ reqfd \in [Conn -> Fd \cup {0}]
      /\ KeptTable /\ StaleInv /\ DescInv /\ RequestFd /\ CompletionsOwn
      /\ \A g : Waits(g) => Sound(g)
  BY DEF TypeInv, TypeOK, OwnInv, KeptTable, Waits
<1>2. /\ \A d \in Conn : Asked(d) \in Nat /\ Queued(d) \in Nat /\ Handling(d) \in {0, 1}
      /\ \A d \in Conn : Asked(d) + Queued(d) + Handling(d) = IF Served(d) THEN 1 ELSE 0
      /\ AcceptsAsked \in Nat /\ AcceptsDone \in Nat /\ AcceptsAsked + AcceptsDone = 1
  BY <1>1, RecvsAre, AcceptsAre DEF CountInv
<1>3. ASSUME UNCHANGED <<sq, recvs, pc, cqe>>, accepting > 0, accepting' = accepting - 1,
             NEW e \in Completion, e.type = "accept", cq' = Append(cq, e),
             \A d : Served(d)' <=> Served(d)
      PROVE  CountInv'
  <2>1. \A d \in Conn : Asked(d)' = Asked(d) /\ Handling(d)' = Handling(d)
    BY <1>3 DEF Asked, Handling
  <2>2. \A d \in Conn : Served(d)' <=> Served(d)
    BY <1>3
  <2>3. /\ AcceptsDone' = AcceptsDone + 1
        /\ \A d \in Conn : Queued(d)' = Queued(d) + 0
    BY <1>1, <1>3, QueuedMore
  <2>4. AcceptsAsked' = AcceptsAsked - 1
    <3>1. Count(sq, NoConn) \in Nat
      BY <1>1, CountNat DEF TypeOK
    <3>. QED BY <1>1, <1>3, <3>1 DEF AcceptsAsked
  <2>5. AcceptsAsked' + AcceptsDone' = 1
    BY <1>2, <2>3, <2>4
  <2>6. \A d \in Conn : Asked(d)' + Queued(d)' + Handling(d)' = IF Served(d)' THEN 1 ELSE 0
    BY <1>2, <2>1, <2>2, <2>3
  <2>. QED BY <2>5, <2>6 DEF CountInv
<1>4. CASE KernelAccept
  <2>1. PICK c \in backlog, f \in Fd :
          /\ LowestFree(f) /\ AcceptConn(c, f)
          /\ cq' = Append(cq, [type |-> "accept", conn |-> c, fd |-> f, res |-> 1, upto |-> 0])
    BY <1>4 DEF KernelAccept
  <2>. DEFINE e == [type |-> "accept", conn |-> c, fd |-> f, res |-> 1, upto |-> 0]
  <2>2. /\ accepting > 0 /\ accepting' = accepting - 1
        /\ UNCHANGED <<clients, idOf, pc, sq, recvs, reqfd, cqe>>
    BY <1>4 DEF KernelAccept, tableVars
  <2>3. /\ c \in Conn /\ idOf[c] = 0 /\ fdt[f] = NoConn /\ DescInv'
        /\ fdt'[f] = c /\ \A h \in Fd : h # f => fdt'[h] = fdt[h]
    <3>1. fdt[f] = NoConn
      BY <2>1 DEF LowestFree
    <3>. QED BY <1>1, <2>1, <2>2, <3>1, AcceptDesc
  <2>4. e \in Completion
    BY <2>3 DEF Completion
  <2>5. e.type = "accept" /\ e.fd = f /\ e.conn = c /\ cq' = Append(cq, e)
    BY <2>1
  <2>. HIDE DEF e
  <2>6. /\ KeptTable' /\ StaleInv'
        /\ \A i \in Slot : (Kept(i)' <=> Kept(i)) /\ (Kept(i) => ConnIn(i)' = ConnIn(i))
        /\ \A d : Served(d)' <=> Served(d)
    <3>1. \A i \in Slot : Kept(i) => fdt'[clients[i].fd] = fdt[clients[i].fd]
      BY <1>1, <2>3, SocketsAssumption DEF KeptTable, Holds
    <3>2. pc = "unlist" => \A d \in Conn : fdt'[cqe.fd] = d => idOf[d] = 0
      BY <1>1, <2>3 DEF StaleInv
    <3>3. UNCHANGED <<clients, idOf>>
      BY <2>2
    <3>5. UNCHANGED <<pc, cqe>>
      BY <2>2
    <3>6. KeptTable /\ StaleInv /\ DescInv'
      BY <1>1, <2>3
    <3>. QED BY <3>1, <3>2, <3>3, <3>5, <3>6, KeptSame
  <2>7. RequestFd'
    BY <1>1, <2>2, <2>6 DEF RequestFd
  <2>8. ASSUME NEW g, Waits(g)' PROVE EntryOwn(g)'
    <3>1. fdt'[f] = c /\ \A h \in Fd : h # f => fdt'[h] = fdt[h]
      BY <2>3
    <3>2. g = e \/ Waits(g)
      BY <1>1, <2>4, <2>5, <2>8, QueuedMore
    <3>3. CASE g = e
      BY <2>2, <2>3, <2>5, <3>1, <3>3 DEF EntryOwn
    <3>4. CASE Waits(g)
      <4>1. Sound(g) /\ EntryOwn(g)
        BY <1>1, <3>4, EntriesOwn
      <4>. QED BY <2>2, <2>3, <3>1, <4>1, SocketsAssumption DEF Sound, EntryOwn
    <3>. QED BY <3>2, <3>3, <3>4
  <2>9. CompletionsOwn'
    BY <1>1, <2>2, <2>8 DEF CompletionsOwn, Waits
  <2>10. CountInv'
    BY <1>3, <2>2, <2>4, <2>5, <2>6
  <2>. QED BY <2>6, <2>7, <2>9, <2>10 DEF OwnInv
<1>5. CASE KernelAcceptFails
  <2>1. /\ accepting > 0 /\ accepting' = accepting - 1 /\ cq' = Append(cq, NoCqe)
        /\ UNCHANGED <<fdt, backlog, peer, clients, idOf, pc, sq, recvs, reqfd, cqe>>
    BY <1>5 DEF KernelAcceptFails, sockVars, tableVars
  <2>2. NoCqe \in Completion /\ NoCqe.type = "accept" /\ NoCqe.res = -1
    BY DEF NoCqe, Completion
  <2>3. /\ KeptTable' /\ StaleInv'
        /\ \A i \in Slot : (Kept(i)' <=> Kept(i)) /\ (Kept(i) => ConnIn(i)' = ConnIn(i))
        /\ \A d : Served(d)' <=> Served(d)
    <3>1. DescInv'
      BY <1>1, <2>1, StutterDesc
    <3>2. pc = "unlist" => \A d \in Conn : fdt'[cqe.fd] = d => idOf[d] = 0
      BY <1>1, <2>1 DEF StaleInv
    <3>4. \A i \in Slot : Kept(i) => fdt'[clients[i].fd] = fdt[clients[i].fd]
      BY <2>1
    <3>3. UNCHANGED <<clients, idOf>>
      BY <2>1
    <3>5. UNCHANGED <<pc, cqe>>
      BY <2>1
    <3>6. KeptTable /\ StaleInv /\ DescInv'
      BY <1>1, <3>1
    <3>. QED BY <3>4, <3>2, <3>3, <3>5, <3>6, KeptSame
  <2>4. RequestFd'
    BY <1>1, <2>1, <2>3 DEF RequestFd
  <2>5. ASSUME NEW g, Waits(g)' PROVE EntryOwn(g)'
    <3>1. g = NoCqe \/ Waits(g)
      BY <1>1, <2>1, <2>2, <2>5, QueuedMore
    <3>2. CASE g = NoCqe
      BY <2>2, <3>2 DEF EntryOwn
    <3>3. CASE Waits(g)
      BY <1>1, <2>1, <3>3, EntriesOwn DEF EntryOwn
    <3>. QED BY <3>1, <3>2, <3>3
  <2>6. CompletionsOwn'
    BY <1>1, <2>1, <2>5 DEF CompletionsOwn, Waits
  <2>7. CountInv'
    BY <1>3, <2>1, <2>2, <2>3
  <2>. QED BY <2>3, <2>4, <2>6, <2>7 DEF OwnInv
<1>6. ASSUME NEW c \in Conn, KernelRecv(c) PROVE OwnInv' /\ CountInv'
  <2>1. PICK r \in {-1, 0, 1} :
          /\ CASE r = 1 -> RecvData(c) [] r = 0 -> RecvEof(c) [] OTHER -> RecvError(c)
          /\ cq' = Append(cq, [type |-> "recv", conn |-> c, fd |-> reqfd[c],
                               res |-> r, upto |-> IF r = 1 THEN taken'[c] ELSE 0])
    BY <1>6 DEF KernelRecv
  <2>2. /\ recvs[c] > 0 /\ recvs' = [recvs EXCEPT ![c] = @ - 1]
        /\ UNCHANGED <<clients, idOf, pc, sq, accepting, reqfd, cqe>>
    BY <1>6 DEF KernelRecv, tableVars
  <2>. DEFINE n == IF r = 1 THEN taken'[c] ELSE 0
              e == [type |-> "recv", conn |-> c, fd |-> reqfd[c], res |-> r, upto |-> n]
  <2>3. RecvData(c) \/ RecvEof(c) \/ RecvError(c)
    BY <2>1
  <2>4. /\ KeptTable' /\ StaleInv' /\ UNCHANGED fdt
        /\ \A i \in Slot : (Kept(i)' <=> Kept(i)) /\ (Kept(i) => ConnIn(i)' = ConnIn(i))
        /\ \A d : Served(d)' <=> Served(d)
    <3>1. DescInv' /\ UNCHANGED fdt
      BY <1>1, <2>2, <2>3, RecvDesc
    <3>2. pc = "unlist" => \A d \in Conn : fdt'[cqe.fd] = d => idOf[d] = 0
      BY <1>1, <3>1 DEF StaleInv
    <3>4. \A i \in Slot : Kept(i) => fdt'[clients[i].fd] = fdt[clients[i].fd]
      BY <3>1
    <3>3. UNCHANGED <<clients, idOf>>
      BY <2>2
    <3>5. UNCHANGED <<pc, cqe>>
      BY <2>2
    <3>6. KeptTable /\ StaleInv /\ DescInv'
      BY <1>1, <3>1
    <3>. QED BY <3>1, <3>4, <3>2, <3>3, <3>5, <3>6, KeptSame
  <2>5. n \in Nat
    BY <1>1 DEF TypeOK, SocketsTypeOK
  <2>6. e \in Completion
    <3>. HIDE DEF n
    <3>. QED BY <1>1, <2>5 DEF Completion
  <2>7. e.type = "recv" /\ e.conn = c /\ e.fd = reqfd[c] /\ cq' = Append(cq, e)
    BY <2>1
  <2>. HIDE DEF e, n
  <2>8. PICK v \in Completion :
          v.type = "recv" /\ v.conn = c /\ v.fd = reqfd[c] /\ cq' = Append(cq, v)
    BY <2>6, <2>7
  <2>9. RequestFd'
    BY <1>1, <2>2, <2>4 DEF RequestFd
  <2>10. ASSUME NEW g, Waits(g)' PROVE EntryOwn(g)'
    <3>1. g = v \/ Waits(g)
      BY <1>1, <2>8, <2>10, QueuedMore
    <3>2. CASE g = v
      BY <2>2, <2>8, <3>2 DEF EntryOwn
    <3>3. CASE Waits(g)
      BY <1>1, <2>2, <2>4, <3>3, EntriesOwn DEF EntryOwn
    <3>. QED BY <3>1, <3>2, <3>3
  <2>11. CompletionsOwn'
    BY <1>1, <2>2, <2>10 DEF CompletionsOwn, Waits
  <2>12. ASSUME NEW d \in Conn
         PROVE  /\ Asked(d)' = IF d = c THEN Asked(d) - 1 ELSE Asked(d)
                /\ Queued(d)' = IF d = c THEN Queued(d) + 1 ELSE Queued(d)
                /\ Handling(d)' = Handling(d)
                /\ Served(d)' <=> Served(d)
    <3>1. Count(sq, d) \in Nat
      BY <1>1, CountNat DEF TypeOK
    <3>2. recvs'[d] = IF d = c THEN recvs[d] - 1 ELSE recvs[d]
      BY <1>1, <2>2
    <3>3. Asked(d)' = IF d = c THEN Asked(d) - 1 ELSE Asked(d)
      BY <1>1, <2>2, <3>1, <3>2 DEF Asked
    <3>4. Queued(d)' = Queued(d) + (IF d = c THEN 1 ELSE 0)
      BY <1>1, <2>8, QueuedMore
    <3>. QED BY <1>2, <2>2, <2>4, <3>3, <3>4 DEF Handling
  <2>13. AcceptsAsked' = AcceptsAsked /\ AcceptsDone' = AcceptsDone + 0
    BY <1>1, <2>2, <2>8, QueuedMore DEF AcceptsAsked
  <2>14. CountInv'
    <3>1. \A d \in Conn : Asked(d)' + Queued(d)' + Handling(d)' = IF Served(d)' THEN 1 ELSE 0
      BY <1>2, <2>12
    <3>. QED BY <1>2, <2>13, <3>1 DEF CountInv
  <2>. QED BY <2>4, <2>9, <2>11, <2>14 DEF OwnInv
<1>. QED BY <1>4, <1>5, <1>6 DEF Kernel

\* The parts RecvsOf adds up are numbers.
LEMMA PartsAre ==
  TypeOK =>
    /\ \A c \in Conn : Asked(c) \in Nat /\ Queued(c) \in Nat /\ Handling(c) \in {0, 1}
    /\ AcceptsAsked \in Nat /\ AcceptsDone \in Nat
BY RecvsAre, AcceptsAre

\* So they are after a step.
LEMMA PartsNext ==
  (TypeOK =>
    /\ \A c \in Conn : Asked(c) \in Nat /\ Queued(c) \in Nat /\ Handling(c) \in {0, 1}
    /\ AcceptsAsked \in Nat /\ AcceptsDone \in Nat)'
BY PartsAre, PTL

\* What is left when one of two numbers is one.
LEMMA SumIsOne ==
  /\ \A a, q \in Nat : a + (q + 1) = 1 => a = 0 /\ q = 0
  /\ \A q \in Nat : q + 0 = q
OBVIOUS

\* The loop's steps, but for the clean-up, keep ownership and the counts.
LEMMA HandlerOwn ==
  ASSUME TypeInv, OwnInv, CountInv, TypeInv',
         AcceptDone \/ RecvDone \/ BroadcastSend \/ BroadcastDone \/ Resubmit
  PROVE  OwnInv' /\ CountInv'
<1>0. pc # "unlist" /\ pc' # "unlist"
  BY DEF AcceptDone, RecvDone, BroadcastSend, BroadcastDone, Resubmit, At
<1>1. /\ TypeOK /\ TypeOK' /\ SocketsTypeOK /\ TableTypeOK
      /\ accepting \in Nat /\ recvs \in [Conn -> Nat] /\ reqfd \in [Conn -> Fd \cup {0}]
      /\ TableInv /\ ListedFd /\ CompletionsOwn
      /\ \A g : Waits(g) => Sound(g)
      /\ pc # "wait" => cqe.conn \in Conn
  BY <1>0, KeptAll DEF TypeInv, TypeOK, OwnInv, Waits
<1>2. /\ \A d \in Conn : Asked(d) \in Nat /\ Queued(d) \in Nat /\ Handling(d) \in {0, 1}
      /\ \A d \in Conn : Asked(d) + Queued(d) + Handling(d) = IF Listed(d) THEN 1 ELSE 0
      /\ AcceptsAsked \in Nat /\ AcceptsDone \in Nat /\ AcceptsAsked + AcceptsDone = 1
  BY <1>0, <1>1, KeptAll, RecvsAre, AcceptsAre DEF CountInv
<1>3. /\ \A d \in Conn : Asked(d)' \in Nat /\ Queued(d)' \in Nat /\ Handling(d)' \in {0, 1}
      /\ AcceptsAsked' \in Nat /\ AcceptsDone' \in Nat
  BY <1>1, PartsNext
<1>a. ASSUME TableInv', ListedFd', CompletionsOwn' PROVE OwnInv'
  BY <1>0, <1>a, KeptNext DEF OwnInv
<1>b. ASSUME \A d \in Conn : Asked(d)' + Queued(d)' + Handling(d)' = IF Listed(d)' THEN 1 ELSE 0,
             AcceptsAsked' + AcceptsDone' = 1
      PROVE  CountInv'
  BY <1>0, <1>b, KeptNext DEF CountInv
<1>4. CASE AcceptDone
  <2>. DEFINE e == Head(cq)
  <2>1. pc = "wait" /\ Seen("accept") /\ UNCHANGED <<pc, cqe, bi>>
    BY <1>4 DEF AcceptDone, At
  <2>2. PICK h \in Completion :
          /\ h = Head(cq) /\ cq # <<>> /\ cq' = Tail(cq) /\ h.type = "accept"
          /\ h.res # -1 => h.res = 1 /\ h.conn \in Conn /\ h.fd \in Fd
    BY <2>1, AcceptSeen
  <2>3. Waits(h) /\ (\A g : Waits(g)' => Waits(g)) /\ AcceptsDone = AcceptsDone' + 1
    BY <1>1, <2>2, QueuedLess
  <2>4. \A d \in Conn : Queued(d)' = Queued(d)
    <3>0. TypeOK
      BY <1>1
    <3>1. \A d \in Conn :
            Queued(d) = Queued(d)' + (IF h.type = "recv" /\ h.conn = d THEN 1 ELSE 0)
      BY <2>2, <3>0, QueuedLess
    <3>2. \A d \in Conn : Queued(d) = Queued(d)' + 0
      BY <2>2, <3>1
    <3>. QED BY <1>3, <3>2
  <2>5. AcceptsDone' = 0 /\ AcceptsAsked = 0
    <3>1. AcceptsAsked \in Nat /\ AcceptsAsked + (AcceptsDone' + 1) = 1
      BY <1>2, <2>3
    <3>2. AcceptsDone' \in Nat
      BY <1>3
    <3>. QED BY <3>1, <3>2, SumIsOne, Zenon
  <2>6. ASSUME NEW g, Waits(g)' PROVE g.type = "recv" /\ g.conn \in Conn /\ Listed(g.conn)
    <3>1. cq' \in Seq(Completion) /\ g \in Completion /\ Waits(g) /\ Sound(g)
      <4>1. Waits(g)
        BY <2>3, <2>6
      <4>2. cq' \in Seq(Completion)
        BY <1>1 DEF TypeOK
      <4>3. g \in Completion /\ Sound(g)
        BY <1>1, <4>1, CompletionTypes DEF Waits
      <4>. QED BY <4>1, <4>2, <4>3
    <3>2. g \notin OfAccept
      BY <2>5, <2>6, <3>1, HitExists DEF AcceptsDone, Waits, OfAccept
    <3>3. g.type = "recv" /\ g.conn \in Conn
      BY <3>1, <3>2 DEF OfAccept, Completion, Sound
    <3>4. Queued(g.conn) # 0
      BY <1>1, <3>1, <3>3, QueuedHere DEF Waits
    <3>5. Queued(g.conn) > 0
      BY <1>2, <3>3, <3>4
    <3>6. CountInv /\ Served(g.conn)
      BY <1>1, <3>3, <3>5, OnlyListed
    <3>. QED BY <1>0, <3>3, <3>6, KeptAll
  <2>7. \A d \in Conn : Handling(d) = 0 /\ Handling(d)' = 0
    BY <2>1 DEF Handling
  <2>8. CASE /\ h.res = 1 /\ Register(h.conn, h.fd) /\ UNCHANGED sockVars
             /\ io_uring_submit(add_recv_request(h.conn) \o add_accept_request)
             /\ reqfd' = [reqfd EXCEPT ![h.conn] = h.fd]
    <3>. DEFINE c == h.conn
                f == h.fd
    <3>1. c \in Conn /\ f \in Fd /\ fdt[f] = c /\ idOf[c] = 0
      BY <1>1, <2>2, <2>3, <2>8, EntriesOwn DEF EntryOwn
    <3>2. UNCHANGED <<fdt, backlog, peer>>
      BY <2>8 DEF sockVars
    <3>3. /\ TableInv'
          /\ ~InTable(f) /\ InTable(f)'
          /\ \A g : g # f => InTable(g)' = InTable(g)
      BY <1>1, <2>8, <3>1, <3>2, RegisterTable
    <3>4. \A d \in Conn : Listed(d) <=> \E g \in Fd : fdt[g] = d /\ InTable(g)
      BY <1>1, ListedIs
    <3>5. \A d \in Conn : Listed(d)' <=> \E g \in Fd : fdt'[g] = d /\ InTable(g)'
      BY <3>3, ListedNext
    <3>6. ~Listed(c)
      BY <1>1, <3>1, <3>3, <3>4, SocketsAssumption DEF TableInv, OneFd
    <3>7. \A d \in Conn : Listed(d)' <=> Listed(d) \/ d = c
      BY <3>1, <3>2, <3>3, <3>4, <3>5
    <3>8. reqfd'[c] = f /\ \A d \in Conn : d # c => reqfd'[d] = reqfd[d]
      BY <1>1, <2>8, <3>1
    <3>9. ListedFd'
      <4>1. ASSUME NEW i \in Slot, clients'[i].is_active
            PROVE  reqfd'[fdt'[clients'[i].fd]] = clients'[i].fd
        <5>1. clients'[i].fd = f \/ clients'[i] = clients[i]
          BY <2>8, <1>1 DEF Register, TableTypeOK
        <5>2. CASE clients'[i].fd = f
          BY <3>1, <3>2, <3>8, <5>2
        <5>3. CASE clients'[i] = clients[i]
          <6>1. Holds(i) /\ reqfd[ConnIn(i)] = clients[i].fd /\ Listed(ConnIn(i))
            BY <1>1, <4>1, <5>3 DEF TableInv, SlotsHold, ListedFd, Listed
          <6>2. ConnIn(i) \in Conn /\ ConnIn(i) # c
            BY <3>6, <6>1 DEF Holds, ConnIn
          <6>. QED BY <3>2, <3>8, <5>3, <6>1, <6>2 DEF ConnIn
        <5>. QED BY <5>1, <5>2, <5>3
      <4>. QED BY <4>1 DEF ListedFd, ConnIn
    <3>10. ASSUME NEW g, Waits(g)' PROVE EntryOwn(g)'
      <4>1. g.type = "recv" /\ g.conn \in Conn /\ Listed(g.conn)
        BY <2>6, <3>10
      <4>2. EntryOwn(g) /\ g.conn # c
        BY <1>1, <2>3, <3>6, <3>10, <4>1, EntriesOwn
      <4>. QED BY <3>8, <4>1, <4>2 DEF EntryOwn
    <3>11. CompletionsOwn'
      BY <2>1, <3>10 DEF CompletionsOwn, Waits
    <3>12. /\ add_recv_request(c) \o add_accept_request \in Seq(Request)
           /\ \A d \in Conn : Count(add_recv_request(c) \o add_accept_request, d) =
                IF d = c THEN 1 ELSE 0
           /\ Count(add_recv_request(c) \o add_accept_request, NoConn) = 1
      <4>1. <<c>> \in Seq(Request) /\ <<NoConn>> \in Seq(Request)
        BY <3>1 DEF Request
      <4>2. <<c>> \o <<NoConn>> \in Seq(Request)
        BY <4>1
      <4>3. \A r : Count(<<c>> \o <<NoConn>>, r) =
                     (IF r = c THEN 1 ELSE 0) + (IF r = NoConn THEN 1 ELSE 0)
        <5>. TAKE r
        <5>1. Count(<<c>> \o <<NoConn>>, r) = Count(<<c>>, r) + Count(<<NoConn>>, r)
          BY <4>1, CountConcat
        <5>2. Count(<<c>>, r) = (IF r = c THEN 1 ELSE 0)
          BY CountOne
        <5>3. Count(<<NoConn>>, r) = (IF r = NoConn THEN 1 ELSE 0)
          BY CountOne
        <5>. QED BY <5>1, <5>2, <5>3
      <4>. QED BY <3>1, <4>2, <4>3, SocketsAssumption DEF add_recv_request, add_accept_request
    <3>13. /\ \A d \in Conn : Asked(d)' = Asked(d) + (IF d = c THEN 1 ELSE 0)
           /\ AcceptsAsked' = AcceptsAsked + 1
      BY <1>1, <2>8, <3>12, Submitted
    <3>14. CountInv'
      <4>1. \A d \in Conn : Asked(d)' + Queued(d)' + Handling(d)' = IF Listed(d)' THEN 1 ELSE 0
        BY <1>2, <2>4, <2>7, <3>6, <3>7, <3>13
      <4>. QED BY <1>b, <2>5, <3>13, <4>1
    <3>. QED BY <1>a, <3>3, <3>9, <3>11, <3>14
  <2>9. ASSUME UNCHANGED <<clients, idOf, reqfd>>, io_uring_submit(add_accept_request), TableInv',
               \A i \in Slot : clients[i].is_active => fdt'[clients[i].fd] = fdt[clients[i].fd]
        PROVE  OwnInv' /\ CountInv'
    <3>1. ListedFd'
      BY <1>1, <2>9 DEF ListedFd, ConnIn
    <3>2. ASSUME NEW g, Waits(g)' PROVE EntryOwn(g)'
      BY <1>1, <2>3, <2>6, <2>9, <3>2, EntriesOwn DEF EntryOwn
    <3>3. CompletionsOwn'
      BY <2>1, <3>2 DEF CompletionsOwn, Waits
    <3>4. /\ add_accept_request \in Seq(Request)
          /\ \A d \in Conn : Count(add_accept_request, d) = 0
          /\ Count(add_accept_request, NoConn) = 1
      <4>1. <<NoConn>> \in Seq(Request)
        BY DEF Request
      <4>2. \A r : Count(<<NoConn>>, r) = (IF NoConn = r THEN 1 ELSE 0)
        BY CountOne
      <4>. QED BY <4>1, <4>2, SocketsAssumption DEF add_accept_request
    <3>5. /\ \A d \in Conn : Asked(d)' = Asked(d) + 0
          /\ AcceptsAsked' = AcceptsAsked + 1
      BY <1>1, <2>9, <3>4, Submitted
    <3>6. \A d \in Conn : Listed(d)' <=> Listed(d)
      BY <2>9 DEF Listed, ConnIn
    <3>7. \A d \in Conn : Asked(d)' + Queued(d)' + Handling(d)' = IF Listed(d)' THEN 1 ELSE 0
      BY <1>2, <2>4, <2>7, <3>5, <3>6
    <3>8. CountInv'
      BY <1>b, <2>5, <3>5, <3>7
    <3>. QED BY <1>a, <2>9, <3>1, <3>3, <3>8
  <2>10. CASE /\ h.res = 1 /\ CloseFd(h.fd) /\ io_uring_submit(add_accept_request)
              /\ UNCHANGED <<tableVars, reqfd>>
    <3>1. h.conn \in Conn /\ h.fd \in Fd /\ fdt[h.fd] = h.conn /\ idOf[h.conn] = 0
      BY <1>1, <2>2, <2>3, <2>10, EntriesOwn DEF EntryOwn
    <3>2. ~InTable(h.fd)
      BY <1>1, <3>1 DEF InTable, TableInv, SlotsHold, Holds
    <3>3. /\ TableInv'
          /\ \A i \in Slot : clients[i].is_active => fdt'[clients[i].fd] = fdt[clients[i].fd]
      BY <1>1, <2>10, <3>1, <3>2, CloseTable DEF tableVars
    <3>. QED BY <2>9, <2>10, <3>3 DEF tableVars
  <2>11. CASE /\ h.res = -1 /\ io_uring_submit(add_accept_request)
              /\ UNCHANGED <<sockVars, tableVars, reqfd>>
    <3>1. TableInv'
      BY <1>1, <2>11, StutterTable DEF sockVars, tableVars
    <3>. QED BY <2>9, <2>11, <3>1 DEF sockVars, tableVars
  <2>. QED BY <1>4, <2>2, <2>8, <2>10, <2>11 DEF AcceptDone
<1>5. CASE RecvDone
  <2>1. PICK h \in Completion :
          /\ h = Head(cq) /\ cq # <<>> /\ cq' = Tail(cq) /\ h.type = "recv" /\ cqe' = h
          /\ pc = "wait" /\ pc' \in {"send", "finish"}
          /\ UNCHANGED <<sockVars, sq, accepting, recvs, reqfd, clients, idOf>>
    <3>1. /\ cq # <<>> /\ cq' = Tail(cq) /\ Head(cq).type = "recv" /\ cqe' = Head(cq)
          /\ pc = "wait" /\ pc' \in {"send", "finish"}
          /\ UNCHANGED <<sockVars, sq, accepting, recvs, reqfd, clients, idOf>>
      BY <1>5 DEF RecvDone, Seen, At, StartBroadcast, tableVars
    <3>2. Head(cq) \in Completion
      BY <1>1, <3>1, Dequeued
    <3>. QED BY <3>1, <3>2
  <2>2. /\ Waits(h) /\ (\A g : Waits(g)' => Waits(g)) /\ Sound(h)
        /\ AcceptsDone = AcceptsDone' + (IF h.type = "accept" THEN 1 ELSE 0)
        /\ \A d \in Conn :
             Queued(d) = Queued(d)' + (IF h.type = "recv" /\ h.conn = d THEN 1 ELSE 0)
    BY <1>1, <2>1, QueuedLess
  <2>3. h.conn \in Conn
    BY <2>1, <2>2 DEF Sound
  <2>4. TableInv'
    BY <1>1, <2>1, StutterTable DEF sockVars
  <2>5. ListedFd'
    BY <1>1, <2>1 DEF ListedFd, ConnIn, sockVars
  <2>6. \A g : Waits(g) => EntryOwn(g)'
    BY <1>1, <2>1, EntriesOwn DEF EntryOwn, sockVars
  <2>7. cqe'.fd = reqfd'[cqe'.conn]
    BY <2>1, <2>2, <1>1, EntriesOwn DEF EntryOwn
  <2>8. CompletionsOwn'
    BY <2>2, <2>6, <2>7 DEF CompletionsOwn, Waits
  <2>9. ASSUME NEW d \in Conn
        PROVE  Asked(d)' + Queued(d)' + Handling(d)' = IF Listed(d)' THEN 1 ELSE 0
    <3>1. Asked(d)' = Asked(d) /\ (Listed(d)' <=> Listed(d))
      BY <2>1 DEF Asked, Listed, ConnIn, sockVars
    <3>2. Handling(d) = 0 /\ Handling(d)' = IF h.conn = d THEN 1 ELSE 0
      BY <2>1 DEF Handling
    <3>3. Queued(d) = Queued(d)' + (IF h.conn = d THEN 1 ELSE 0)
      BY <2>1, <2>2
    <3>4. Asked(d) + Queued(d) + Handling(d) = IF Listed(d) THEN 1 ELSE 0
      BY <1>2
    <3>5. /\ Asked(d) \in Nat /\ Queued(d) \in Nat /\ Queued(d)' \in Nat
      BY <1>2, <1>3
    <3>6. Asked(d) + Queued(d)' + Handling(d)' = Asked(d) + Queued(d) + Handling(d)
      BY <3>2, <3>3, <3>5
    <3>7. Asked(d)' + Queued(d)' + Handling(d)' = IF Listed(d) THEN 1 ELSE 0
      BY <3>1, <3>4, <3>6, Zenon
    <3>. QED BY <3>1, <3>7
  <2>10. AcceptsAsked' = AcceptsAsked /\ AcceptsDone' = AcceptsDone
    <3>1. AcceptsAsked' = AcceptsAsked
      BY <2>1 DEF AcceptsAsked
    <3>2. AcceptsDone = AcceptsDone' + 0
      BY <2>1, <2>2
    <3>3. AcceptsDone' \in Nat
      BY <1>3
    <3>. QED BY <3>1, <3>2, <3>3, SumIsOne, Zenon
  <2>11. CountInv'
    BY <1>b, <1>2, <2>9, <2>10
  <2>. QED BY <1>a, <2>4, <2>5, <2>8, <2>11
<1>6. ASSUME UNCHANGED <<fdt, clients, idOf, sq, accepting, recvs, reqfd, cq, cqe>>,
             pc \in {"send", "finish"}, pc' \in {"send", "finish"}, TableInv'
      PROVE  OwnInv' /\ CountInv'
  <2>1. ListedFd'
    BY <1>1, <1>6 DEF ListedFd, ConnIn
  <2>2. CompletionsOwn'
    BY <1>1, <1>6 DEF CompletionsOwn, EntryOwn
  <2>3. /\ \A d \in Conn : /\ Asked(d)' = Asked(d) /\ Queued(d)' = Queued(d)
                           /\ Handling(d)' = Handling(d) /\ (Listed(d)' <=> Listed(d))
        /\ AcceptsAsked' = AcceptsAsked /\ AcceptsDone' = AcceptsDone
    BY <1>6 DEF Asked, Queued, Handling, Listed, ConnIn, AcceptsAsked, AcceptsDone
  <2>4. CountInv'
    BY <1>b, <1>2, <2>3
  <2>. QED BY <1>a, <1>6, <2>1, <2>2, <2>4
<1>7. CASE BroadcastSend
  <2>1. /\ BroadcastTo(bi, cqe.fd) /\ bi <= MaxClients /\ pc = "send"
        /\ UNCHANGED <<tableVars, pc, sq, accepting, recvs, reqfd, cq, cqe>>
    BY <1>7 DEF BroadcastSend, At
  <2>2. bi \in Slot
    BY <1>1, <2>1, ChatServerAssumption DEF TypeInv, TypeOK, Slot
  <2>3. TableInv' /\ UNCHANGED fdt
    BY <1>1, <2>1, <2>2, BroadcastTable DEF tableVars
  <2>. QED BY <1>6, <2>1, <2>3 DEF tableVars
<1>8. CASE BroadcastDone
  <2>1. TableInv'
    BY <1>1, <1>8, StutterTable DEF BroadcastDone, sockVars, tableVars
  <2>. QED BY <1>6, <1>8, <2>1 DEF BroadcastDone, At, sockVars, tableVars
<1>9. ASSUME pc \in {"send", "finish"}, pc' = "wait", cqe' = NoCqe, UNCHANGED cq, NEW c \in Conn, c = cqe.conn
      PROVE  /\ Listed(c) /\ Asked(c) = 0 /\ Queued(c) = 0
             /\ \A d \in Conn : /\ Handling(d) = IF d = c THEN 1 ELSE 0
                               /\ Handling(d)' = 0 /\ Queued(d)' = Queued(d)
             /\ AcceptsDone' = AcceptsDone
  <2>1. \A d \in Conn : /\ Handling(d) = IF d = c THEN 1 ELSE 0
                       /\ Handling(d)' = 0 /\ Queued(d)' = Queued(d)
    BY <1>9 DEF Handling, Queued
  <2>2. Asked(c) + Queued(c) + Handling(c) = IF Listed(c) THEN 1 ELSE 0
    BY <1>2
  <2>3. Asked(c) \in Nat /\ Queued(c) \in Nat /\ Handling(c) = 1
    BY <1>2, <2>1
  <2>4. Listed(c) /\ Asked(c) = 0 /\ Queued(c) = 0
    BY <2>2, <2>3
  <2>5. AcceptsDone' = AcceptsDone
    BY <1>9 DEF AcceptsDone
  <2>. QED BY <2>1, <2>4, <2>5
<1>10. CASE Resubmit
  <2>. DEFINE c == cqe.conn
  <2>1. /\ pc \in {"send", "finish"} /\ pc' = "wait" /\ cqe' = NoCqe /\ io_uring_submit(add_recv_request(c))
        /\ UNCHANGED <<sockVars, tableVars, reqfd, cq, bi>>
    BY <1>10 DEF Resubmit, At
  <2>2. c \in Conn
    BY <1>1, <2>1
  <2>3. /\ Listed(c) /\ Asked(c) = 0 /\ Queued(c) = 0
        /\ \A d \in Conn : /\ Handling(d) = IF d = c THEN 1 ELSE 0
                          /\ Handling(d)' = 0 /\ Queued(d)' = Queued(d)
        /\ AcceptsDone' = AcceptsDone
    BY <1>9, <2>1, <2>2
  <2>4. TableInv'
    BY <1>1, <2>1, StutterTable DEF sockVars, tableVars
  <2>5. ListedFd'
    BY <1>1, <2>1 DEF ListedFd, ConnIn, sockVars, tableVars
  <2>6. CompletionsOwn'
    BY <1>1, <2>1 DEF CompletionsOwn, EntryOwn, sockVars, tableVars
  <2>7. /\ add_recv_request(c) \in Seq(Request)
        /\ \A d \in Conn : Count(add_recv_request(c), d) = IF d = c THEN 1 ELSE 0
        /\ Count(add_recv_request(c), NoConn) = 0
    <3>1. <<c>> \in Seq(Request)
      BY <2>2 DEF Request
    <3>2. \A r : Count(<<c>>, r) = (IF c = r THEN 1 ELSE 0)
      BY CountOne
    <3>. QED BY <2>2, <3>1, <3>2, SocketsAssumption DEF add_recv_request
  <2>8. /\ \A d \in Conn : Asked(d)' = Asked(d) + (IF d = c THEN 1 ELSE 0)
        /\ AcceptsAsked' = AcceptsAsked + 0
    BY <1>1, <2>1, <2>7, Submitted
  <2>9. \A d \in Conn : Listed(d)' <=> Listed(d)
    BY <2>1 DEF Listed, ConnIn, sockVars, tableVars
  <2>. HIDE DEF c
  <2>10. \A d \in Conn : Asked(d)' + Queued(d)' + Handling(d)' = IF Listed(d)' THEN 1 ELSE 0
    BY <1>2, <2>2, <2>3, <2>8, <2>9
  <2>11. CountInv'
    BY <1>b, <1>2, <2>3, <2>8, <2>10
  <2>. QED BY <1>a, <2>4, <2>5, <2>6, <2>11
<1>. QED BY <1>4, <1>5, <1>7, <1>8, <1>10

\* A client is on its descriptor while its receive is being handled.
LEMMA HandledHere ==
  ASSUME TypeInv, OwnInv, CountInv, pc \in {"send", "finish"}, NEW c \in Conn, c = cqe.conn
  PROVE  /\ Served(c) /\ Asked(c) = 0 /\ Queued(c) = 0
         /\ \A d \in Conn : Handling(d) = IF d = c THEN 1 ELSE 0
         /\ cqe.fd \in Fd /\ fdt[cqe.fd] = c /\ idOf[c] # 0
         /\ \E i \in Slot : clients[i].is_active /\ clients[i].fd = cqe.fd
<1>1. TypeOK /\ KeptTable /\ RequestFd /\ CompletionsOwn
  BY DEF TypeInv, OwnInv
<1>2. \A d \in Conn : Handling(d) = IF d = c THEN 1 ELSE 0
  BY DEF Handling
<1>3. Asked(c) + Queued(c) + Handling(c) = IF Served(c) THEN 1 ELSE 0
  BY DEF CountInv
<1>4. Asked(c) \in Nat /\ Queued(c) \in Nat /\ Handling(c) = 1
  BY <1>1, <1>2, PartsAre
<1>5. Served(c) /\ Asked(c) = 0 /\ Queued(c) = 0
  BY <1>3, <1>4
<1>6. PICK i \in Slot : Kept(i) /\ ConnIn(i) = c
  BY <1>5 DEF Served
<1>7. Holds(i) /\ clients[i].is_active /\ clients[i].fd = cqe.fd
  BY <1>1, <1>6 DEF KeptTable, RequestFd, CompletionsOwn, Kept
<1>. QED BY <1>2, <1>5, <1>6, <1>7 DEF Holds, ConnIn

\* The close takes the client out of those that are served.
LEMMA CloseOwn ==
  ASSUME TypeInv, OwnInv, CountInv, TypeInv', CloseClient
  PROVE  /\ OwnInv' /\ CountInv'
         /\ \A d \in Conn : Served(d)' <=> Served(d) /\ d # cqe.conn
         /\ \A i \in Slot : Kept(i)' =>
              Kept(i) /\ ConnIn(i)' = ConnIn(i) /\ ConnIn(i) \in Conn /\ ConnIn(i) # cqe.conn
<1>1. /\ pc = "finish" /\ pc' = "unlist" /\ CloseFd(cqe.fd)
      /\ UNCHANGED <<clients, idOf, sq, accepting, recvs, reqfd, cq, cqe, bi>>
  BY DEF CloseClient, At, tableVars
<1>2. /\ SocketsTypeOK /\ TypeOK /\ KeptTable /\ DescInv /\ RequestFd /\ CompletionsOwn
      /\ \A g : Waits(g) => Sound(g)
      /\ cqe.conn \in Conn
  BY <1>1 DEF TypeInv, TypeOK, OwnInv, KeptTable, Waits
<1>3. PICK c \in Conn, f \in {cqe.fd} : c = cqe.conn /\ f = cqe.fd
  BY <1>2
<1>4. /\ Served(c) /\ Asked(c) = 0 /\ Queued(c) = 0
      /\ \A d \in Conn : Handling(d) = IF d = c THEN 1 ELSE 0
      /\ f \in Fd /\ fdt[f] = c /\ idOf[c] # 0
  BY <1>1, <1>3, HandledHere
<1>5. /\ fdt'[f] = NoConn /\ \A g \in Fd : g # f => fdt'[g] = fdt[g]
      /\ DescInv'
  BY <1>1, <1>2, <1>3, <1>4, CloseDesc
<1>6. \A i \in Slot : Kept(i) <=> clients[i].is_active
  BY <1>1 DEF Kept
<1>7. \A i \in Slot : Kept(i)' <=> Kept(i) /\ clients[i].fd # f
  BY <1>1, <1>3, <1>6 DEF Kept
<1>8. ASSUME NEW i \in Slot, Kept(i)'
      PROVE  /\ Kept(i) /\ Holds(i) /\ Holds(i)' /\ ConnIn(i)' = ConnIn(i)
             /\ ConnIn(i) \in Conn /\ ConnIn(i) # c
  <2>1. Kept(i) /\ clients[i].fd # f /\ Holds(i)
    BY <1>2, <1>7, <1>8 DEF KeptTable
  <2>2. fdt[clients[i].fd] # c
    BY <1>2, <1>4, <2>1, SocketsAssumption DEF DescInv, OneFd, Holds
  <2>. QED BY <1>1, <1>5, <2>1, <2>2 DEF Holds, ConnIn
<1>9. KeptTable'
  BY <1>1, <1>2, <1>5, <1>8 DEF KeptTable, SlotsDiffer
<1>10. StaleInv'
  <2>1. ASSUME NEW i \in Slot, clients[i].is_active, clients[i].fd = f PROVE clients[i].id = idOf[c]
    BY <1>2, <1>4, <1>6, <2>1 DEF KeptTable, Holds
  <2>. QED BY <1>1, <1>3, <1>4, <1>5, <2>1, SocketsAssumption DEF StaleInv
<1>11. RequestFd'
  BY <1>1, <1>2, <1>8 DEF RequestFd
<1>12. ASSUME NEW g, Waits(g) PROVE EntryOwn(g)'
  <2>1. EntryOwn(g) /\ Sound(g)
    BY <1>2, <1>12, EntriesOwn
  <2>2. g.type = "accept" /\ g.res # -1 => g.fd \in Fd /\ g.fd # f
    BY <1>4, <2>1 DEF EntryOwn, Sound
  <2>. QED BY <1>1, <1>5, <2>1, <2>2 DEF EntryOwn
<1>13. CompletionsOwn'
  BY <1>1, <1>12 DEF CompletionsOwn, Waits
<1>14. \A d \in Conn : Served(d)' <=> Served(d) /\ d # c
  <2>1. ASSUME NEW d \in Conn, Served(d)' PROVE Served(d) /\ d # c
    BY <1>8, <2>1 DEF Served
  <2>2. ASSUME NEW d \in Conn, Served(d), d # c PROVE Served(d)'
    <3>1. PICK i \in Slot : Kept(i) /\ ConnIn(i) = d
      BY <2>2 DEF Served
    <3>2. clients[i].fd # f
      BY <1>4, <2>2, <3>1 DEF ConnIn
    <3>3. Kept(i)'
      BY <1>7, <3>1, <3>2
    <3>4. ConnIn(i)' = d
      BY <1>8, <3>1, <3>3
    <3>. QED BY <3>3, <3>4 DEF Served
  <2>. QED BY <2>1, <2>2
<1>15. CountInv'
  <2>1. \A d \in Conn : /\ Asked(d)' = Asked(d) /\ Queued(d)' = Queued(d)
                        /\ Handling(d)' = 0
    BY <1>1 DEF Asked, Queued, Handling
  <2>2. \A d \in Conn : /\ Asked(d) + Queued(d) + Handling(d) = IF Served(d) THEN 1 ELSE 0
                        /\ Asked(d) \in Nat /\ Queued(d) \in Nat
    BY <1>2, PartsAre DEF CountInv
  <2>3. \A d \in Conn : Asked(d)' + Queued(d)' + Handling(d)' = IF Served(d)' THEN 1 ELSE 0
    BY <1>4, <1>14, <2>1, <2>2
  <2>4. AcceptsAsked' = AcceptsAsked /\ AcceptsDone' = AcceptsDone
    BY <1>1 DEF AcceptsAsked, AcceptsDone
  <2>. QED BY <2>3, <2>4 DEF CountInv
<1>. QED BY <1>3, <1>8, <1>9, <1>10, <1>11, <1>13, <1>14, <1>15 DEF OwnInv

\* The loop that looks for the closed descriptor finds the slot of the client that left,
\* whoever has the descriptor now.
LEMMA UnlistOwn ==
  ASSUME TypeInv, OwnInv, CountInv, TypeInv', Unlist
  PROVE  /\ OwnInv' /\ CountInv'
         /\ \A i \in Slot : (Kept(i)' <=> Kept(i)) /\ (clients'[i].is_active <=> Kept(i))
                           /\ (Kept(i) => ConnIn(i)' = ConnIn(i))
         /\ \A d \in Conn : Served(d)' <=> Served(d)
<1>1. /\ pc = "unlist" /\ pc' = "wait" /\ Unregister(cqe.fd)
      /\ UNCHANGED <<fdt, backlog, peer, idOf, sq, accepting, recvs, reqfd, cq, bi>>
  BY DEF Unlist, At, sockVars, Unregister
<1>2. /\ TypeOK /\ TableTypeOK /\ KeptTable /\ DescInv /\ RequestFd /\ CompletionsOwn
  BY DEF TypeInv, TypeOK, OwnInv, KeptTable
<1>3. \A i \in Slot : FirstWithFd(i, cqe.fd) <=> clients[i].is_active /\ clients[i].fd = cqe.fd
  BY <1>2 DEF FirstWithFd, KeptTable, SlotsDiffer, Slot
<1>4. \A i \in Slot :
        /\ clients[i] \in [fd : Fd \cup {0}, id : Nat, is_active : BOOLEAN]
        /\ clients'[i] = IF FirstWithFd(i, cqe.fd) THEN [clients[i] EXCEPT !.is_active = FALSE]
                         ELSE clients[i]
  BY <1>1, <1>2 DEF Unregister, TableTypeOK
<1>5. \A i \in Slot :
        /\ clients'[i].fd = clients[i].fd /\ clients'[i].id = clients[i].id
        /\ clients'[i].is_active <=> clients[i].is_active /\ clients[i].fd # cqe.fd
  BY <1>3, <1>4
<1>6. \A i \in Slot : (Kept(i)' <=> Kept(i)) /\ (clients'[i].is_active <=> Kept(i))
                    /\ ConnIn(i)' = ConnIn(i)
  BY <1>1, <1>5 DEF Kept, ConnIn
<1>7. DescInv'
  BY <1>1, <1>2, StutterDesc
<1>8. KeptTable'
  BY <1>1, <1>2, <1>5, <1>6, <1>7 DEF KeptTable, SlotsDiffer, Holds
<1>9. StaleInv'
  BY <1>1 DEF StaleInv
<1>10. RequestFd'
  BY <1>1, <1>2, <1>5, <1>6 DEF RequestFd
<1>11. CompletionsOwn'
  BY <1>1, <1>2 DEF CompletionsOwn, EntryOwn
<1>12. \A d \in Conn : Served(d)' <=> Served(d)
  BY <1>6 DEF Served
<1>13. CountInv'
  <2>1. /\ \A d \in Conn : /\ Asked(d)' = Asked(d) /\ Queued(d)' = Queued(d)
                           /\ Handling(d)' = Handling(d)
        /\ AcceptsAsked' = AcceptsAsked /\ AcceptsDone' = AcceptsDone
    BY <1>1 DEF Asked, Queued, Handling, AcceptsAsked, AcceptsDone
  <2>. QED BY <1>12, <2>1 DEF CountInv
<1>. QED BY <1>6, <1>8, <1>9, <1>10, <1>11, <1>12, <1>13 DEF OwnInv

\* The loop's steps keep ownership and the counts.
LEMMA LoopOwn == TypeInv /\ OwnInv /\ CountInv /\ TypeInv' /\ Loop => OwnInv' /\ CountInv'
BY HandlerOwn, CloseOwn, UnlistOwn DEF Loop

\* Every step keeps the invariant.
LEMMA StepInv == UringInv /\ [Next]_vars => UringInv'
<1>. SUFFICES ASSUME UringInv, [Next]_vars PROVE UringInv'
  OBVIOUS
<1>1. /\ TypeInv /\ OwnInv /\ CountInv /\ TypeInv' /\ TypeOK /\ SocketsTypeOK
      /\ KeptTable /\ StaleInv /\ DescInv /\ RequestFd /\ CompletionsOwn
  BY StepTypes DEF UringInv, TypeInv, TypeOK, OwnInv, KeptTable
<1>2. ASSUME DescInv', UNCHANGED <<fdt, clients, idOf, ringVars>> PROVE OwnInv' /\ CountInv'
  <2>1. UNCHANGED <<clients, idOf>>
    BY <1>2
  <2>2. UNCHANGED <<pc, cqe>>
    BY <1>2 DEF ringVars
  <2>3. \A i \in Slot : Kept(i) => fdt'[clients[i].fd] = fdt[clients[i].fd]
    BY <1>2
  <2>4. pc = "unlist" => \A d \in Conn : fdt'[cqe.fd] = d => idOf[d] = 0
    BY <1>1, <1>2 DEF StaleInv
  <2>5. KeptTable /\ StaleInv /\ DescInv'
    BY <1>1, <1>2
  <2>6. /\ KeptTable' /\ StaleInv'
        /\ \A i \in Slot : (Kept(i)' <=> Kept(i)) /\ (Kept(i) => ConnIn(i)' = ConnIn(i))
        /\ \A d : Served(d)' <=> Served(d)
    BY <2>1, <2>2, <2>3, <2>4, <2>5, KeptSame
  <2>7. RequestFd'
    BY <1>1, <1>2, <2>6 DEF RequestFd, ringVars
  <2>8. CompletionsOwn'
    BY <1>1, <1>2 DEF CompletionsOwn, EntryOwn, ringVars
  <2>9. CountInv'
    BY <1>1, <1>2, <2>6 DEF CountInv, Asked, Queued, Handling, AcceptsAsked, AcceptsDone, ringVars
  <2>. QED BY <2>6, <2>7, <2>8, <2>9 DEF OwnInv
<1>3. CASE WaitFails
  <2>1. DescInv'
    BY <1>1, <1>3, StutterDesc DEF WaitFails, tableVars
  <2>. QED BY <1>1, <1>2, <1>3, <2>1 DEF WaitFails, tableVars, UringInv
<1>4. CASE ClientNext /\ UNCHANGED <<tableVars, ringVars>>
  <2>1. DescInv' /\ UNCHANGED fdt
    BY <1>1, <1>4, ClientDesc DEF tableVars
  <2>. QED BY <1>1, <1>2, <1>4, <2>1 DEF tableVars, UringInv
<1>5. CASE UNCHANGED vars
  <2>1. DescInv'
    BY <1>1, <1>5, StutterDesc DEF vars, sockVars, tableVars
  <2>. QED BY <1>1, <1>2, <1>5, <2>1 DEF vars, sockVars, tableVars, UringInv
<1>6. CASE Kernel \/ Loop
  BY <1>1, <1>6, KernelOwn, LoopOwn DEF UringInv
<1>. QED BY <1>3, <1>4, <1>5, <1>6 DEF Next

-----------------------------------------------------------------------------
(* Theorems *)

\* main() and the kernel together keep the types, the ownership of descriptors
\* and the number of requests, whatever is interleaved and whatever fails.
LEMMA UringInvariant == Spec => []UringInv
<1>1. Init => UringInv
  BY InitTypes, InitOwn DEF UringInv
<1>. QED BY <1>1, StepInv, PTL DEF Spec

\* main() keeps the types of its variables, and a completion names a connection.
THEOREM TypeCorrect == Spec => []TypeOK
<1>1. UringInv => TypeOK
  BY DEF UringInv, TypeInv
<1>. QED BY <1>1, UringInvariant, PTL

\* main() always has one accept under way and one receive for each listed client,
\* not submitted, with the kernel, completed or being handled, and no other: also
\* when requests stay in the submission queue and when accepts fail.
THEOREM OneRequestEach == Spec => []RequestsUnderWay
<1>1. UringInv => RequestsUnderWay
  BY CountedIs DEF UringInv, TypeInv, OwnInv
<1>. QED BY <1>1, UringInvariant, PTL

\* The receive of a client that is served names the descriptor the client is on.
LEMMA RecvHere ==
  ASSUME KeptTable, RequestFd, NEW c \in Conn, Served(c)
  PROVE  reqfd[c] \in Fd /\ fdt[reqfd[c]] = c /\ idOf[c] # 0
<1>1. PICK i \in Slot : Kept(i) /\ ConnIn(i) = c
  BY DEF Served
<1>2. Holds(i) /\ reqfd[c] = clients[i].fd
  BY <1>1 DEF KeptTable, RequestFd
<1>. QED BY <1>1, <1>2 DEF Holds, ConnIn

\* So the client of a receive that was completed, or is being handled, is still on the
\* descriptor of the completion.
LEMMA StillOwned ==
  ASSUME UringInv
  PROVE  /\ \A k \in DOMAIN cq : cq[k].type = "recv" =>
              /\ cq[k].conn \in Conn /\ Served(cq[k].conn) /\ idOf[cq[k].conn] # 0
              /\ cq[k].fd \in Fd /\ fdt[cq[k].fd] = cq[k].conn
         /\ pc \in {"send", "finish"} =>
              /\ cqe.conn \in Conn /\ Served(cqe.conn) /\ idOf[cqe.conn] # 0
              /\ cqe.fd \in Fd /\ fdt[cqe.fd] = cqe.conn
<1>1. TypeInv /\ TypeOK /\ OwnInv /\ KeptTable /\ RequestFd /\ CompletionsOwn /\ CountInv
  BY DEF UringInv, TypeInv, OwnInv
<1>2. ASSUME NEW k \in DOMAIN cq, cq[k].type = "recv"
      PROVE  /\ cq[k].conn \in Conn /\ Served(cq[k].conn) /\ idOf[cq[k].conn] # 0
             /\ cq[k].fd \in Fd /\ fdt[cq[k].fd] = cq[k].conn
  <2>1. EntryOwn(cq[k]) /\ cq[k].conn \in Conn
    BY <1>1, <1>2 DEF CompletionsOwn, TypeInv, Sound
  <2>2. Queued(cq[k].conn) # 0 /\ Queued(cq[k].conn) \in Nat
    BY <1>1, <1>2, <2>1, QueuedHere, PartsAre
  <2>3. Queued(cq[k].conn) > 0
    BY <2>2
  <2>4. Served(cq[k].conn)
    BY <1>1, <2>1, <2>3, OnlyListed
  <2>. QED BY <1>1, <1>2, <2>1, <2>4, RecvHere DEF EntryOwn
<1>3. ASSUME pc \in {"send", "finish"}
      PROVE  /\ cqe.conn \in Conn /\ Served(cqe.conn) /\ idOf[cqe.conn] # 0
             /\ cqe.fd \in Fd /\ fdt[cqe.fd] = cqe.conn
  <2>1. PICK c \in Conn : c = cqe.conn
    BY <1>1, <1>3 DEF TypeInv
  <2>. QED BY <1>1, <1>3, <2>1, HandledHere
<1>. QED BY <1>2, <1>3

\* Between a completion and its handler the kernel gives the descriptor to nobody
\* else: add_accept_request and add_recv_request are made for connections that are
\* still open, and broadcast_msg writes to the client it means.  The descriptor that
\* was closed may be another's before its slot is given up, and then the loop that
\* looks for it gives up the slot of the client that left all the same.
THEOREM DescriptorsAreOwned == Spec => []DescriptorsOwned
<1>1. ASSUME UringInv PROVE DescriptorsOwned
  <2>1. TypeInv /\ TypeOK /\ KeptTable /\ StaleInv /\ CompletionsOwn
    BY <1>1 DEF UringInv, TypeInv, OwnInv
  <2>2. ASSUME NEW i \in Slot, Kept(i)
        PROVE  /\ clients[i].fd \in Fd /\ ConnIn(i) # NoConn
               /\ idOf[ConnIn(i)] = clients[i].id
    BY <2>1, <2>2, SocketsAssumption DEF KeptTable, Holds, ConnIn
  <2>3. ASSUME NEW i \in Slot, clients[i].is_active, pc = "unlist" /\ clients[i].fd = cqe.fd
        PROVE  clients[i].id = idOf[cqe.conn]
    BY <2>1, <2>3 DEF StaleInv
  <2>4. \A i \in Slot : clients[i].is_active =>
          IF pc = "unlist" /\ clients[i].fd = cqe.fd
          THEN clients[i].id = idOf[cqe.conn]
          ELSE /\ clients[i].fd \in Fd /\ ConnIn(i) # NoConn
               /\ idOf[ConnIn(i)] = clients[i].id
    BY <2>2, <2>3 DEF Kept
  <2>5. ASSUME NEW k \in DOMAIN cq, cq[k].res # -1
        PROVE  fdt[cq[k].fd] = cq[k].conn
    <3>1. EntryOwn(cq[k]) /\ cq[k].type \in {"accept", "recv"}
      BY <2>1, CompletionTypes DEF CompletionsOwn
    <3>. QED BY <1>1, <2>5, <3>1, StillOwned DEF EntryOwn
  <2>6. pc = "unlist" => \A c \in Conn : fdt[cqe.fd] = c => idOf[c] = 0
    BY <2>1 DEF StaleInv
  <2>. QED BY <1>1, <2>4, <2>5, <2>6, StillOwned DEF DescriptorsOwned
<1>. QED BY <1>1, UringInvariant, PTL

-----------------------------------------------------------------------------
(* The server is one room *)

\* how many messages the client in slot i is behind the log: while a message is being
\* broadcast, those in the slots ahead have not got it yet
Behind(i) == IF pc = "send" /\ bi <= i THEN 1 ELSE 0

HearInv == \A i \in Slot : Kept(i) => Heard(i, Len(log) - Behind(i))

\* a receive without bytes ended because the client has gone, one with bytes is no goodbye
Ended(e) ==
  e.type = "recv" =>
    IF e.res = 1 THEN e.upto # 0 ELSE e.upto = 0 /\ peer[e.conn] \notin {"idle", "open"}
EndInv ==
  /\ \A k \in DOMAIN cq : Ended(cq[k])
  /\ pc # "wait" => cqe.type = "recv" /\ Ended(cqe)

\* the message being broadcast is the last one, and it is from the client being handled
ServeInv ==
  pc = "send" => /\ Len(log) > 0 /\ log[Len(log)].src = cqe.conn
                 /\ \A d \in Conn : joined[d] < Len(log)

\* a client that said goodbye and is served is being handled, until it is closed
ByeInv ==
  \A c \in Conn :
    SaidBye(c) /\ Served(c) => pc \in {"send", "finish"} /\ cqe.conn = c /\ cqe.res <= 0

RoomServed == RoomInv /\ HearInv /\ EndInv /\ ServeInv /\ ByeInv

\* A slot that is kept is about a connection that was accepted and has a number.
LEMMA KeptLive ==
  ASSUME KeptTable, NEW i \in Slot, Kept(i)
  PROVE  /\ clients[i].is_active /\ clients[i].fd \in Fd /\ ConnIn(i) = fdt[clients[i].fd]
         /\ ConnIn(i) \in Conn /\ peer[ConnIn(i)] # "idle" /\ idOf[ConnIn(i)] # 0
<1>1. Holds(i) /\ clients[i].is_active
  BY DEF KeptTable, Kept
<1>2. ~Pending(ConnIn(i))
  BY <1>1 DEF KeptTable, DescInv, PendingFresh, Holds, ConnIn
<1>. QED BY <1>1, <1>2 DEF Holds, ConnIn, Pending

\* The room is empty at the start.
LEMMA InitServed == Init => RoomServed
<1>. SUFFICES ASSUME Init PROVE RoomServed
  OBVIOUS
<1>1. RoomInv
  BY InitRoom DEF Init
<1>2. cq = <<>> /\ pc = "wait" /\ DOMAIN cq = {}
  BY DEF Init
<1>3. HearInv /\ ServeInv /\ EndInv
  BY <1>2 DEF Init, SocketsInit, TableInit, HearInv, Heard, ServeInv, EndInv
<1>4. ByeInv
  BY DEF Init, TableInit, ByeInv, SaidBye
<1>. QED BY <1>1, <1>3, <1>4 DEF RoomServed

\* A step that leaves the table and the streams alone, and the broadcast where it was.
LEMMA QuietServed ==
  ASSUME KeptTable, StaleInv, RoomInv, HearInv, KeptTable', StaleInv',
         UNCHANGED tableVars, UNCHANGED inbox,
         \A i \in Slot : (Kept(i)' <=> Kept(i)) /\ (Kept(i) => ConnIn(i)' = ConnIn(i)),
         \A i \in Slot : Behind(i)' = Behind(i),
         \A d \in Conn : peer[d] # "idle" /\ peer'[d] = "open" => peer[d] = "open"
  PROVE  /\ RoomInv' /\ HearInv'
         /\ \A d \in Conn : (Served(d)' <=> Served(d)) /\ (SaidBye(d)' <=> SaidBye(d))
         /\ \A d \in Conn : idOf[d] # 0 => (Listed(d)' <=> Listed(d))
<1>1. UNCHANGED <<clients, log, joined, idOf>>
  BY DEF tableVars
<1>2. RoomInv'
  BY <1>1, RoomKept
<1>3. ASSUME NEW i \in Slot, Kept(i)' PROVE Heard(i, Len(log) - Behind(i))'
  <2>1. PICK m : m = Len(log) - Behind(i)
    OBVIOUS
  <2>2. Heard(i, m) /\ Kept(i) /\ clients[i].is_active
    BY <1>3, <2>1 DEF HearInv, Kept
  <2>3. Heard(i, m)'
    <3>1. ConnIn(i)' = ConnIn(i) /\ ConnIn(i) \in Conn /\ peer[ConnIn(i)] # "idle"
      BY <2>2, KeptLive
    <3>2. peer'[ConnIn(i)] = "open" => peer[ConnIn(i)] = "open"
      BY <3>1
    <3>. QED BY <1>1, <2>2, <3>1, <3>2, HeardStays
  <2>4. (Len(log) - Behind(i))' = m
    BY <1>1, <2>1
  <2>. QED BY <2>3, <2>4
<1>4. \A d \in Conn : (Served(d)' <=> Served(d)) /\ (SaidBye(d)' <=> SaidBye(d))
  BY <1>1 DEF Served, SaidBye
<1>5. \A d \in Conn : idOf[d] # 0 => (Listed(d)' <=> Listed(d))
  BY <1>1, <1>4, ServedIs, ServedNext
<1>. QED BY <1>2, <1>3, <1>4, <1>5 DEF HearInv

\* A receive that ended has ended, and completions come one at a time.
LEMMA EndKept ==
  ASSUME TypeInv, EndInv, NEW e, Ended(e)', \A g : Waits(g)' => g = e \/ Waits(g),
         pc' # "wait" => pc # "wait" /\ cqe' = cqe,
         \A d \in Conn : peer[d] \notin {"idle", "open"} => peer'[d] \notin {"idle", "open"}
  PROVE  EndInv'
<1>1. ASSUME NEW g, Ended(g), g.type = "recv" => g.conn \in Conn PROVE Ended(g)'
  BY <1>1 DEF Ended
<1>2. ASSUME NEW k \in DOMAIN cq' PROVE Ended(cq[k])'
  <2>1. PICK g : g = cq'[k]
    OBVIOUS
  <2>2. Waits(g)'
    BY <2>1 DEF Waits
  <2>3. ASSUME Waits(g) PROVE Ended(g)'
    <3>1. Ended(g) /\ (g.type = "recv" => g.conn \in Conn)
      BY <2>3 DEF Waits, EndInv, TypeInv, Sound
    <3>. QED BY <1>1, <3>1
  <2>4. Ended(g)'
    BY <2>2, <2>3
  <2>. QED BY <2>1, <2>4 DEF Ended
<1>3. pc' # "wait" => cqe'.type = "recv" /\ Ended(cqe)'
  <2>. SUFFICES ASSUME pc' # "wait" PROVE cqe'.type = "recv" /\ Ended(cqe)'
    OBVIOUS
  <2>1. PICK g : g = cqe
    OBVIOUS
  <2>2. g.type = "recv" /\ Ended(g) /\ g.conn \in Conn
    BY <2>1 DEF EndInv, TypeInv
  <2>3. Ended(g)'
    BY <1>1, <2>2
  <2>. QED BY <2>1, <2>2, <2>3 DEF Ended
<1>. QED BY <1>2, <1>3 DEF EndInv

\* When nothing is being broadcast everybody has heard everything.
LEMMA AllHeard ==
  ASSUME TableTypeOK, SlotsLive, HearInv, pc \notin {"send", "unlist"}
  PROVE  Room!AllHaveHeard /\ \A i \in Slot : Heard(i, Len(log))
<1>1. Len(log) \in Nat
  BY DEF TableTypeOK
<1>2. \A i \in Slot : Heard(i, Len(log))
  <2>. TAKE i \in Slot
  <2>1. Len(log) - Behind(i) = Len(log)
    BY <1>1 DEF Behind
  <2>. QED BY <2>1 DEF HearInv, Kept, Heard
<1>. QED BY <1>2, RoomHasHeard

\* What the proofs about the room take from the other invariants.
LEMMA RoomFacts ==
  ASSUME UringInv
  PROVE  /\ TypeInv /\ TypeOK /\ SocketsTypeOK /\ TableTypeOK /\ OwnInv /\ CountInv
         /\ KeptTable /\ StaleInv /\ CompletionsOwn
BY DEF UringInv, TypeInv, TypeOK, OwnInv

\* What they take when no client is between its close and the end of its slot.
LEMMA TableFacts ==
  ASSUME UringInv, pc # "unlist"
  PROVE  /\ TableInv /\ SlotsLive /\ SlotsApart
         /\ \A d \in Conn : idOf[d] = 0 => ~Listed(d)
         /\ \A d \in Conn : Served(d) <=> Listed(d)
<1>1. KeptTable
  BY RoomFacts
<1>2. TableInv /\ \A d \in Conn : Served(d) <=> Listed(d)
  BY <1>1, KeptAll
<1>. QED BY <1>2, TableSlots

\* A step that leaves the table and the streams alone, makes the connection e is about
\* vanish or nobody, and does not begin or end the handling of a goodbye.
LEMMA QuietRoom ==
  ASSUME UringInv, UringInv', RoomServed, UNCHANGED tableVars, UNCHANGED inbox,
         \A i \in Slot : Kept(i) => fdt'[clients[i].fd] = fdt[clients[i].fd],
         \A i \in Slot : Behind(i)' = Behind(i),
         pc' = "send" => pc = "send", pc' = "unlist" <=> pc = "unlist",
         pc' # "wait" => pc # "wait" /\ cqe' = cqe,
         pc = "wait" \/ pc' # "wait" \/ cqe.res = 1,
         NEW e, Ended(e)', \A g : Waits(g)' => g = e \/ Waits(g),
         \A d \in Conn :
           /\ peer[d] # "idle" /\ peer'[d] = "open" => peer[d] = "open"
           /\ peer[d] \notin {"idle", "open"} => peer'[d] \notin {"idle", "open"},
         \/ Unreachable' = Unreachable
         \/ \E c \in Conn : Unreachable' = Unreachable \cup {c}
  PROVE  RoomServed' /\ [Room!RoomNext]_(Room!roomVars)
<1>1. TypeInv /\ TypeOK /\ KeptTable /\ StaleInv
  BY RoomFacts
<1>2. TypeOK' /\ KeptTable' /\ StaleInv'
  BY DEF UringInv, TypeInv, OwnInv
<1>3. \A i \in Slot : (Kept(i)' <=> Kept(i)) /\ (Kept(i) => ConnIn(i)' = ConnIn(i))
  <2>. TAKE i \in Slot
  <2>1. UNCHANGED clients
    BY DEF tableVars
  <2>2. Kept(i)' <=> Kept(i)
    BY <2>1 DEF Kept
  <2>. QED BY <2>1, <2>2 DEF ConnIn
<1>4. /\ RoomInv' /\ HearInv'
      /\ \A d \in Conn : (Served(d)' <=> Served(d)) /\ (SaidBye(d)' <=> SaidBye(d))
      /\ \A d \in Conn : idOf[d] # 0 => (Listed(d)' <=> Listed(d))
  BY <1>1, <1>2, <1>3, QuietServed DEF RoomServed
<1>5. EndInv'
  BY <1>1, EndKept DEF RoomServed
<1>6. ServeInv'
  BY DEF RoomServed, ServeInv, tableVars
<1>7. ByeInv'
  <2>. SUFFICES ASSUME NEW d \in Conn, SaidBye(d)', Served(d)'
                PROVE  pc' \in {"send", "finish"} /\ cqe'.conn = d /\ cqe'.res <= 0
    BY DEF ByeInv
  <2>1. pc \in {"send", "finish"} /\ cqe.conn = d /\ cqe.res <= 0
    BY <1>4 DEF RoomServed, ByeInv
  <2>2. pc' # "wait" /\ pc' # "unlist" /\ cqe' = cqe
    BY <2>1
  <2>3. pc' \in {"wait", "send", "finish", "unlist"}
    BY <1>2 DEF TypeOK
  <2>. QED BY <2>1, <2>2, <2>3
<1>8. UNCHANGED <<idOf, log, joined, inbox>>
  BY DEF tableVars
<1>9. CASE Unreachable' = Unreachable
  BY <1>4, <1>5, <1>6, <1>7, <1>8, <1>9, RoomStutters DEF RoomServed
<1>10. ASSUME NEW c \in Conn, Unreachable' = Unreachable \cup {c}
       PROVE  RoomServed' /\ [Room!RoomNext]_(Room!roomVars)
  <2>1. Room!Vanish(c)
    BY <1>4, <1>8, <1>10, RoomVanishes
  <2>. QED BY <1>4, <1>5, <1>6, <1>7, <2>1 DEF RoomServed, Room!RoomNext
<1>. QED BY <1>9, <1>10

\* What the clients do: one of them may vanish.
LEMMA ClientRoom ==
  ASSUME UringInv, UringInv', RoomServed, ClientNext, UNCHANGED <<tableVars, ringVars>>
  PROVE  RoomServed' /\ [Room!RoomNext]_(Room!roomVars)
<1>1. PICK c \in Conn : Connect(c) \/ ClientSend(c) \/ ClientReads(c) \/ ClientExit(c)
  BY DEF ClientNext
<1>2. UNCHANGED <<fdt, inbox, pc, cq, cqe, bi>>
  BY <1>1 DEF Connect, ClientSend, ClientReads, ClientRead, ClientExit, ringVars
<1>3. \A d \in Conn :
        /\ peer[d] # "idle" /\ peer'[d] = "open" => peer[d] = "open"
        /\ peer[d] \notin {"idle", "open"} => peer'[d] \notin {"idle", "open"}
  BY <1>1, RoomFacts
  DEF Connect, ClientSend, ClientReads, ClientRead, ClientExit, SocketsTypeOK
<1>4. Unreachable' = Unreachable \/ Unreachable' = Unreachable \cup {c}
  BY <1>1, RoomFacts
  DEF Connect, ClientSend, ClientReads, ClientRead, ClientExit, SocketsTypeOK, Unreachable
<1>5. \A i \in Slot : Behind(i)' = Behind(i)
  BY <1>2 DEF Behind
<1>6. \A g : Waits(g)' => Waits(g)
  BY <1>2 DEF Waits
<1>7. PICK e : e = NoCqe
  OBVIOUS
<1>8. Ended(e)'
  BY <1>7 DEF NoCqe, Ended
<1>9. pc = "wait" \/ pc' # "wait"
  BY <1>2
<1>. QED BY <1>2, <1>3, <1>4, <1>5, <1>6, <1>8, <1>9, QuietRoom

\* The kernel takes connections and bytes, and reports a reset, on its own.
LEMMA KernelRoom ==
  ASSUME UringInv, UringInv', RoomServed, Kernel
  PROVE  RoomServed' /\ [Room!RoomNext]_(Room!roomVars)
<1>1. TypeInv /\ TypeOK /\ SocketsTypeOK /\ KeptTable
  BY RoomFacts
<1>2. UNCHANGED <<tableVars, inbox, pc, cqe, bi>>
  BY DEF Kernel, KernelAccept, KernelAcceptFails, KernelRecv, AcceptConn, RecvData, RecvEof,
     RecvError, sockVars
<1>3. \A i \in Slot : Behind(i)' = Behind(i)
  BY <1>2 DEF Behind
<1>4. ASSUME NEW e \in Completion, cq' = Append(cq, e), Ended(e)',
             \A i \in Slot : Kept(i) => fdt'[clients[i].fd] = fdt[clients[i].fd],
             \A d \in Conn :
               /\ peer[d] # "idle" /\ peer'[d] = "open" => peer[d] = "open"
               /\ peer[d] \notin {"idle", "open"} => peer'[d] \notin {"idle", "open"},
             Unreachable' = Unreachable
      PROVE  RoomServed' /\ [Room!RoomNext]_(Room!roomVars)
  <2>1. \A g : Waits(g)' => g = e \/ Waits(g)
    BY <1>1, <1>4, QueuedMore
  <2>2. pc = "wait" \/ pc' # "wait"
    BY <1>2
  <2>. QED BY <1>2, <1>3, <1>4, <2>1, <2>2, QuietRoom
<1>5. CASE KernelAccept
  <2>1. PICK c \in backlog, f \in Fd :
          /\ LowestFree(f) /\ AcceptConn(c, f)
          /\ cq' = Append(cq, [type |-> "accept", conn |-> c, fd |-> f, res |-> 1, upto |-> 0])
    BY <1>5 DEF KernelAccept
  <2>2. PICK e : e = [type |-> "accept", conn |-> c, fd |-> f, res |-> 1, upto |-> 0]
    OBVIOUS
  <2>3. c \in Conn
    BY <1>1, <2>1 DEF SocketsTypeOK
  <2>4. e \in Completion /\ Ended(e)'
    BY <2>2, <2>3 DEF Completion, Ended
  <2>5. /\ fdt[f] = NoConn /\ \A g \in Fd : g # f => fdt'[g] = fdt[g]
        /\ UNCHANGED peer
    BY <1>1, <2>1 DEF LowestFree, AcceptConn, SocketsTypeOK
  <2>6. \A i \in Slot : Kept(i) => fdt'[clients[i].fd] = fdt[clients[i].fd]
    BY <1>1, <2>5, SocketsAssumption DEF KeptTable, Holds
  <2>. QED BY <1>4, <2>1, <2>2, <2>4, <2>5, <2>6 DEF Unreachable
<1>6. CASE KernelAcceptFails
  <2>1. cq' = Append(cq, NoCqe) /\ UNCHANGED <<fdt, peer>>
    BY <1>6 DEF KernelAcceptFails, sockVars
  <2>2. PICK e : e = NoCqe
    OBVIOUS
  <2>3. e \in Completion /\ Ended(e)'
    BY <2>2 DEF Completion, Ended, NoCqe
  <2>. QED BY <1>4, <2>1, <2>2, <2>3 DEF Unreachable
<1>7. ASSUME NEW c \in Conn, KernelRecv(c) PROVE RoomServed' /\ [Room!RoomNext]_(Room!roomVars)
  <2>1. PICK r \in {-1, 0, 1} :
          /\ CASE r = 1 -> RecvData(c) [] r = 0 -> RecvEof(c) [] OTHER -> RecvError(c)
          /\ cq' = Append(cq, [type |-> "recv", conn |-> c, fd |-> reqfd[c],
                               res |-> r, upto |-> IF r = 1 THEN taken'[c] ELSE 0])
    BY <1>7 DEF KernelRecv
  <2>2. PICK e : e = [type |-> "recv", conn |-> c, fd |-> reqfd[c],
                      res |-> r, upto |-> IF r = 1 THEN taken'[c] ELSE 0]
    OBVIOUS
  <2>3. reqfd[c] \in Fd \cup {0}
    BY <1>1 DEF TypeOK
  <2>4. UNCHANGED fdt
    BY <2>1 DEF RecvData, RecvEof, RecvError, sockVars
  <2>5. CASE r = 1
    <3>1. RecvData(c)
      BY <2>1, <2>5
    <3>2. PICK n \in 1 .. RecvMax : taken' = [taken EXCEPT ![c] = @ + n]
      BY <3>1 DEF RecvData
    <3>3. taken'[c] = taken[c] + n /\ taken[c] \in Nat
      BY <1>1, <3>2 DEF SocketsTypeOK
    <3>4. taken'[c] \in Nat /\ taken'[c] # 0
      BY <3>2, <3>3, SocketsAssumption
    <3>5. e \in Completion /\ Ended(e)'
      BY <2>2, <2>3, <2>5, <3>4 DEF Completion, Ended
    <3>6. UNCHANGED peer
      BY <3>1 DEF RecvData
    <3>. QED BY <1>4, <2>1, <2>2, <2>4, <3>5, <3>6 DEF Unreachable
  <2>6. CASE r # 1
    <3>1. \/ UNCHANGED peer /\ peer[c] \in {"fin", "gone"}
          \/ peer[c] = "rst" /\ peer' = [peer EXCEPT ![c] = "gone"]
      BY <2>1, <2>6 DEF RecvEof, RecvError, sockVars
    <3>2. /\ peer'[c] \notin {"idle", "open"}
          /\ \A d \in Conn :
               /\ peer[d] # "idle" /\ peer'[d] = "open" => peer[d] = "open"
               /\ peer[d] \notin {"idle", "open"} => peer'[d] \notin {"idle", "open"}
          /\ Unreachable' = Unreachable
      BY <1>1, <3>1 DEF SocketsTypeOK, Unreachable
    <3>3. e \in Completion /\ Ended(e)'
      BY <2>2, <2>3, <2>6, <3>2 DEF Completion, Ended
    <3>. QED BY <1>4, <2>1, <2>2, <2>4, <3>2, <3>3
  <2>. QED BY <2>5, <2>6
<1>. QED BY <1>5, <1>6, <1>7 DEF Kernel

\* A new client joins, and one that finds the table full vanishes.
LEMMA AcceptRoom ==
  ASSUME UringInv, UringInv', RoomServed, AcceptDone
  PROVE  RoomServed' /\ [Room!RoomNext]_(Room!roomVars)
<1>1. /\ TypeInv /\ TypeOK /\ SocketsTypeOK /\ TableTypeOK /\ TableInv /\ SlotsLive
      /\ CompletionsOwn
      /\ \A d \in Conn : idOf[d] = 0 => ~Listed(d)
      /\ \A d \in Conn : Served(d) <=> Listed(d)
  <2>1. pc # "unlist"
    BY DEF AcceptDone, At
  <2>. QED BY <2>1, RoomFacts, TableFacts
<1>2. pc = "wait" /\ Seen("accept") /\ UNCHANGED <<pc, cqe, bi>>
  BY DEF AcceptDone, At
<1>0. /\ \A i \in Slot : Kept(i) <=> clients[i].is_active
      /\ \A i \in Slot : Kept(i)' <=> clients'[i].is_active
      /\ \A d \in Conn : Served(d)' <=> Listed(d)'
  BY <1>2, KeptAll, KeptNext
<1>3. PICK h \in Completion :
        /\ h = Head(cq) /\ cq # <<>> /\ cq' = Tail(cq) /\ h.type = "accept"
        /\ h.res # -1 => h.res = 1 /\ h.conn \in Conn /\ h.fd \in Fd
  BY <1>1, <1>2, AcceptSeen
<1>4. Waits(h) /\ \A g : Waits(g)' => Waits(g)
  BY <1>1, <1>3, QueuedLess
<1>5. h.res # -1 => fdt[h.fd] = h.conn /\ idOf[h.conn] = 0
  BY <1>1, <1>3, <1>4, EntriesOwn DEF EntryOwn
<1>6. \A i \in Slot : Behind(i)' = Behind(i)
  BY <1>2 DEF Behind
<1>7. PICK e : e = NoCqe
  OBVIOUS
<1>8. Ended(e)'
  BY <1>7 DEF NoCqe, Ended
<1>9. CASE h.res = 1 /\ Register(h.conn, h.fd) /\ UNCHANGED sockVars
  <2>1. PICK c \in Conn, f \in Fd : c = h.conn /\ f = h.fd
    BY <1>3, <1>9
  <2>2. /\ Register(c, f) /\ fdt[f] = c /\ idOf[c] = 0
        /\ UNCHANGED <<fdt, inbox, peer, log>>
    <3>1. Register(c, f) /\ UNCHANGED <<fdt, inbox, peer>>
      BY <1>9, <2>1 DEF sockVars
    <3>2. fdt[f] = c /\ idOf[c] = 0
      BY <1>5, <1>9, <2>1
    <3>3. UNCHANGED log
      BY <3>1 DEF Register
    <3>. QED BY <3>1, <3>2, <3>3
  <2>3. ~Listed(c) /\ ~SaidBye(c) /\ inbox[c] = <<>>
    BY <1>1, <2>2 DEF RoomServed, RoomInv, SaidBye
  <2>4. /\ Listed(c)' /\ \A d \in Conn : d # c => (Listed(d)' <=> Listed(d))
        /\ \A i \in Slot : clients'[i].is_active =>
             \/ ConnIn(i)' = c
             \/ clients[i].is_active /\ ConnIn(i)' = ConnIn(i) /\ ConnIn(i) # c
    BY <1>1, <2>2, <2>3, RegisterLists
  <2>5. Room!AllHaveHeard /\ \A i \in Slot : Heard(i, Len(log))
    BY <1>1, <1>2, AllHeard DEF RoomServed
  <2>6. Unreachable' = Unreachable
    BY <2>2 DEF Unreachable
  <2>7. Room!Join(c)
    BY <1>1, <2>2, <2>3, <2>4, <2>5, <2>6, RoomJoins
  <2>8. RoomInv'
    BY <1>1, <2>2, JoinKeeps DEF RoomServed
  <2>9. ASSUME NEW i \in Slot PROVE Heard(i, Len(log) - Behind(i))'
    <3>1. PICK m : m = Len(log)
      OBVIOUS
    <3>2. clients'[i].is_active =>
             \/ ConnIn(i)' = c
             \/ clients[i].is_active /\ ConnIn(i)' = ConnIn(i) /\ ConnIn(i) \in Conn \ {c}
      BY <1>1, <2>4 DEF SlotsLive
    <3>3. Heard(i, m)'
      BY <1>1, <2>2, <2>3, <2>5, <3>1, <3>2, JoinHeard
    <3>4. (Len(log) - Behind(i))' = m
      BY <1>1, <1>2, <2>2, <3>1 DEF Behind, TableTypeOK
    <3>. QED BY <3>3, <3>4
  <2>10. HearInv'
    BY <2>9 DEF HearInv
  <2>11. EndInv'
    BY <1>1, <1>2, <1>4, <1>8, <2>2, EndKept DEF RoomServed
  <2>12. ByeInv'
    <3>1. \A d \in Conn : SaidBye(d)' <=> SaidBye(d)
      BY <2>2 DEF SaidBye
    <3>2. \A d \in Conn : SaidBye(d) => ~Listed(d)
      BY <1>1, <1>2 DEF RoomServed, ByeInv
    <3>. QED BY <1>0, <2>3, <2>4, <3>1, <3>2 DEF ByeInv
  <2>13. ServeInv'
    BY <1>2 DEF ServeInv
  <2>. QED BY <2>7, <2>8, <2>10, <2>11, <2>12, <2>13 DEF RoomServed, Room!RoomNext
<1>10. CASE h.res = 1 /\ CloseFd(h.fd) /\ UNCHANGED tableVars
  <2>1. PICK c \in Conn, f \in Fd : c = h.conn /\ f = h.fd
    BY <1>3, <1>10
  <2>2. fdt[f] = c /\ ~Listed(c)
    BY <1>1, <1>5, <1>10, <2>1
  <2>3. \A g \in Fd : g # f => fdt'[g] = fdt[g]
    BY <1>1, <1>10, <2>1 DEF CloseFd, SocketsTypeOK
  <2>4. peer'[c] = "shut" /\ UNCHANGED inbox /\ \A d \in Conn : d # c => peer'[d] = peer[d]
    BY <1>10, <2>1, <2>2 DEF CloseFd
  <2>5. ASSUME NEW i \in Slot, clients[i].is_active
        PROVE  fdt'[clients[i].fd] = fdt[clients[i].fd]
    <3>1. clients[i].fd \in Fd
      BY <1>1, <2>5 DEF TableInv, SlotsHold, Holds
    <3>2. clients[i].fd # f
      BY <2>2, <2>5 DEF Listed, ConnIn
    <3>. QED BY <2>3, <3>1, <3>2
  <2>6. Unreachable' = Unreachable \cup {c}
    BY <2>4 DEF Unreachable
  <2>7. \A d \in Conn :
          /\ peer[d] # "idle" /\ peer'[d] = "open" => peer[d] = "open"
          /\ peer[d] \notin {"idle", "open"} => peer'[d] \notin {"idle", "open"}
    BY <2>4
  <2>8. \A i \in Slot : Kept(i) => fdt'[clients[i].fd] = fdt[clients[i].fd]
    BY <1>0, <2>5
  <2>9. pc' = "unlist" <=> pc = "unlist"
    BY <1>2
  <2>. QED BY <1>2, <1>4, <1>6, <1>8, <1>10, <2>4, <2>6, <2>7, <2>8, <2>9, QuietRoom
<1>11. CASE h.res = -1 /\ UNCHANGED sockVars /\ UNCHANGED tableVars
  <2>1. UNCHANGED <<fdt, inbox, peer>>
    BY <1>11 DEF sockVars
  <2>2. Unreachable' = Unreachable
    BY <2>1 DEF Unreachable
  <2>. QED BY <1>2, <1>4, <1>6, <1>8, <1>11, <2>1, <2>2, QuietRoom
<1>. QED BY <1>3, <1>9, <1>10, <1>11 DEF AcceptDone

\* What the handled receive brought is said, and the end of a stream is its client's goodbye.
LEMMA RecvRoom ==
  ASSUME UringInv, UringInv', RoomServed, RecvDone
  PROVE  RoomServed' /\ [Room!RoomNext]_(Room!roomVars)
<1>1. TypeInv /\ TypeOK /\ SocketsTypeOK /\ TableTypeOK /\ TableInv /\ SlotsLive
  <2>1. pc # "unlist"
    BY DEF RecvDone, At
  <2>. QED BY <2>1, RoomFacts, TableFacts
<1>2. /\ pc = "wait" /\ cq # <<>> /\ cq' = Tail(cq) /\ Head(cq).type = "recv"
      /\ cqe' = Head(cq) /\ UNCHANGED sockVars
  BY DEF RecvDone, At, Seen
<1>0. /\ \A d \in Conn : Served(d) <=> Listed(d)
      /\ \A d \in Conn : Served(d)' <=> Listed(d)'
      /\ \A i \in Slot : Kept(i) <=> clients[i].is_active
      /\ \A i \in Slot : Kept(i)' <=> clients'[i].is_active
      /\ KeptTable /\ StaleInv /\ KeptTable' /\ StaleInv'
  <2>1. pc # "unlist" /\ pc' # "unlist"
    BY <1>2 DEF RecvDone
  <2>2. KeptTable /\ StaleInv /\ KeptTable' /\ StaleInv'
    BY RoomFacts DEF UringInv, OwnInv
  <2>. QED BY <2>1, <2>2, KeptAll, KeptNext
<1>3. 1 \in DOMAIN cq /\ Head(cq) = cq[1]
  BY <1>1, <1>2, Dequeued
<1>4. PICK h \in Completion : h = cq[1]
  BY <1>1, <1>2, Dequeued
<1>5. PICK c \in Conn : c = h.conn
  BY <1>2, <1>3, <1>4, StillOwned
<1>6. Listed(c) /\ idOf[c] # 0 /\ ~SaidBye(c)
  <2>1. Served(c) /\ Listed(c)
    BY <1>0, <1>2, <1>3, <1>4, <1>5, StillOwned
  <2>2. idOf[c] # 0
    BY <1>1, <2>1 DEF SlotsLive, Listed
  <2>3. ~SaidBye(c)
    BY <1>2, <2>1 DEF RoomServed, ByeInv
  <2>. QED BY <2>1, <2>2, <2>3
<1>7. Ended(h) /\ h.type = "recv" /\ h.res \in {-1, 0, 1} /\ h.upto \in Nat
  BY <1>2, <1>3, <1>4 DEF RoomServed, EndInv, Completion
<1>8. UNCHANGED <<fdt, inbox, peer>>
  BY <1>2 DEF sockVars
<1>9. Unreachable' = Unreachable
  BY <1>8 DEF Unreachable
<1>10. EndInv'
  <2>1. \A g : Ended(g)' <=> Ended(g)
    BY <1>8 DEF Ended
  <2>2. \A k \in DOMAIN cq' : k + 1 \in DOMAIN cq /\ cq'[k] = cq[k + 1]
    BY <1>1, <1>2, Dequeued
  <2>3. ASSUME NEW k \in DOMAIN cq' PROVE Ended(cq[k])'
    <3>1. PICK g : g = cq[k + 1]
      OBVIOUS
    <3>2. Ended(g)
      BY <2>2, <2>3, <3>1 DEF RoomServed, EndInv
    <3>3. Ended(g)'
      BY <2>1, <3>2
    <3>. QED BY <2>2, <2>3, <3>1, <3>3 DEF Ended
  <2>4. Ended(cqe)'
    <3>1. Ended(h)'
      BY <1>7, <2>1
    <3>. QED BY <1>2, <1>3, <1>4, <3>1 DEF Ended
  <2>. QED BY <1>2, <1>3, <1>4, <1>7, <2>3, <2>4 DEF EndInv
<1>11. CASE h.res >= 0
  <2>1. PICK n \in Nat : n = h.upto
    BY <1>7
  <2>2. /\ \E id : StartBroadcast(c, id, n)
        /\ pc' = "send" /\ bi' = 1
    BY <1>2, <1>3, <1>4, <1>5, <1>11, <2>1 DEF RecvDone
  <2>3. PICK id : StartBroadcast(c, id, n)
    BY <2>2
  <2>4. UNCHANGED <<clients, joined, idOf>>
    BY <2>3 DEF StartBroadcast
  <2>5. n = 0 => h.res <= 0
    BY <1>7, <2>1 DEF Ended
  <2>6. Room!AllHaveHeard /\ \A i \in Slot : Heard(i, Len(log))
    BY <1>1, <1>2, AllHeard DEF RoomServed
  <2>7. Members[c] = "in"
    BY <1>6 DEF Members
  <2>8. Room!Say(c) \/ Room!Quit(c)
    BY <1>1, <1>8, <1>9, <2>3, <2>6, <2>7, RoomSays
  <2>9. /\ RoomInv' /\ Len(log') = Len(log) + 1 /\ log'[Len(log')].src = c
        /\ \A d \in Conn : joined'[d] < Len(log')
    BY <1>1, <1>6, <1>8, <2>3, SayKeeps DEF RoomServed
  <2>10. Len(log) \in Nat
    BY <1>1 DEF TableTypeOK
  <2>11. ASSUME NEW i \in Slot PROVE Heard(i, Len(log) - Behind(i))'
    <3>1. PICK m : m = Len(log)
      OBVIOUS
    <3>2. clients[i].is_active => ConnIn(i) \in Conn
      BY <1>1 DEF SlotsLive
    <3>3. Heard(i, m)'
      BY <1>1, <1>8, <2>3, <2>6, <3>1, <3>2, SayHeard
    <3>4. Behind(i)' = 1
      BY <2>2, ChatServerAssumption DEF Behind, Slot
    <3>5. (Len(log) - Behind(i))' = m
      BY <2>9, <2>10, <3>1, <3>4
    <3>. QED BY <3>3, <3>5
  <2>12. HearInv'
    BY <2>11 DEF HearInv
  <2>13. ByeInv'
    <3>1. \A d \in Conn : Listed(d)' <=> Listed(d)
      BY <1>8, <2>4 DEF Listed, ConnIn
    <3>2. \A d \in Conn : SaidBye(d) => ~Listed(d)
      BY <1>0, <1>2 DEF RoomServed, ByeInv
    <3>3. \A d \in Conn : SaidBye(d)' <=> SaidBye(d) \/ (d = c /\ n = 0)
      BY <1>1, <2>3, ByeSaid
    <3>4. cqe'.conn = c /\ cqe'.res = h.res
      BY <1>2, <1>3, <1>4, <1>5
    <3>. QED BY <1>0, <2>2, <2>5, <3>1, <3>2, <3>3, <3>4 DEF ByeInv
  <2>14. ServeInv'
    <3>1. cqe'.conn = c
      BY <1>2, <1>3, <1>4, <1>5
    <3>2. Len(log') > 0
      BY <2>9, <2>10
    <3>. QED BY <2>9, <3>1, <3>2 DEF ServeInv
  <2>. QED BY <1>10, <2>8, <2>9, <2>12, <2>13, <2>14 DEF RoomServed, Room!RoomNext
<1>12. CASE ~(h.res >= 0)
  <2>1. pc' = "finish" /\ UNCHANGED tableVars
    BY <1>2, <1>3, <1>4, <1>12 DEF RecvDone
  <2>2. \A i \in Slot : Behind(i)' = Behind(i)
    BY <1>2, <2>1 DEF Behind
  <2>a. \A i \in Slot : (Kept(i)' <=> Kept(i)) /\ (Kept(i) => ConnIn(i)' = ConnIn(i))
    BY <1>0, <1>8, <2>1 DEF ConnIn, tableVars
  <2>b. \A d \in Conn : peer[d] # "idle" /\ peer'[d] = "open" => peer[d] = "open"
    BY <1>8
  <2>3. /\ RoomInv' /\ HearInv'
        /\ \A d \in Conn : (Served(d)' <=> Served(d)) /\ (SaidBye(d)' <=> SaidBye(d))
        /\ \A d \in Conn : idOf[d] # 0 => (Listed(d)' <=> Listed(d))
    BY <1>0, <1>8, <2>1, <2>2, <2>a, <2>b, QuietServed DEF RoomServed
  <2>4. ServeInv'
    BY <2>1 DEF ServeInv
  <2>5. ByeInv'
    BY <1>2, <2>3 DEF RoomServed, ByeInv
  <2>6. UNCHANGED Room!roomVars
    BY <1>8, <1>9, <2>1, <2>3, RoomStutters DEF tableVars
  <2>. QED BY <1>10, <2>3, <2>4, <2>5, <2>6 DEF RoomServed
<1>. QED BY <1>11, <1>12

\* One iteration of the broadcast.
LEMMA SendRoom ==
  ASSUME UringInv, RoomServed, BroadcastSend
  PROVE  RoomServed' /\ [Room!RoomNext]_(Room!roomVars)
<1>1. /\ TypeInv /\ SocketsTypeOK /\ TableTypeOK /\ TableInv /\ SlotsLive /\ SlotsApart /\ TypeOK
  <2>1. pc # "unlist"
    BY DEF BroadcastSend, At
  <2>. QED BY <2>1, RoomFacts, TableFacts
<1>0. /\ \A i \in Slot : Kept(i) <=> clients[i].is_active
      /\ \A d \in Conn : Served(d) <=> Listed(d)
      /\ \A d \in Conn : Served(d)' <=> Listed(d)'
  <2>1. pc # "unlist" /\ pc' # "unlist"
    BY DEF BroadcastSend, At
  <2>. QED BY <2>1, KeptAll, KeptNext
<1>a. \A j \in Slot : Heard(j, Len(log) - Behind(j))
  BY <1>0 DEF RoomServed, HearInv, Heard
<1>2. MaxClients \in Nat /\ pc = "send" /\ bi \in Nat /\ bi >= 1
  BY <1>1, ChatServerAssumption DEF TypeInv, TypeOK, BroadcastSend, At
<1>3. PICK i \in Slot : i = bi
  BY <1>2 DEF BroadcastSend, Slot
<1>4. /\ BroadcastTo(i, cqe.fd) /\ UNCHANGED tableVars /\ bi' = bi + 1
      /\ UNCHANGED <<pc, cq, cqe>>
  BY <1>3 DEF BroadcastSend
<1>5. PICK f \in Fd, c \in Conn : f = cqe.fd /\ c = cqe.conn /\ fdt[f] = c
  BY <1>2, StillOwned
<1>6. /\ Len(log) > 0 /\ log[Len(log)].src = c
      /\ \A d \in Conn : joined[d] < Len(log)
  BY <1>2, <1>5 DEF RoomServed, ServeInv
<1>7. PICK m \in Nat : m + 1 = Len(log)
  <2>1. Len(log) \in Nat
    BY <1>1 DEF TableTypeOK
  <2>2. Len(log) - 1 \in Nat /\ (Len(log) - 1) + 1 = Len(log)
    BY <1>6, <2>1
  <2>. QED BY <2>2, Zenon
<1>8. Heard(i, m) /\ \A d \in Conn : joined[d] <= m
  <2>1. Behind(i) = 1
    BY <1>2, <1>3 DEF Behind
  <2>2. Len(log) - Behind(i) = m
    BY <1>7, <2>1
  <2>3. Heard(i, m)
    BY <1>a, <2>2
  <2>4. \A d \in Conn : joined[d] \in Nat
    BY <1>1 DEF TableTypeOK
  <2>. QED BY <1>6, <1>7, <2>3, <2>4
<1>9. clients[i].is_active /\ clients[i].fd # f => ConnIn(i) # c /\ ConnIn(i) \in Conn
  <2>. SUFFICES ASSUME clients[i].is_active, clients[i].fd # f
                PROVE  ConnIn(i) # c /\ ConnIn(i) \in Conn
    OBVIOUS
  <2>1. Holds(i)
    BY <1>1 DEF TableInv, SlotsHold
  <2>. QED BY <1>1, <1>5, <2>1, SocketsAssumption DEF TableInv, OneFd, Holds, ConnIn
<1>10. /\ BroadcastTo(i, f)
       /\ clients[i].is_active /\ clients[i].fd # f => ConnIn(i) # log[m + 1].src
       /\ clients[i].is_active /\ clients[i].fd = f => ConnIn(i) = log[m + 1].src
  BY <1>4, <1>5, <1>6, <1>7, <1>9 DEF ConnIn
<1>11. clients[i].is_active /\ clients[i].fd # f => ~SaidBye(ConnIn(i))
  BY <1>0, <1>5, <1>9 DEF RoomServed, ByeInv, Listed
<1>12. /\ (\E d \in Conn : Room!Hear(d)) \/ UNCHANGED Room!roomVars
       /\ RoomInv' /\ Heard(i, m + 1)'
       /\ \A j \in Slot, n \in Nat : j # i /\ Heard(j, n) => Heard(j, n)'
  BY <1>1, <1>4, <1>7, <1>8, <1>10, <1>11, RoomHears DEF RoomServed
<1>13. UNCHANGED <<clients, log, joined, fdt, idOf>>
  BY <1>4 DEF BroadcastTo, tableVars
<1>14. ASSUME NEW j \in Slot PROVE Heard(j, Len(log) - Behind(j))'
  <2>1. CASE j = i
    <3>1. (Len(log) - Behind(j))' = m + 1
      BY <1>2, <1>3, <1>4, <1>7, <1>13, <2>1 DEF Behind
    <3>. QED BY <1>12, <2>1, <3>1
  <2>2. CASE j # i
    <3>1. Behind(j)' = Behind(j)
      BY <1>2, <1>3, <1>4, <2>2 DEF Behind, Slot
    <3>2. PICK n \in Nat : n = Len(log) - Behind(j)
      BY <1>7 DEF Behind
    <3>3. Heard(j, n)
      BY <1>a, <3>2
    <3>4. Heard(j, n)'
      BY <1>12, <2>2, <3>3
    <3>5. (Len(log) - Behind(j))' = n
      BY <1>13, <3>1, <3>2
    <3>. QED BY <3>4, <3>5
  <2>. QED BY <2>1, <2>2
<1>15. HearInv'
  BY <1>14 DEF HearInv
<1>16. \A d \in Conn : peer[d] \notin {"idle", "open"} => peer'[d] \notin {"idle", "open"}
  <2>1. CASE UNCHANGED peer
    BY <2>1
  <2>2. CASE Send(clients[i].fd, Len(log))
    BY <1>1, <2>2 DEF Send, SocketsTypeOK
  <2>. QED BY <1>4, <2>1, <2>2 DEF BroadcastTo
<1>17. EndInv'
  <2>1. \A g : Waits(g)' => Waits(g)
    BY <1>4 DEF Waits
  <2>2. PICK e : e = NoCqe
    OBVIOUS
  <2>3. Ended(e)'
    BY <2>2 DEF NoCqe, Ended
  <2>. QED BY <1>1, <1>2, <1>4, <1>16, <2>1, <2>3, EndKept DEF RoomServed
<1>18. ByeInv'
  <2>1. \A d \in Conn : (Listed(d)' <=> Listed(d)) /\ (SaidBye(d)' <=> SaidBye(d))
    BY <1>13 DEF Listed, ConnIn, SaidBye
  <2>. QED BY <1>0, <1>4, <2>1 DEF RoomServed, ByeInv
<1>19. ServeInv'
  BY <1>4, <1>13 DEF RoomServed, ServeInv
<1>. QED BY <1>12, <1>15, <1>17, <1>18, <1>19 DEF RoomServed, Room!RoomNext

\* A client that has gone leaves when its descriptor is closed.
LEMMA CloseRoom ==
  ASSUME UringInv, UringInv', RoomServed, CloseClient
  PROVE  RoomServed' /\ [Room!RoomNext]_(Room!roomVars)
<1>1. /\ TypeInv /\ TypeInv' /\ OwnInv /\ CountInv /\ SocketsTypeOK /\ TableTypeOK
      /\ KeptTable /\ KeptTable' /\ StaleInv'
      /\ \A d \in Conn : Served(d) <=> Listed(d)
  <2>1. pc # "unlist"
    BY DEF CloseClient, At
  <2>2. TypeInv' /\ KeptTable' /\ StaleInv'
    BY DEF UringInv, OwnInv
  <2>. QED BY <2>1, <2>2, RoomFacts, TableFacts
<1>2. /\ pc = "finish" /\ pc' = "unlist" /\ cqe.res <= 0 /\ CloseFd(cqe.fd)
      /\ UNCHANGED <<clients, idOf, log, joined, cq, cqe, bi>>
  BY DEF CloseClient, At, tableVars
<1>3. PICK f \in Fd, c \in Conn : f = cqe.fd /\ c = cqe.conn /\ fdt[f] = c /\ Served(c)
                                 /\ idOf[c] # 0
  BY <1>2, StillOwned
<1>4. CloseFd(f)
  BY <1>2, <1>3
<1>5. peer[c] \notin {"idle", "open"}
  <2>1. cqe.res # 1
    BY <1>2
  <2>. QED BY <1>2, <1>3, <2>1 DEF RoomServed, EndInv, Ended
<1>6. /\ \A d \in Conn : Served(d)' <=> Served(d) /\ d # c
      /\ \A i \in Slot : Kept(i)' =>
           Kept(i) /\ ConnIn(i)' = ConnIn(i) /\ ConnIn(i) \in Conn /\ ConnIn(i) # c
  BY <1>1, <1>3, CloseOwn
<1>7. \A d \in Conn : idOf[d] # 0 => (Listed(d)' <=> Listed(d) /\ d # c)
  BY <1>1, <1>2, <1>6, ServedNext
<1>8. UNCHANGED inbox
  BY <1>4 DEF CloseFd
<1>9. /\ \A d \in Conn : d # c => peer'[d] = peer[d]
      /\ peer'[c] = "shut"
  BY <1>3, <1>4 DEF CloseFd
<1>10. Unreachable' = Unreachable
  BY <1>5, <1>9 DEF Unreachable
<1>11. Room!Leave(c)
  <2>1. Members[c] \in {"in", "quit"}
    BY <1>1, <1>3 DEF Members
  <2>2. ~Listed(c)' /\ \A d \in Conn : d # c /\ idOf[d] # 0 => (Listed(d)' <=> Listed(d))
    BY <1>3, <1>7
  <2>. QED BY <1>2, <1>8, <1>10, <2>1, <2>2, RoomLeaves
<1>12. RoomInv'
  BY <1>2, <1>8, RoomKept DEF RoomServed
<1>13. ASSUME NEW i \in Slot, Kept(i)' PROVE Heard(i, Len(log) - Behind(i))'
  <2>1. PICK m : m = Len(log) - Behind(i)
    OBVIOUS
  <2>2. Heard(i, m) /\ ConnIn(i)' = ConnIn(i) /\ ConnIn(i) \in Conn /\ ConnIn(i) # c
        /\ clients[i].is_active
    BY <1>6, <1>13, <2>1 DEF RoomServed, HearInv, Kept
  <2>3. Heard(i, m)'
    BY <1>2, <1>8, <1>9, <2>2, HeardStays
  <2>4. (Len(log) - Behind(i))' = m
    BY <1>2, <2>1 DEF Behind
  <2>. QED BY <2>3, <2>4
<1>14. HearInv'
  BY <1>13 DEF HearInv
<1>15. EndInv'
  <2>1. \A g : Waits(g)' => Waits(g)
    BY <1>2 DEF Waits
  <2>2. PICK e : e = NoCqe
    OBVIOUS
  <2>3. Ended(e)'
    BY <2>2 DEF NoCqe, Ended
  <2>4. \A d \in Conn : peer[d] \notin {"idle", "open"} => peer'[d] \notin {"idle", "open"}
    BY <1>9
  <2>. QED BY <1>1, <1>2, <2>1, <2>3, <2>4, EndKept DEF RoomServed
<1>16. ByeInv'
  <2>1. \A d \in Conn : SaidBye(d)' <=> SaidBye(d)
    BY <1>2 DEF SaidBye
  <2>. QED BY <1>3, <1>6, <2>1 DEF RoomServed, ByeInv
<1>17. ServeInv'
  BY <1>2 DEF ServeInv
<1>. QED BY <1>11, <1>12, <1>14, <1>15, <1>16, <1>17 DEF RoomServed, Room!RoomNext

\* The room does not notice that the slot is given up: whoever has the descriptor by
\* then has not joined.
LEMMA UnlistRoom ==
  ASSUME UringInv, UringInv', RoomServed, Unlist
  PROVE  RoomServed' /\ [Room!RoomNext]_(Room!roomVars)
<1>1. /\ TypeInv /\ TypeInv' /\ OwnInv /\ CountInv /\ KeptTable /\ StaleInv
      /\ KeptTable' /\ StaleInv'
  BY RoomFacts DEF UringInv, OwnInv
<1>2. /\ pc = "unlist" /\ pc' = "wait" /\ UNCHANGED <<cq, bi, fdt, inbox, peer>>
      /\ UNCHANGED <<idOf, log, joined>>
  BY DEF Unlist, At, sockVars, Unregister
<1>3. /\ \A i \in Slot : (Kept(i)' <=> Kept(i)) /\ (clients'[i].is_active <=> Kept(i))
                         /\ (Kept(i) => ConnIn(i)' = ConnIn(i))
      /\ \A d \in Conn : Served(d)' <=> Served(d)
  BY <1>1, UnlistOwn
<1>4. \A d \in Conn : idOf[d] # 0 => (Listed(d)' <=> Listed(d))
  BY <1>1, <1>2, <1>3, ServedIs, ServedNext
<1>5. Unreachable' = Unreachable
  BY <1>2 DEF Unreachable
<1>6. UNCHANGED Room!roomVars
  BY <1>2, <1>4, <1>5, RoomStutters
<1>7. RoomInv'
  BY <1>2, RoomKept DEF RoomServed
<1>8. ASSUME NEW i \in Slot, Kept(i)' PROVE Heard(i, Len(log) - Behind(i))'
  <2>1. PICK m : m = Len(log) - Behind(i)
    OBVIOUS
  <2>2. Heard(i, m) /\ ConnIn(i)' = ConnIn(i) /\ clients[i].is_active
    BY <1>3, <1>8, <2>1 DEF RoomServed, HearInv, Kept
  <2>3. Heard(i, m)'
    BY <1>2, <2>2, HeardStays
  <2>4. (Len(log) - Behind(i))' = m
    BY <1>2, <2>1 DEF Behind
  <2>. QED BY <2>3, <2>4
<1>9. HearInv'
  BY <1>8 DEF HearInv
<1>10. EndInv'
  <2>1. \A g : Waits(g)' => Waits(g)
    BY <1>2 DEF Waits
  <2>2. PICK e : e = NoCqe
    OBVIOUS
  <2>3. Ended(e)'
    BY <2>2 DEF NoCqe, Ended
  <2>. QED BY <1>1, <1>2, <2>1, <2>3, EndKept DEF RoomServed
<1>11. ByeInv'
  <2>1. \A d \in Conn : SaidBye(d)' <=> SaidBye(d)
    BY <1>2 DEF SaidBye
  <2>. QED BY <1>2, <1>3, <2>1 DEF RoomServed, ByeInv
<1>12. ServeInv'
  BY <1>2 DEF ServeInv
<1>. QED BY <1>6, <1>7, <1>9, <1>10, <1>11, <1>12 DEF RoomServed

\* Every step of the server and the kernel is a step of the room or none.
LEMMA StepRoom ==
  ASSUME UringInv, RoomServed, [Next]_vars
  PROVE  RoomServed' /\ [Room!RoomNext]_(Room!roomVars)
<1>1. UringInv' /\ TypeOK
  BY StepInv DEF UringInv, TypeInv
<1>2. ASSUME UNCHANGED <<tableVars, fdt, inbox, peer, cq>>,
             \A i \in Slot : Behind(i)' = Behind(i),
             pc' = "send" => pc = "send", pc' = "unlist" <=> pc = "unlist",
             pc' # "wait" => pc # "wait" /\ cqe' = cqe,
             pc = "wait" \/ pc' # "wait" \/ cqe.res = 1
      PROVE  RoomServed' /\ [Room!RoomNext]_(Room!roomVars)
  <2>1. \A g : Waits(g)' => Waits(g)
    BY <1>2 DEF Waits
  <2>2. PICK e : e = NoCqe
    OBVIOUS
  <2>3. Ended(e)'
    BY <2>2 DEF NoCqe, Ended
  <2>4. Unreachable' = Unreachable
    BY <1>2 DEF Unreachable
  <2>. QED BY <1>1, <1>2, <2>1, <2>3, <2>4, QuietRoom
<1>3. CASE BroadcastDone
  <2>1. /\ UNCHANGED <<sockVars, tableVars, cq, cqe>>
        /\ pc = "send" /\ pc' = "finish" /\ bi > MaxClients
    BY <1>3 DEF BroadcastDone, At
  <2>2. bi \in Int /\ MaxClients \in Nat
    BY <1>1, ChatServerAssumption DEF TypeOK
  <2>3. \A i \in Slot : Behind(i)' = Behind(i)
    BY <2>1, <2>2 DEF Behind, Slot
  <2>. QED BY <1>2, <2>1, <2>3 DEF sockVars
<1>4. CASE Resubmit
  <2>1. /\ UNCHANGED <<sockVars, tableVars, cq, bi>>
        /\ pc = "finish" /\ pc' = "wait" /\ cqe.res = 1
    BY <1>4 DEF Resubmit, At
  <2>2. \A i \in Slot : Behind(i)' = Behind(i)
    BY <2>1 DEF Behind
  <2>. QED BY <1>2, <2>1, <2>2 DEF sockVars
<1>5. CASE WaitFails \/ UNCHANGED vars
  <2>1. UNCHANGED <<tableVars, fdt, inbox, peer, pc, cq, cqe, bi>>
    BY <1>5 DEF WaitFails, vars, sockVars, ringVars
  <2>2. \A i \in Slot : Behind(i)' = Behind(i)
    BY <2>1 DEF Behind
  <2>. QED BY <1>2, <2>1, <2>2
<1>6. CASE Kernel
  BY <1>1, <1>6, KernelRoom
<1>7. CASE AcceptDone
  BY <1>1, <1>7, AcceptRoom
<1>8. CASE RecvDone
  BY <1>1, <1>8, RecvRoom
<1>9. CASE BroadcastSend
  BY <1>9, SendRoom
<1>10. CASE CloseClient
  BY <1>1, <1>10, CloseRoom
<1>11. CASE Unlist
  BY <1>1, <1>11, UnlistRoom
<1>12. CASE ClientNext /\ UNCHANGED <<tableVars, ringVars>>
  BY <1>1, <1>12, ClientRoom
<1>. QED BY <1>3, <1>4, <1>5, <1>6, <1>7, <1>8, <1>9, <1>10, <1>11, <1>12 DEF Next, Loop

\* Whatever the kernel completes while main() is elsewhere, and whatever calls fail, every
\* behaviour of the server is one of the room: its members hear each message of the others
\* once, in the one order, before the next is said, and say nothing after their goodbye.
THEOREM IsOneRoom == Spec => IsChatRoom
<1>1. Init => Room!RoomInit /\ UringInv /\ RoomServed
  BY RoomStarts, InitTypes, InitOwn, InitServed DEF Init, UringInv
<1>2. UringInv /\ RoomServed /\ [Next]_vars
        => UringInv' /\ RoomServed' /\ [Room!RoomNext]_(Room!roomVars)
  BY StepInv, StepRoom
<1>. QED BY <1>1, <1>2, PTL DEF Spec, IsChatRoom, Room!RoomSpec

-----------------------------------------------------------------------------
(* The server with the client programs *)

\* What the end of a client process does to its connection, the client of Sockets may do.
LEMMA HangUpAllowed ==
  ASSUME NEW c \in Conn, HangUp(c)
  PROVE  ClientNext \/ UNCHANGED sockVars
<1>1. CASE peer[c] = "open" /\ proc = "running"
  BY <1>1 DEF HangUp, ClientNext
<1>2. CASE ~(peer[c] = "open" /\ proc = "running")
  BY <1>2 DEF HangUp
<1>. QED BY <1>1, <1>2

\* Each step of a client program is one that Sockets allows a client, or does not touch
\* the connection.
LEMMA ProcessAllowed ==
  ASSUME NEW c \in Conn, Process(c)
  PROVE  ClientNext \/ UNCHANGED sockVars
<1>1. CASE Start(c)
  BY <1>1 DEF Start, ClientNext
<1>2. CASE Spawn(c) \/ Fgets(c)
  BY <1>2 DEF Spawn, Fgets
<1>3. CASE SendLine(c)
  <2>1. CASE ~Closed(c) /\ ClientSend(c)
    BY <2>1 DEF Closed, ClientNext
  <2>2. CASE EndProcess(c)
    BY <2>2, HangUpAllowed DEF EndProcess
  <2>. QED BY <1>3, <2>1, <2>2 DEF SendLine
<1>4. CASE Return(c) \/ Interrupt(c)
  BY <1>4, HangUpAllowed DEF Return, Interrupt, EndProcess
<1>5. CASE msg_recv_handler(c)
  <2>1. CASE Recv(c)
    BY <2>1 DEF Recv, ClientReads, ClientNext
  <2>2. CASE RecvEnd(c)
    BY <2>2 DEF RecvEnd
  <2>3. CASE Exit(c)
    BY <2>3, HangUpAllowed DEF Exit, EndProcess
  <2>. QED BY <1>5, <2>1, <2>2, <2>3 DEF msg_recv_handler
<1>. QED BY <1>1, <1>2, <1>3, <1>4, <1>5 DEF Process

\* The io_uring server with the programs of its clients, with their two threads, threads
\* that cannot be created and Ctrl-C, does what the server does with any clients: the
\* safety part of ClientsAsAssumed.
THEOREM ProgramsAreClients == ChatSpec => Spec
<1>1. ChatInit => Init
  BY DEF ChatInit
<1>2. [ChatNext]_chatVars => [Next]_vars
  <2>. SUFFICES ASSUME [ChatNext]_chatVars PROVE [Next]_vars
    OBVIOUS
  <2>1. CASE ServerStep
    BY <2>1 DEF ServerStep, Next
  <2>2. ASSUME NEW c \in Conn, ClientStep(c) PROVE [Next]_vars
    <3>1. ClientNext \/ UNCHANGED sockVars
      BY <2>2, ProcessAllowed DEF ClientStep
    <3>. QED BY <2>2, <3>1 DEF ClientStep, Next, vars
  <2>3. CASE UNCHANGED chatVars
    BY <2>3 DEF chatVars
  <2>. QED BY <2>1, <2>2, <2>3 DEF ChatNext
<1>. QED BY <1>1, <1>2, PTL DEF ChatSpec, Spec

\* So what is proved of the server holds with the client programs: the types, one request
\* of each kind, descriptors that are owned, and one room.
THEOREM ProgramsAreServed ==
  ChatSpec => /\ [](TypeOK /\ RequestsUnderWay /\ DescriptorsOwned)
              /\ IsChatRoom
<1>1. Spec => []TypeOK
  BY TypeCorrect
<1>2. Spec => []RequestsUnderWay
  BY OneRequestEach
<1>3. Spec => []DescriptorsOwned
  BY DescriptorsAreOwned
<1>4. Spec => IsChatRoom
  BY IsOneRoom
<1>. QED BY <1>1, <1>2, <1>3, <1>4, ProgramsAreClients, PTL
=============================================================================
