----------------------------- MODULE SnifferProofs -----------------------------
(***************************************************************************)
(* Theorems about the programs of hw5: the interface and its flags, for    *)
(* any number of captures (HW5_1.c) or modifiers (HW5_1_5.c); what a       *)
(* capture counts and shows, whatever comes in; what a modifier writes and *)
(* sends, for frames with any lengths in their headers; and the relay of   *)
(* the one packet of Sender.c.                                             *)
(***************************************************************************)
EXTENDS Capture, UdpRelay, FiniteSetTheorems, WellFoundedInduction, TLAPS

-----------------------------------------------------------------------------
(* Induction, from the least number of a set, and recursion *)

\* Strong induction up to N, for a set of numbers.
LEMMA StrongInduction ==
  ASSUME NEW N \in Nat, NEW P, \A n \in 0 .. N : (\A m \in 0 .. N : m < n => m \in P) => n \in P
  PROVE  0 .. N \subseteq P
<1>. DEFINE T == (0 .. N) \ P
<1>. SUFFICES ASSUME T # {} PROVE FALSE
  OBVIOUS
<1>1. T \in SUBSET Nat
  OBVIOUS
<1>2. PICK n \in T : \A m \in T : <<m, n>> \notin OpToRel(<, Nat)
  BY <1>1, NatLessThanWellFounded, WFMin
<1>3. ASSUME NEW m \in 0 .. N, m < n PROVE m \in P
  <2>1. <<m, n>> \in OpToRel(<, Nat)
    BY <1>3 DEF OpToRel
  <2>. QED BY <1>2, <2>1
<1>. QED BY <1>2, <1>3

\* Induction up to N, for a set of numbers.
LEMMA Induction ==
  ASSUME NEW N \in Nat, NEW P, 0 \in P, \A n \in 0 .. N : n < N /\ n \in P => n + 1 \in P
  PROVE  0 .. N \subseteq P
<1>1. ASSUME NEW n \in 0 .. N, \A m \in 0 .. N : m < n => m \in P PROVE n \in P
  <2>1. CASE n # 0
    <3>1. n - 1 \in 0 .. N /\ n - 1 < n /\ n - 1 < N
      BY <2>1
    <3>2. n - 1 \in P
      BY <1>1, <3>1
    <3>3. (n - 1) + 1 \in P
      BY <3>1, <3>2
    <3>. QED BY <3>3
  <2>. QED BY <2>1
<1>. QED BY <1>1, StrongInduction

\* f goes on from v0, step by step up to N
Recurs(f, N, v0, step) == f[0] = v0 /\ \A n \in 1 .. N : f[n] = step[n][f[n - 1]]

\* What a recursion over 0 .. N defines exists.
LEMMA Recursion ==
  ASSUME NEW N \in Nat, NEW V, NEW v0 \in V, NEW step \in [1 .. N -> [V -> V]]
  PROVE  \E f \in [0 .. N -> V] : Recurs(f, N, v0, step)
<1>. DEFINE Upto(f, n) == f[0] = v0 /\ \A k \in 1 .. n : f[k] = step[k][f[k - 1]]
<1>. DEFINE P == {n \in 0 .. N : \E f \in [0 .. N -> V] : Upto(f, n)}
<1>1. 0 \in P
  <2>1. Upto([n \in 0 .. N |-> v0], 0)
    OBVIOUS
  <2>2. [n \in 0 .. N |-> v0] \in [0 .. N -> V]
    OBVIOUS
  <2>. HIDE DEF Upto
  <2>3. 0 \in 0 .. N
    OBVIOUS
  <2>. QED BY <2>1, <2>2, <2>3
<1>2. ASSUME NEW n \in 0 .. N, n < N, n \in P PROVE n + 1 \in P
  <2>1. PICK f \in [0 .. N -> V] : Upto(f, n)
    BY <1>2
  <2>2. n + 1 \in 1 .. N /\ n + 1 \in 0 .. N
    BY <1>2
  <2>. DEFINE v == step[n + 1][f[n]]
              g == [f EXCEPT ![n + 1] = v]
  <2>3. v \in V
    BY <2>2
  <2>4. g \in [0 .. N -> V]
    BY <2>3
  <2>5. g[n + 1] = v /\ \A k \in 0 .. n : g[k] = f[k]
    BY <2>2
  <2>6. Upto(g, n + 1)
    <3>1. g[0] = v0
      BY <2>1, <2>5
    <3>2. ASSUME NEW k \in 1 .. (n + 1) PROVE g[k] = step[k][g[k - 1]]
      <4>1. CASE k = n + 1
        <5>1. g[k - 1] = f[n] /\ k - 1 = n
          BY <2>5, <4>1
        <5>. QED BY <2>5, <4>1, <5>1
      <4>2. CASE k # n + 1
        <5>1. k \in 1 .. n /\ k - 1 \in 0 .. n /\ k \in 0 .. n
          BY <4>2
        <5>. QED BY <2>1, <2>5, <5>1
      <4>. QED BY <4>1, <4>2
    <3>. HIDE DEF g
    <3>. QED BY <3>1, <3>2
  <2>. HIDE DEF Upto, g
  <2>. QED BY <2>2, <2>4, <2>6
<1>3. N \in P
  <2>. HIDE DEF P
  <2>1. 0 .. N \subseteq P
    BY <1>1, <1>2, Induction
  <2>. QED BY <2>1
<1>. QED BY <1>3 DEF Recurs

-----------------------------------------------------------------------------
(* Arithmetic *)

\* Multiplying a sum.
LEMMA Distribution == \A a, b, c \in Int : a * (b + c) = a * b + a * c
OBVIOUS

\* Dividing with a remainder.
LEMMA Division ==
  ASSUME NEW n \in Nat, NEW m \in Nat, m > 0
  PROVE  /\ n \div m \in Nat /\ n % m \in 0 .. m - 1
         /\ n = m * (n \div m) + (n % m)
OBVIOUS
\* A multiple leaves nothing.
LEMMA Multiple ==
  ASSUME NEW k \in Nat, NEW m \in Nat, m > 0
  PROVE  (m * k) % m = 0
<1>. DEFINE x == m * k
            q == x \div m
            r == x % m
<1>1. x \in Nat /\ q \in Nat /\ r \in 0 .. m - 1 /\ x = m * q + r
  BY Division
<1>2. m * (k - q) = r
  BY <1>1
<1>. HIDE DEF x, q, r
<1>3. CASE k - q >= 1
  <2>1. m * (k - q) >= m
    BY <1>1, <1>3
  <2>. QED BY <1>1, <1>2, <2>1
<1>4. CASE k - q <= -1
  <2>1. m * (k - q) <= -m
    BY <1>1, <1>4
  <2>. QED BY <1>1, <1>2, <2>1
<1>5. CASE k - q = 0
  BY <1>1, <1>2, <1>5 DEF r, x
<1>. QED BY <1>1, <1>3, <1>4, <1>5

-----------------------------------------------------------------------------
(* The checksum: sums *)

\* The sums of the beginnings of a sequence.
LEMMA SumsSteps ==
  ASSUME NEW v \in Seq(Nat)
  PROVE  /\ Sums(v)[0] = 0 /\ \A n \in 0 .. Len(v) : Sums(v)[n] \in Nat
         /\ \A n \in 1 .. Len(v) : Sums(v)[n] = Sums(v)[n - 1] + v[n]
<1>. DEFINE N == Len(v)
            step == [n \in 1 .. N |-> [x \in Nat |-> x + v[n]]]
            h == Sums(v)
<1>1. N \in Nat /\ \A n \in 1 .. N : v[n] \in Nat
  OBVIOUS
<1>2. step \in [1 .. N -> [Nat -> Nat]]
  BY <1>1
<1>3. PICK f \in [0 .. N -> Nat] : Recurs(f, N, 0, step)
  <2>. HIDE DEF N, step
  <2>. QED BY <1>1, <1>2, Recursion
<1>4. ASSUME NEW n \in 0 .. N
      PROVE  f[n] = IF n = 0 THEN 0 ELSE f[n - 1] + v[n]
  <2>1. CASE n = 0
    BY <1>3, <2>1 DEF Recurs
  <2>2. CASE n # 0
    <3>1. n \in 1 .. N /\ n - 1 \in 0 .. N
      <4>. HIDE DEF N
      <4>. QED BY <1>1, <2>2
    <3>2. f[n - 1] \in Nat
      <4>. HIDE DEF N
      <4>. QED BY <3>1
    <3>. QED BY <1>3, <2>2, <3>1, <3>2 DEF Recurs
  <2>. QED BY <2>1, <2>2
<1>5. f = [n \in 0 .. N |-> IF n = 0 THEN 0 ELSE f[n - 1] + v[n]]
  <2>1. f = [n \in 0 .. N |-> f[n]]
    OBVIOUS
  <2>. QED BY <1>4, <2>1
<1>6. h = [n \in 0 .. N |-> IF n = 0 THEN 0 ELSE h[n - 1] + v[n]]
  BY <1>5, Zenon DEF Sums
<1>7. \A n \in 0 .. N : h[n] = IF n = 0 THEN 0 ELSE h[n - 1] + v[n]
  BY <1>6, Zenon
<1>8. h[0] = 0 /\ \A n \in 1 .. N : h[n] = h[n - 1] + v[n]
  <2>1. 0 \in 0 .. N /\ \A n \in 1 .. N : n \in 0 .. N /\ n # 0
    BY <1>1
  <2>. HIDE DEF N, h
  <2>. QED BY <1>7, <2>1, Zenon
<1>9. 0 .. N \subseteq {n \in 0 .. N : h[n] \in Nat}
  <2>. DEFINE P == {n \in 0 .. N : h[n] \in Nat}
  <2>1. 0 \in P
    <3>1. 0 \in 0 .. N
      BY <1>1
    <3>. HIDE DEF h, N
    <3>. QED BY <1>8, <3>1
  <2>2. ASSUME NEW n \in 0 .. N, n < N, n \in P PROVE n + 1 \in P
    <3>1. n + 1 \in 1 .. N /\ n + 1 \in 0 .. N /\ (n + 1) - 1 = n /\ v[n + 1] \in Nat
      BY <1>1, <2>2
    <3>. HIDE DEF h, N
    <3>2. h[n + 1] = h[n] + v[n + 1]
      BY <1>8, <3>1
    <3>. QED BY <2>2, <3>1, <3>2
  <2>. HIDE DEF P
  <2>3. 0 .. N \subseteq P
    BY <1>1, <2>1, <2>2, Induction
  <2>. QED BY <2>3 DEF P
<1>. QED BY <1>8, <1>9

\* Two such equations, added up.
LEMMA EquationsAdd ==
  ASSUME NEW B \in Nat, NEW M \in Nat, NEW s \in Nat, NEW x \in Nat, NEW t \in Nat,
         NEW y \in Nat, NEW q \in Nat, NEW d \in Nat,
         B * s = t + M * q, B * x = y + M * d
  PROVE  B * (s + x) = (t + y) + M * (q + d) /\ q + d \in Nat
<1>1. B * (s + x) = B * s + B * x /\ M * (q + d) = M * q + M * d
  BY Distribution
<1>2. M * q \in Nat /\ M * d \in Nat
  OBVIOUS
<1>. DEFINE e == M * q
            f == M * d
<1>3. B * (s + x) = (t + e) + (y + f) /\ M * (q + d) = e + f /\ e \in Nat /\ f \in Nat
  BY <1>1, <1>2
<1>. HIDE DEF e, f
<1>. QED BY <1>3

\* What relates the elements of two sequences relates their sums.
LEMMA SumsRelate ==
  ASSUME NEW v \in Seq(Nat), NEW w \in Seq(Nat), Len(v) = Len(w), NEW B \in Nat, NEW M \in Nat,
         \A n \in 1 .. Len(v) :
           /\ \E d \in Nat : B * v[n] = w[n] + M * d
           /\ w[n] = 0 => v[n] = 0
  PROVE  /\ Total(v) \in Nat /\ Total(w) \in Nat
         /\ \E q \in Nat : B * Total(v) = Total(w) + M * q
         /\ Total(w) = 0 => Total(v) = 0
<1>. DEFINE N == Len(v)
            S == Sums(v)
            T == Sums(w)
            P == {n \in 0 .. N : /\ \E q \in Nat : B * S[n] = T[n] + M * q
                                 /\ T[n] = 0 => S[n] = 0}
<1>1. N \in Nat /\ \A n \in 1 .. N : v[n] \in Nat /\ w[n] \in Nat
  OBVIOUS
<1>2. /\ S[0] = 0 /\ \A n \in 0 .. N : S[n] \in Nat
      /\ \A n \in 1 .. N : S[n] = S[n - 1] + v[n]
  BY SumsSteps
<1>3. /\ T[0] = 0 /\ \A n \in 0 .. N : T[n] \in Nat
      /\ \A n \in 1 .. N : T[n] = T[n - 1] + w[n]
  BY SumsSteps
<1>4. \A n \in 1 .. N : (\E d \in Nat : B * v[n] = w[n] + M * d) /\ (w[n] = 0 => v[n] = 0)
  OBVIOUS
<1>. HIDE DEF N, S, T
<1>5. 0 \in P
  <2>1. B * 0 = 0 + M * 0 /\ 0 \in Nat
    OBVIOUS
  <2>2. B * S[0] = T[0] + M * 0
    BY <1>2, <1>3, <2>1, Zenon
  <2>3. 0 \in 0 .. N
    BY <1>1
  <2>. QED BY <1>2, <1>3, <2>1, <2>2, <2>3
<1>6. ASSUME NEW n \in 0 .. N, n < N, n \in P PROVE n + 1 \in P
  <2>1. n + 1 \in 1 .. N /\ n + 1 \in 0 .. N /\ (n + 1) - 1 = n
    BY <1>1, <1>6
  <2>2. S[n + 1] = S[n] + v[n + 1] /\ T[n + 1] = T[n] + w[n + 1]
    BY <1>2, <1>3, <2>1
  <2>3. S[n] \in Nat /\ T[n] \in Nat /\ v[n + 1] \in Nat /\ w[n + 1] \in Nat
    BY <1>1, <1>2, <1>3, <2>1
  <2>4. PICK q \in Nat : B * S[n] = T[n] + M * q
    BY <1>6
  <2>5. PICK d \in Nat : B * v[n + 1] = w[n + 1] + M * d
    BY <1>4, <2>1
  <2>6. B * (S[n] + v[n + 1]) = (T[n] + w[n + 1]) + M * (q + d) /\ q + d \in Nat
    <3>1. PICK e \in Nat, f \in Nat, a \in Nat, b \in Nat :
            e = S[n] /\ f = v[n + 1] /\ a = T[n] /\ b = w[n + 1]
      BY <2>3
    <3>2. B * e = a + M * q /\ B * f = b + M * d
      BY <2>4, <2>5, <3>1, Zenon
    <3>3. B * (e + f) = (a + b) + M * (q + d) /\ q + d \in Nat
      BY <3>2, EquationsAdd
    <3>. QED BY <3>1, <3>3, Zenon
  <2>7. B * S[n + 1] = T[n + 1] + M * (q + d)
    BY <2>2, <2>6, Zenon
  <2>8. T[n + 1] = 0 => S[n + 1] = 0
    <3>1. T[n] = 0 => S[n] = 0
      BY <1>6
    <3>2. w[n + 1] = 0 => v[n + 1] = 0
      BY <1>4, <2>1
    <3>. DEFINE a == T[n]
                b == w[n + 1]
                e == S[n]
                f == v[n + 1]
    <3>3. a \in Nat /\ b \in Nat /\ T[n + 1] = a + b /\ S[n + 1] = e + f
          /\ (a = 0 => e = 0) /\ (b = 0 => f = 0)
      BY <2>2, <2>3, <3>1, <3>2
    <3>. HIDE DEF a, b, e, f
    <3>. QED BY <3>3
  <2>. QED BY <2>1, <2>6, <2>7, <2>8
<1>7. N \in P
  <2>. HIDE DEF P
  <2>1. 0 .. N \subseteq P
    BY <1>1, <1>5, <1>6, Induction
  <2>. QED BY <1>1, <2>1
<1>8. Total(v) = S[N] /\ Total(w) = T[N]
  BY DEF Total, S, T, N
<1>. QED BY <1>1, <1>2, <1>3, <1>7, <1>8

\* A sequence that has c more in its first element adds up to c more.
LEMMA SumsShift ==
  ASSUME NEW v \in Seq(Nat), NEW w \in Seq(Nat), Len(v) = Len(w), Len(v) > 0, NEW c \in Nat,
         w[1] = v[1] + c, \A n \in 2 .. Len(v) : w[n] = v[n]
  PROVE  Total(w) = Total(v) + c
<1>. DEFINE N == Len(v)
            S == Sums(v)
            T == Sums(w)
            P == {n \in 0 .. N : n > 0 => T[n] = S[n] + c}
<1>1. N \in Nat /\ N > 0 /\ \A n \in 1 .. N : v[n] \in Nat /\ w[n] \in Nat
  <2>1. \A n \in 1 .. Len(v) : v[n] \in Nat
    OBVIOUS
  <2>2. \A n \in 1 .. Len(w) : w[n] \in Nat
    OBVIOUS
  <2>. QED BY <2>1, <2>2
<1>2. /\ S[0] = 0 /\ \A n \in 0 .. N : S[n] \in Nat
      /\ \A n \in 1 .. N : S[n] = S[n - 1] + v[n]
  BY SumsSteps
<1>3. /\ T[0] = 0 /\ \A n \in 0 .. N : T[n] \in Nat
      /\ \A n \in 1 .. N : T[n] = T[n - 1] + w[n]
  BY SumsSteps
<1>4. w[1] = v[1] + c /\ \A n \in 2 .. N : w[n] = v[n]
  OBVIOUS
<1>. HIDE DEF N, S, T
<1>5. 0 \in P
  BY <1>1
<1>6. ASSUME NEW n \in 0 .. N, n < N, n \in P PROVE n + 1 \in P
  <2>1. n + 1 \in 1 .. N /\ n + 1 \in 0 .. N /\ (n + 1) - 1 = n
    BY <1>1, <1>6
  <2>2. S[n + 1] = S[n] + v[n + 1] /\ T[n + 1] = T[n] + w[n + 1]
    BY <1>2, <1>3, <2>1
  <2>3. S[n] \in Nat /\ T[n] \in Nat /\ v[n + 1] \in Nat /\ w[n + 1] \in Nat
    BY <1>1, <1>2, <1>3, <2>1
  <2>4. CASE n = 0
    <3>1. T[n + 1] = S[n + 1] + c
      BY <1>2, <1>3, <1>4, <2>2, <2>3, <2>4
    <3>. QED BY <2>1, <3>1
  <2>5. CASE n > 0
    <3>1. T[n] = S[n] + c
      BY <1>6, <2>5
    <3>2. w[n + 1] = v[n + 1]
      BY <1>1, <1>4, <2>1, <2>5
    <3>3. T[n + 1] = S[n + 1] + c
      BY <2>2, <2>3, <3>1, <3>2
    <3>. QED BY <2>1, <3>3
  <2>. QED BY <1>1, <2>4, <2>5
<1>7. N \in P
  <2>. HIDE DEF P
  <2>1. 0 .. N \subseteq P
    BY <1>1, <1>5, <1>6, Induction
  <2>. QED BY <1>1, <2>1
<1>8. Total(v) = S[N] /\ Total(w) = T[N]
  BY DEF Total, S, T, N
<1>. QED BY <1>1, <1>7, <1>8

-----------------------------------------------------------------------------
(* The checksum: the carries *)

\* f follows h down to the numbers of E
Descends(f, n, h, E) == \A k \in 0 .. n : f[k] = IF k \in E THEN k ELSE f[h[k]]

\* What goes down by h to the numbers of E exists.
LEMMA Descent ==
  ASSUME NEW N \in Nat, NEW E, NEW h, \A n \in 0 .. N : n \notin E => h[n] \in 0 .. n - 1
  PROVE  \E f \in [0 .. N -> Nat] : Descends(f, N, h, E)
<1>. DEFINE P == {n \in 0 .. N : \E f \in [0 .. N -> Nat] : Descends(f, n, h, E)}
<1>1. 0 \in P
  <2>. DEFINE f == [n \in 0 .. N |-> n]
  <2>1. 0 \in E /\ 0 \in 0 .. N
    OBVIOUS
  <2>2. f \in [0 .. N -> Nat]
    OBVIOUS
  <2>3. Descends(f, 0, h, E)
    BY <2>1 DEF Descends
  <2>. HIDE DEF f
  <2>. QED BY <2>1, <2>2, <2>3
<1>2. ASSUME NEW n \in 0 .. N, n < N, n \in P PROVE n + 1 \in P
  <2>1. PICK f \in [0 .. N -> Nat] : Descends(f, n, h, E)
    BY <1>2
  <2>2. n + 1 \in 0 .. N
    BY <1>2
  <2>. DEFINE v == IF n + 1 \in E THEN n + 1 ELSE f[h[n + 1]]
              g == [f EXCEPT ![n + 1] = v]
  <2>3. v \in Nat
    <3>1. n + 1 \notin E => h[n + 1] \in 0 .. N
      BY <2>2
    <3>. QED BY <2>2, <3>1
  <2>4. g \in [0 .. N -> Nat]
    BY <2>3
  <2>5. g[n + 1] = v /\ \A k \in 0 .. n : g[k] = f[k]
    BY <2>2
  <2>6. ASSUME NEW k \in 0 .. (n + 1) PROVE g[k] = IF k \in E THEN k ELSE g[h[k]]
    <3>1. k \in 0 .. N /\ (k \notin E => h[k] \in 0 .. n)
      BY <2>2
    <3>2. CASE k = n + 1
      <4>1. k \notin E => g[h[k]] = f[h[k]]
        BY <2>5, <3>1
      <4>. QED BY <2>5, <3>2, <4>1
    <3>3. CASE k # n + 1
      <4>1. k \in 0 .. n
        BY <3>3
      <4>2. f[k] = IF k \in E THEN k ELSE f[h[k]]
        BY <2>1, <4>1 DEF Descends
      <4>. HIDE DEF g
      <4>. QED BY <2>5, <3>1, <4>1, <4>2
    <3>. QED BY <3>2, <3>3
  <2>7. Descends(g, n + 1, h, E)
    <3>. HIDE DEF g
    <3>. QED BY <2>6 DEF Descends
  <2>. HIDE DEF g
  <2>. QED BY <2>2, <2>4, <2>7
<1>3. N \in P
  <2>. HIDE DEF P
  <2>1. 0 .. N \subseteq P
    BY <1>1, <1>2, Induction
  <2>. QED BY <2>1
<1>. QED BY <1>3

\* What a word holds is more than the number of its carries.
LEMMA WordBound == WORD \in Nat /\ WORD > 1
<1>1. BYTE \in Nat /\ BYTE >= 2
  BY ChecksumAssumption
<1>. QED BY <1>1 DEF WORD

\* Adding the carry to what it was carried from makes a number smaller, by a
\* multiple of WORD - 1.
LEMMA CarryDown ==
  ASSUME NEW n \in Nat
  PROVE  LET m == (n % WORD) + (n \div WORD) IN
         /\ n \div WORD \in Nat /\ n % WORD \in 0 .. WORD - 1
         /\ n \div WORD = 0 => n \in 0 .. WORD - 1
         /\ n \div WORD # 0 => m \in 0 .. n - 1
         /\ n = m + (WORD - 1) * (n \div WORD)
<1>. DEFINE q == n \div WORD
            r == n % WORD
<1>1. q \in Nat /\ r \in 0 .. WORD - 1 /\ n = WORD * q + r
  BY WordBound, Division
<1>2. WORD * q = (WORD - 1) * q + q /\ (WORD - 1) * q \in Nat
  <2>. HIDE DEF q, r
  <2>1. q \in Nat /\ WORD \in Nat /\ WORD - 1 \in Nat
    BY <1>1, WordBound
  <2>. QED BY <2>1
<1>3. q >= 1 => (WORD - 1) * q >= 1
  BY <1>1, WordBound
<1>4. q = 0 => WORD * q = 0
  BY WordBound
<1>. HIDE DEF q, r
<1>. DEFINE x == (WORD - 1) * q
            y == WORD * q
<1>5. x \in Nat /\ y = x + q /\ n = y + r /\ (q >= 1 => x >= 1) /\ (q = 0 => y = 0)
  BY <1>1, <1>2, <1>3, <1>4
<1>. HIDE DEF x, y
<1>6. /\ q = 0 => n \in 0 .. WORD - 1
      /\ q # 0 => r + q \in 0 .. n - 1
      /\ n = r + q + x
  BY <1>1, <1>5, WordBound
<1>. QED BY <1>1, <1>6 DEF q, r, x

\* The loop ends with a word that differs from what it began with by a multiple of
\* WORD - 1.
LEMMA FoldedIs ==
  ASSUME NEW s \in Nat
  PROVE  /\ Folded(s) \in 0 .. WORD - 1
         /\ \E q \in Nat : s = Folded(s) + (WORD - 1) * q
<1>. DEFINE E == {n \in 0 .. s : n \div WORD = 0}
            h == [n \in 0 .. s |-> (n % WORD) + (n \div WORD)]
            F(f) == f = [n \in 0 .. s |->
                          IF n \div WORD = 0 THEN n ELSE f[(n % WORD) + (n \div WORD)]]
<1>1. \A n \in 0 .. s : n \notin E => h[n] \in 0 .. n - 1
  BY CarryDown
<1>2. PICK f \in [0 .. s -> Nat] : Descends(f, s, h, E)
  <2>. HIDE DEF h, E
  <2>. QED BY <1>1, Descent
<1>3. F(f)
  <2>1. f = [n \in 0 .. s |-> f[n]]
    OBVIOUS
  <2>2. \A n \in 0 .. s : f[n] = IF n \div WORD = 0 THEN n ELSE f[(n % WORD) + (n \div WORD)]
    BY <1>2 DEF Descends
  <2>. QED BY <2>1, <2>2
<1>. DEFINE g == CHOOSE f_1 : F(f_1)
<1>4. Folded(s) = g[s] /\ F(g)
  BY <1>3, Zenon DEF Folded
<1>5. \A n \in 0 .. s : g[n] = IF n \div WORD = 0 THEN n ELSE g[(n % WORD) + (n \div WORD)]
  BY <1>4, Zenon
<1>. HIDE DEF g
<1>. DEFINE P == {n \in 0 .. s : /\ g[n] \in 0 .. WORD - 1
                                 /\ \E q \in Nat : n = g[n] + (WORD - 1) * q}
<1>6. ASSUME NEW n \in 0 .. s, \A m \in 0 .. s : m < n => m \in P
      PROVE  n \in P
  <2>1. CASE n \div WORD = 0
    <3>1. g[n] = n /\ n \in 0 .. WORD - 1
      <4>1. g[n] = n
        BY <1>5, <2>1, Zenon
      <4>. QED BY <2>1, <4>1, CarryDown
    <3>2. n = g[n] + (WORD - 1) * 0
      BY <3>1, WordBound
    <3>. QED BY <3>1, <3>2
  <2>2. CASE n \div WORD # 0
    <3>. DEFINE d == n \div WORD
                m == (n % WORD) + d
    <3>1. d \in Nat /\ m \in 0 .. n - 1 /\ n = m + (WORD - 1) * d
      BY <2>2, CarryDown
    <3>2. g[n] = g[m]
      BY <1>5, <2>2
    <3>. HIDE DEF d, m
    <3>3. m \in P
      BY <1>6, <3>1
    <3>4. PICK q \in Nat : m = g[m] + (WORD - 1) * q
      BY <3>3
    <3>5. g[m] \in 0 .. WORD - 1
      BY <3>3
    <3>6. n = g[n] + (WORD - 1) * (q + d)
      <4>1. (WORD - 1) * (q + d) = (WORD - 1) * q + (WORD - 1) * d
        BY <3>1, WordBound, Distribution
      <4>. DEFINE x == (WORD - 1) * q
                  y == (WORD - 1) * d
      <4>2. x \in Nat /\ y \in Nat
        BY <3>1, WordBound
      <4>3. n = m + y /\ m = g[m] + x /\ (WORD - 1) * (q + d) = x + y
        BY <3>1, <3>4, <4>1
      <4>. HIDE DEF x, y
      <4>. QED BY <3>2, <3>5, <4>2, <4>3, WordBound
    <3>7. q + d \in Nat
      BY <3>1
    <3>. QED BY <3>2, <3>5, <3>6, <3>7
  <2>. QED BY <2>1, <2>2
<1>7. s \in P
  <2>. HIDE DEF P
  <2>1. 0 .. s \subseteq P
    BY <1>6, StrongInduction
  <2>. QED BY <2>1
<1>. QED BY <1>4, <1>7

-----------------------------------------------------------------------------
(* The checksum: it verifies *)

\* The sequences of words of a buffer.
LEMMA WordsTypes ==
  ASSUME NEW n \in Nat, NEW b \in [1 .. n -> Byte]
  PROVE  /\ Len(b) = n /\ n \div 2 \in Nat /\ n >= 2 => n \div 2 >= 1
         /\ Words(b) \in Seq(Nat) /\ Len(Words(b)) = n \div 2
         /\ Network(b) \in Seq(Nat) /\ Len(Network(b)) = n \div 2
         /\ \A k \in 1 .. n \div 2 :
              /\ 2 * k - 1 \in 1 .. n /\ 2 * k \in 1 .. n
              /\ b[2 * k - 1] \in Nat /\ b[2 * k] \in Nat
              /\ Words(b)[k] = b[2 * k - 1] + BYTE * b[2 * k]
              /\ Network(b)[k] = BYTE * b[2 * k - 1] + b[2 * k]
         /\ Left(b) \in Nat
<1>1. BYTE \in Nat /\ Byte \subseteq Nat
  BY ChecksumAssumption DEF Byte
<1>2. b \in Seq(Byte) /\ Len(b) = n
  OBVIOUS
<1>3. n \div 2 \in Nat /\ (n >= 2 => n \div 2 >= 1) /\ 2 * (n \div 2) <= n
  OBVIOUS
<1>4. ASSUME NEW k \in 1 .. n \div 2
      PROVE  /\ 2 * k - 1 \in 1 .. n /\ 2 * k \in 1 .. n
             /\ b[2 * k - 1] \in Nat /\ b[2 * k] \in Nat
  <2>1. 2 * k - 1 \in 1 .. n /\ 2 * k \in 1 .. n
    BY <1>3
  <2>. QED BY <1>1, <2>1
<1>5. \A x, y \in Nat : x + BYTE * y \in Nat /\ BYTE * x + y \in Nat
  BY <1>1
<1>6. Words(b) = [k \in 1 .. n \div 2 |-> b[2 * k - 1] + BYTE * b[2 * k]]
  BY <1>2 DEF Words
<1>7. Network(b) = [k \in 1 .. n \div 2 |-> BYTE * b[2 * k - 1] + b[2 * k]]
  BY <1>2 DEF Network
<1>8. Words(b) \in [1 .. n \div 2 -> Nat]
  <2>1. \A k \in 1 .. n \div 2 : b[2 * k - 1] + BYTE * b[2 * k] \in Nat
    BY <1>4, <1>5
  <2>. QED BY <1>6, <2>1
<1>9. Network(b) \in [1 .. n \div 2 -> Nat]
  <2>1. \A k \in 1 .. n \div 2 : BYTE * b[2 * k - 1] + b[2 * k] \in Nat
    BY <1>4, <1>5
  <2>. QED BY <1>7, <2>1
<1>10. Left(b) \in Nat
  <2>1. n % 2 = 1 => n \in 1 .. n
    OBVIOUS
  <2>. QED BY <1>1, <1>2, <2>1 DEF Left
<1>11. \A k \in Nat : \A v \in [1 .. k -> Nat] : v \in Seq(Nat) /\ Len(v) = k
  OBVIOUS
<1>. DEFINE half == n \div 2
<1>12. Words(b) \in Seq(Nat) /\ Len(Words(b)) = half
  BY <1>3, <1>8, <1>11
<1>13. Network(b) \in Seq(Nat) /\ Len(Network(b)) = half
  BY <1>3, <1>9, <1>11
<1>14. \A k \in 1 .. half : /\ Words(b)[k] = b[2 * k - 1] + BYTE * b[2 * k]
                         /\ Network(b)[k] = BYTE * b[2 * k - 1] + b[2 * k]
  BY <1>6, <1>7
<1>. QED BY <1>2, <1>3, <1>4, <1>10, <1>12, <1>13, <1>14

\* A word in the two byte orders.
LEMMA TwoOrders ==
  ASSUME NEW lo \in Nat, NEW hi \in Nat
  PROVE  /\ BYTE * (lo + BYTE * hi) = (BYTE * lo + hi) + (WORD - 1) * hi
         /\ BYTE * lo + hi = 0 => lo + BYTE * hi = 0
<1>1. BYTE \in Nat /\ BYTE >= 2 /\ WORD = BYTE * BYTE
  BY ChecksumAssumption DEF WORD
<1>2. BYTE * (lo + BYTE * hi) = BYTE * lo + (BYTE * BYTE) * hi
  BY <1>1
<1>3. (BYTE * BYTE) * hi = hi + (BYTE * BYTE - 1) * hi
  BY <1>1
<1>4. BYTE * lo + hi = 0 => lo = 0 /\ hi = 0
  <2>1. BYTE * lo >= lo
    BY <1>1
  <2>2. BYTE * lo \in Nat
    BY <1>1
  <2>. QED BY <2>1, <2>2
<1>5. BYTE * (lo + BYTE * hi) = (BYTE * lo + hi) + (WORD - 1) * hi
  <2>. DEFINE x == BYTE * lo
              y == (BYTE * BYTE) * hi
              z == (BYTE * BYTE - 1) * hi
  <2>1. x \in Nat /\ z \in Int /\ y = hi + z
    BY <1>1, <1>3
  <2>2. BYTE * (lo + BYTE * hi) = x + y
    BY <1>2
  <2>3. (WORD - 1) * hi = z
    BY <1>1
  <2>. HIDE DEF x, y, z
  <2>4. x + y = (x + hi) + z
    BY <2>1
  <2>5. BYTE * lo = x
    BY DEF x
  <2>. QED BY <2>2, <2>3, <2>4, <2>5
<1>. QED BY <1>1, <1>4, <1>5

\* The sums of both sides.
LEMMA BothSums ==
  ASSUME NEW n \in Nat, NEW b \in [1 .. n -> Byte]
  PROVE  /\ Sum(b) \in Nat /\ AddedUp(b) \in Nat
         /\ \E q \in Nat : BYTE * Sum(b) = AddedUp(b) + (WORD - 1) * q
         /\ AddedUp(b) = 0 => Sum(b) = 0
<1>. DEFINE v == Words(b)
            w == Network(b)
            l == Left(b)
            M == WORD - 1
<1>1. BYTE \in Nat /\ BYTE >= 2 /\ M \in Nat
  BY ChecksumAssumption, WordBound
<1>2. v \in Seq(Nat) /\ w \in Seq(Nat) /\ Len(v) = Len(w) /\ l \in Nat
  BY WordsTypes
<1>3. ASSUME NEW k \in 1 .. Len(v)
      PROVE  /\ \E d \in Nat : BYTE * v[k] = w[k] + M * d
             /\ w[k] = 0 => v[k] = 0
  <2>1. /\ b[2 * k - 1] \in Nat /\ b[2 * k] \in Nat
        /\ v[k] = b[2 * k - 1] + BYTE * b[2 * k]
        /\ w[k] = BYTE * b[2 * k - 1] + b[2 * k]
    <3>1. k \in 1 .. n \div 2
      BY WordsTypes
    <3>. QED BY <3>1, WordsTypes
  <2>2. PICK lo \in Nat, hi \in Nat : lo = b[2 * k - 1] /\ hi = b[2 * k]
    BY <2>1
  <2>3. v[k] = lo + BYTE * hi /\ w[k] = BYTE * lo + hi
    BY <2>1, <2>2
  <2>. HIDE DEF v, w, M
  <2>4. BYTE * v[k] = w[k] + M * hi /\ (w[k] = 0 => v[k] = 0)
    BY <2>3, TwoOrders, Zenon DEF M
  <2>. QED BY <2>4
<1>4. /\ Total(v) \in Nat /\ Total(w) \in Nat
      /\ \E q \in Nat : BYTE * Total(v) = Total(w) + M * q
      /\ Total(w) = 0 => Total(v) = 0
  <2>. HIDE DEF v, w, M
  <2>. QED BY <1>1, <1>2, <1>3, SumsRelate
<1>5. PICK q \in Nat : BYTE * Total(v) = Total(w) + M * q
  BY <1>4
<1>. DEFINE s == Total(v)
            t == Total(w)
            x == M * q
            y == BYTE * l
<1>6. Sum(b) = s + l /\ AddedUp(b) = t + y
  BY DEF Sum, AddedUp
<1>7. s \in Nat /\ t \in Nat /\ (t = 0 => s = 0) /\ BYTE * s = t + x
  BY <1>4, <1>5
<1>8. x \in Nat /\ y \in Nat /\ y >= l
  <2>. HIDE DEF M, l
  <2>. QED BY <1>1, <1>2
<1>. HIDE DEF s, t, l, M
<1>9. BYTE * (s + l) = BYTE * s + y
  BY <1>1, <1>2, <1>7, Distribution
<1>. HIDE DEF x, y
<1>10. BYTE * Sum(b) = AddedUp(b) + x
  BY <1>6, <1>7, <1>8, <1>9
<1>11. AddedUp(b) = 0 => Sum(b) = 0
  BY <1>2, <1>6, <1>7, <1>8
<1>. QED BY <1>2, <1>6, <1>7, <1>8, <1>10, <1>11 DEF x, M

\* The result, in the place of its field, adds itself to the sum.
LEMMA StoredSum ==
  ASSUME NEW n \in Nat, n >= 2, NEW b \in [1 .. n -> Byte], b[1] = 0, b[2] = 0,
         NEW c \in 0 .. WORD - 1
  PROVE  Stored(b, c) \in [1 .. n -> Byte] /\ Sum(Stored(b, c)) = Sum(b) + c
<1>. DEFINE lo == c % BYTE
            hi == c \div BYTE
            d == Stored(b, c)
<1>1. BYTE \in Nat /\ BYTE >= 2 /\ WORD = BYTE * BYTE /\ WORD \in Nat /\ c \in Nat /\ c < WORD
  BY ChecksumAssumption, WordBound DEF WORD
<1>2. hi \in Nat /\ lo \in Byte /\ c = BYTE * hi + lo
  BY <1>1, Division DEF Byte
<1>3. hi \in Byte
  <2>. HIDE DEF hi, lo
  <2>1. lo \in Nat
    BY <1>1, <1>2 DEF Byte
  <2>2. CASE hi >= BYTE
    <3>1. BYTE * hi >= BYTE * BYTE
      BY <1>1, <1>2, <2>2
    <3>2. BYTE * hi \in Nat /\ BYTE * BYTE \in Nat
      BY <1>1, <1>2
    <3>. QED BY <1>1, <1>2, <2>1, <3>1, <3>2
  <2>. QED BY <1>1, <1>2, <2>2 DEF Byte
<1>4. d = [b EXCEPT ![1] = lo, ![2] = hi]
  BY DEF Stored
<1>. HIDE DEF lo, hi, d
<1>5. /\ d \in [1 .. n -> Byte]
      /\ d[1] = lo /\ d[2] = hi /\ \A k \in 3 .. n : d[k] = b[k]
  BY <1>2, <1>3, <1>4
<1>. DEFINE v == Words(b)
            w == Words(d)
<1>6. /\ v \in Seq(Nat) /\ Len(v) = n \div 2
      /\ \A k \in 1 .. n \div 2 : v[k] = b[2 * k - 1] + BYTE * b[2 * k]
  BY WordsTypes
<1>7. /\ w \in Seq(Nat) /\ Len(w) = n \div 2
      /\ \A k \in 1 .. n \div 2 : w[k] = d[2 * k - 1] + BYTE * d[2 * k]
  BY <1>5, WordsTypes
<1>8. n \div 2 \in Nat /\ n \div 2 >= 1 /\ 2 * (n \div 2) <= n
  OBVIOUS
<1>. HIDE DEF v, w
<1>9. v[1] = 0 /\ w[1] = c
  <2>1. 1 \in 1 .. n \div 2 /\ 2 * 1 - 1 = 1 /\ 2 * 1 = 2
    BY <1>8
  <2>2. v[1] = b[1] + BYTE * b[2] /\ w[1] = d[1] + BYTE * d[2]
    BY <1>6, <1>7, <2>1
  <2>3. BYTE * 0 = 0
    BY <1>1
  <2>4. lo \in Nat /\ BYTE * hi \in Nat
    BY <1>1, <1>2 DEF Byte
  <2>. QED BY <1>2, <1>5, <2>2, <2>3, <2>4
<1>10. ASSUME NEW k \in 2 .. Len(v) PROVE w[k] = v[k]
  <2>1. k \in 1 .. n \div 2 /\ 2 * k - 1 \in 3 .. n /\ 2 * k \in 3 .. n
    BY <1>6, <1>8
  <2>. QED BY <1>5, <1>6, <1>7, <2>1
<1>11. Total(w) = Total(v) + c
  <2>1. Len(v) = Len(w) /\ Len(v) > 0 /\ w[1] = v[1] + c
    BY <1>1, <1>6, <1>7, <1>8, <1>9
  <2>. QED BY <1>1, <1>6, <1>7, <1>10, <2>1, SumsShift
<1>12. Left(d) = Left(b)
  <2>1. Len(d) = n /\ Len(b) = n
    BY <1>5
  <2>2. n % 2 = 1 => n \in 3 .. n
    OBVIOUS
  <2>. QED BY <1>5, <2>1, <2>2 DEF Left
<1>13. Total(v) \in Nat /\ Left(b) \in Nat
  <2>1. Left(b) \in Nat
    BY WordsTypes
  <2>. QED BY <1>6, <2>1, SumsSteps DEF Total
<1>14. Sum(d) = Sum(b) + c
  BY <1>1, <1>11, <1>12, <1>13 DEF Sum, v, w
<1>. QED BY <1>5, <1>14 DEF d

\* A receiver of any buffer gets all ones, modulo the carries.
LEMMA ChecksumVerifies ==
  ASSUME NEW b \in Buffers
  PROVE  LET c == checksum(b)
             r == AddedUp(Stored(b, c))
         IN c \in 0 .. WORD - 1 /\ r > 0 /\ r % (WORD - 1) = 0
<1>. DEFINE c == checksum(b)
            d == Stored(b, c)
            r == AddedUp(d)
            M == WORD - 1
            F == Folded(Sum(b))
<1>1. PICK n \in Nat : n >= 2 /\ b \in [1 .. n -> Byte] /\ b[1] = 0 /\ b[2] = 0
  BY ChecksumAssumption DEF Buffers
<1>2. Sum(b) \in Nat
  BY <1>1, BothSums
<1>3. F \in 0 .. M /\ \E q \in Nat : Sum(b) = F + M * q
  BY <1>2, FoldedIs
<1>4. M \in Nat /\ M > 0 /\ WORD = M + 1 /\ BYTE \in Nat /\ BYTE >= 2
  BY WordBound, ChecksumAssumption
<1>5. c = M - F /\ c \in 0 .. WORD - 1
  <2>1. c = (M - F) % WORD
    BY DEF checksum
  <2>. HIDE DEF c, M, F
  <2>. QED BY <1>3, <1>4, <2>1
<1>6. d \in [1 .. n -> Byte] /\ Sum(d) = Sum(b) + c
  <2>. HIDE DEF c
  <2>. QED BY <1>1, <1>5, StoredSum
<1>7. /\ r \in Nat
      /\ \E q \in Nat : BYTE * Sum(d) = r + M * q
      /\ r = 0 => Sum(d) = 0
  <2>. HIDE DEF d
  <2>. QED BY <1>6, BothSums
<1>8. PICK k \in Nat : Sum(b) = F + M * k
  BY <1>3
<1>9. PICK q \in Nat : BYTE * Sum(d) = r + M * q
  BY <1>7
<1>. HIDE DEF c, d, r, M, F
<1>10. M * k \in Nat /\ M * q \in Nat /\ M * (k + 1) = M * k + M
  BY <1>4
<1>11. Sum(d) = M * (k + 1)
  <2>. DEFINE x == M * k
  <2>1. x \in Nat /\ Sum(b) = F + x /\ M * (k + 1) = x + M
    BY <1>8, <1>10
  <2>. HIDE DEF x
  <2>. QED BY <1>3, <1>4, <1>5, <1>6, <2>1
<1>12. Sum(d) > 0
  BY <1>4, <1>10, <1>11
<1>13. r > 0
  BY <1>7, <1>12
<1>14. r % M = 0
  <2>. DEFINE j == BYTE * (k + 1) - q
  <2>1. r = M * j
    <3>1. BYTE * (M * (k + 1)) = M * (BYTE * (k + 1))
      BY <1>4
    <3>2. M * (BYTE * (k + 1) - q) = M * (BYTE * (k + 1)) - M * q
      BY <1>4
    <3>3. BYTE * (M * (k + 1)) = r + M * q
      BY <1>9, <1>11
    <3>. DEFINE x == M * (BYTE * (k + 1))
                y == M * q
    <3>4. x = r + y /\ M * j = x - y /\ y \in Nat
      BY <1>10, <3>1, <3>2, <3>3
    <3>. HIDE DEF x, y, j
    <3>. QED BY <1>7, <3>4
  <2>2. j \in Int
    BY <1>4
  <2>. HIDE DEF j
  <2>3. j >= 0
    <3>1. CASE j <= -1
      <4>1. M * j <= -M
        BY <1>4, <2>2, <3>1
      <4>. QED BY <1>4, <1>13, <2>1, <4>1
    <3>. QED BY <2>2, <3>1
  <2>4. (M * j) % M = 0
    BY <1>4, <2>2, <2>3, Multiple
  <2>. QED BY <2>1, <2>4
<1>. QED BY <1>5, <1>13, <1>14 DEF c, d, r, M

\* Whatever the length of the buffer and its bytes.
LEMMA AllVerify == Verifies[0] /\ Verifies[1]
BY ChecksumVerifies DEF Verifies

-----------------------------------------------------------------------------
(* The socket, with the frames of any set F in its queue *)

\* What is delivered joins the queues.
LEMMA DeliveredTypes ==
  ASSUME NEW F, NEW q \in [Proc -> Seq(F)], NEW f \in F, NEW to
  PROVE  Delivered(q, f, to) \in [Proc -> Seq(F)]
<1>1. \A p \in Proc : q[p] \in Seq(F) /\ Append(q[p], f) \in Seq(F)
  OBVIOUS
<1>. QED BY <1>1 DEF Delivered

\* Going on, and closing the socket, keep the types of the place and the queue.
LEMMA GotoTypes ==
  ASSUME NEW F, SocketTypeOK(F), NEW p \in Proc, NEW l \in Pc, Goto(p, l) \/ End(p, l)
  PROVE  pc' \in [Proc -> Pc] /\ queue' \in [Proc -> Seq(F)]
<1>1. pc' \in [Proc -> Pc]
  BY DEF Goto, End, SocketTypeOK
<1>2. CASE Goto(p, l)
  BY <1>1, <1>2 DEF Goto, SocketTypeOK
<1>3. CASE End(p, l)
  <2>1. <<>> \in Seq(F)
    OBVIOUS
  <2>2. queue' = [queue EXCEPT ![p] = <<>>] /\ queue \in [Proc -> Seq(F)]
    BY <1>3 DEF End, SocketTypeOK
  <2>. QED BY <1>1, <2>1, <2>2
<1>. QED BY <1>2, <1>3

\* What a sniffer does but for receiving, and a frame of F that arrives, keep the
\* types of the socket's state.
LEMMA SocketSteps ==
  ASSUME NEW F, SocketTypeOK(F),
         \/ ArriveOf(F)
         \/ \E p \in Proc : (\E l \in Pc : OpenSocket(p, l)) \/ Sniffer(p) \/ RecvFails(p)
         \/ UNCHANGED sockVars
  PROVE  SocketTypeOK(F)'
<1>. USE PacketSocketAssumption DEF SocketTypeOK, sockVars, flagVars
<1>1. CASE ArriveOf(F)
  <2>1. PICK f \in F : queue' = Delivered(queue, f, Proc)
    BY <1>1 DEF ArriveOf
  <2>2. queue' \in [Proc -> Seq(F)]
    BY <2>1, DeliveredTypes
  <2>3. arrived' \in 0 .. MaxFrames
    BY <1>1 DEF ArriveOf
  <2>. QED BY <1>1, <2>2, <2>3 DEF ArriveOf
<1>2. ASSUME NEW p \in Proc, NEW l \in Pc, OpenSocket(p, l)
      PROVE  SocketTypeOK(F)'
  BY <1>2 DEF OpenSocket, Goto
<1>3. ASSUME NEW p \in Proc, Sniffer(p) \/ RecvFails(p)
      PROVE  SocketTypeOK(F)'
  <2>1. \E l \in Pc : Goto(p, l) \/ End(p, l)
    BY <1>3 DEF Sniffer, GetFlags, SetFlags, FlagsSet, GetIndex, Bind, RecvFails, Restore, Kill, Pc
  <2>2. pc' \in [Proc -> Pc] /\ queue' \in [Proc -> Seq(F)]
    BY <2>1, GotoTypes
  <2>3. arrived' = arrived /\ before' = before
    BY <1>3 DEF Sniffer, GetFlags, SetFlags, FlagsSet, GetIndex, Bind, RecvFails, Restore, Kill
  <2>4. promisc' \in BOOLEAN
    BY <1>3 DEF Sniffer, GetFlags, SetFlags, FlagsSet, GetIndex, Bind, RecvFails, Restore, Kill,
                RestoreFlags
  <2>5. old_ifr' \in [Proc -> BOOLEAN] /\ bound' \in [Proc -> BOOLEAN]
    <3>1. old_ifr' = old_ifr \/ old_ifr' = [old_ifr EXCEPT ![p] = promisc]
      BY <1>3 DEF Sniffer, GetFlags, SetFlags, FlagsSet, GetIndex, Bind, RecvFails, Restore, Kill
    <3>2. bound' = bound \/ bound' = [bound EXCEPT ![p] = TRUE]
      BY <1>3 DEF Sniffer, GetFlags, SetFlags, FlagsSet, GetIndex, Bind, RecvFails, Restore, Kill
    <3>. QED BY <3>1, <3>2
  <2>6. calls' \in [Proc -> SUBSET {"get", "set", "put"}]
    <3>1. calls' = calls \/ \E c \in {"get", "set", "put"} : Succeeds(p, c)
      BY <1>3 DEF Sniffer, GetFlags, SetFlags, FlagsSet, GetIndex, Bind, RecvFails, Restore, Kill,
                  RestoreFlags
    <3>2. calls \in [Proc -> SUBSET {"get", "set", "put"}]
      OBVIOUS
    <3>3. ASSUME NEW c \in {"get", "set", "put"}, Succeeds(p, c)
          PROVE  calls' \in [Proc -> SUBSET {"get", "set", "put"}]
      <4>1. calls[p] \cup {c} \in SUBSET {"get", "set", "put"}
        BY <3>2
      <4>2. calls' = [calls EXCEPT ![p] = calls[p] \cup {c}]
        BY <3>3 DEF Succeeds
      <4>. QED BY <3>2, <4>1, <4>2
    <3>. QED BY <3>1, <3>2, <3>3
  <2>7. older' \in [Proc -> SUBSET Proc]
    <3>1. older' = older \/ older' = [older EXCEPT ![p] = Holding \ {p}]
      BY <1>3 DEF Sniffer, GetFlags, SetFlags, FlagsSet, GetIndex, Bind, RecvFails, Restore, Kill
    <3>2. Holding \in SUBSET Proc
      BY DEF Holding
    <3>. QED BY <3>1, <3>2
  <2>. QED BY <2>2, <2>3, <2>4, <2>5, <2>6, <2>7
<1>4. CASE UNCHANGED sockVars
  BY <1>4
<1>. QED BY <1>1, <1>2, <1>3, <1>4

\* What is in a queue is received from it.
LEMMA ReceiveTypes ==
  ASSUME NEW F, SocketTypeOK(F), NEW p \in Proc, CanReceive(p)
  PROVE  /\ Oldest(p) \in F
         /\ [queue EXCEPT ![p] = Tail(@)] \in [Proc -> Seq(F)]
<1>1. queue \in [Proc -> Seq(F)] /\ queue[p] \in Seq(F) /\ queue[p] # <<>>
  BY DEF CanReceive, SocketTypeOK
<1>2. Head(queue[p]) \in F /\ Tail(queue[p]) \in Seq(F)
  BY <1>1
<1>. QED BY <1>1, <1>2 DEF Oldest

-----------------------------------------------------------------------------
(* The flags of the interface, for captures and modifiers alike *)

\* places before and after the flags are saved, and after they are set
Before == {"start", "address", "getflags"}
Set == {"index", "bind", "run", "restore"}
Saved == Set \cup {"setflags"}

\* nobody has saved flags he has not read
NotSaved == \A p \in Proc : pc[p] \in Before => ~old_ifr[p]

\* an interface that was promiscuous before stays so
StaysSet == before => promisc /\ \A p \in Proc : pc[p] \in Saved => old_ifr[p]

Killed == \E p \in Proc : pc[p] = "killed"

\* someone who will clear the flag, or has cleared it
Clears(places) == \E q \in Proc : pc[q] \in places /\ ~old_ifr[q]

\* Who has saved a set flag has it from somebody who was to clear it; and while
\* the flag is set somebody is to clear it, or one has before another has set it
\* for good.
SomebodyClears ==
  "restore" \notin Faults /\ ~before =>
    /\ (\E p \in Proc : old_ifr[p]) => Killed \/ Clears(Set \cup {"exited"})
    /\ promisc => \/ Killed \/ Clears(Set)
                  \/ (\E p \in Proc : old_ifr[p]) /\ Clears({"exited"})

\* what each has called, at each place
CallsMade ==
  \A p \in Proc :
    /\ pc[p] \in Before => calls[p] = {}
    /\ pc[p] \in Saved => "get" \in calls[p] /\ "put" \notin calls[p]
    /\ pc[p] \in Set => "set" \in calls[p]

\* somebody has saved clear flags before p set them and has put them back after that
Excused(p) == \E q \in older[p] : HasCleared(q)

\* Who will clear the flag while p needs it has saved its flags before p set them, or
\* after another had cleared them.
Overlap ==
  \A p, q \in Proc :
    pc[p] \in Set /\ pc[q] \in Saved /\ ~old_ifr[q] /\ q # p => q \in older[p] \/ Excused(p)

\* Who has set the flag has it set, until such a one clears it.
Listens == \A p \in Proc : pc[p] \in Set => promisc \/ Excused(p)

ListenInv == CallsMade /\ Overlap /\ Listens

FlagsInv == NotSaved /\ StaysSet /\ SomebodyClears /\ ListenInv

FlagTypes ==
  /\ pc \in [Proc -> Pc] /\ old_ifr \in [Proc -> BOOLEAN] /\ promisc \in BOOLEAN
  /\ calls \in [Proc -> SUBSET {"get", "set", "put"}] /\ older \in [Proc -> SUBSET Proc]

\* What a sniffer's step does to the flags and the place it is at: it goes on, or it
\* saves, sets or restores the flags.
GoesOn(p, l) ==
  /\ UNCHANGED <<promisc, old_ifr, calls, older>>
  /\ l \in Before => pc[p] \in Before
  /\ l \in Set => pc[p] \in Set
  /\ pc[p] \in Set => l \in Set \cup {"killed"}
  /\ l # "setflags"
Saves(p, l) ==
  /\ pc[p] = "getflags" /\ l = "setflags"
  /\ old_ifr' = [old_ifr EXCEPT ![p] = promisc] /\ Succeeds(p, "get")
  /\ UNCHANGED <<promisc, older>>
Sets(p, l) ==
  /\ pc[p] = "setflags" /\ l = "index"
  /\ promisc' = TRUE /\ Succeeds(p, "set")
  /\ older' = [older EXCEPT ![p] = Holding \ {p}]
  /\ UNCHANGED old_ifr
Restores(p, l) ==
  /\ pc[p] \in Set /\ l = "exited"
  /\ RestoreFlags(p) /\ UNCHANGED <<old_ifr, older>>

FlagStep(p, l) ==
  /\ pc[p] \notin {"exited", "killed"} /\ l \in Pc
  /\ pc' = [pc EXCEPT ![p] = l] /\ UNCHANGED before
  /\ GoesOn(p, l) \/ Saves(p, l) \/ Sets(p, l) \/ Restores(p, l)

\* The steps of a sniffer are such.
LEMMA SnifferSteps ==
  ASSUME NEW p \in Proc,
         \/ Sniffer(p) \/ RecvFails(p) \/ GetAddress(p)
         \/ OpenSocket(p, "getflags") \/ OpenSocket(p, "address")
  PROVE  \E l \in Pc : FlagStep(p, l)
<1>. USE DEF Goto, End, FlagStep, Before, Set, Pc, flagVars
<1>1. CASE GetFlags(p)
  BY <1>1 DEF GetFlags, GoesOn, Saves
<1>2. CASE SetFlags(p)
  BY <1>2 DEF SetFlags, FlagsSet, GoesOn, Sets
<1>3. CASE GetIndex(p)
  BY <1>3 DEF GetIndex, GoesOn, Restores
<1>4. CASE Bind(p)
  BY <1>4 DEF Bind, GoesOn, Restores
<1>5. CASE RecvFails(p)
  BY <1>5 DEF RecvFails, GoesOn
<1>6. CASE Restore(p)
  BY <1>6 DEF Restore, Restores
<1>7. CASE Kill(p)
  BY <1>7 DEF Kill, Open, GoesOn
<1>8. CASE OpenSocket(p, "getflags") \/ OpenSocket(p, "address")
  BY <1>8 DEF OpenSocket, GoesOn
<1>9. CASE GetAddress(p)
  BY <1>9 DEF GetAddress, GoesOn
<1>. QED BY <1>1, <1>2, <1>3, <1>4, <1>5, <1>6, <1>7, <1>8, <1>9 DEF Sniffer

\* What a step changes of the calls and the flags of its own sniffer only.
LEMMA FlagStepLocal ==
  ASSUME FlagTypes, NEW p \in Proc, NEW l \in Pc, FlagStep(p, l)
  PROVE  /\ pc'[p] = l
         /\ \A q \in Proc : q # p =>
              pc'[q] = pc[q] /\ calls'[q] = calls[q] /\ old_ifr'[q] = old_ifr[q]
                /\ older'[q] = older[q]
         /\ \A q \in Proc : calls[q] \subseteq calls'[q]
         /\ ~Sets(p, l) => older'[p] = older[p]
         /\ ~Saves(p, l) => old_ifr'[p] = old_ifr[p]
<1>1. pc'[p] = l /\ \A q \in Proc : q # p => pc'[q] = pc[q]
  BY DEF FlagStep, FlagTypes
<1>2. calls' = calls \/ \E c \in {"get", "set", "put"} : calls' = [calls EXCEPT ![p] = @ \cup {c}]
  BY DEF FlagStep, GoesOn, Saves, Sets, Restores, RestoreFlags, Succeeds
<1>3. \A q \in Proc : calls[q] \subseteq calls'[q] /\ (q # p => calls'[q] = calls[q])
  BY <1>2 DEF FlagTypes
<1>4. \A q \in Proc : q # p => old_ifr'[q] = old_ifr[q] /\ older'[q] = older[q]
  BY DEF FlagStep, GoesOn, Saves, Sets, Restores, FlagTypes
<1>5. (~Sets(p, l) => older' = older) /\ (~Saves(p, l) => old_ifr' = old_ifr)
  BY DEF FlagStep, GoesOn, Saves, Sets, Restores
<1>. QED BY <1>1, <1>3, <1>4, <1>5

\* Who is excused stays so, until it sets the flags itself.
LEMMA ExcusedStays ==
  ASSUME FlagTypes, CallsMade, NEW p \in Proc, NEW l \in Pc, FlagStep(p, l),
         NEW r \in Proc, Excused(r), r = p => ~Sets(p, l)
  PROVE  Excused(r)'
<1>1. PICK q \in older[r] : HasCleared(q)
  BY DEF Excused
<1>2. q \in Proc /\ {"set", "put"} \subseteq calls[q] /\ ~old_ifr[q]
  BY <1>1 DEF HasCleared, FlagTypes
<1>3. older'[r] = older[r] /\ calls[q] \subseteq calls'[q]
  BY <1>2, FlagStepLocal
<1>4. ~old_ifr'[q]
  <2>1. CASE q = p
    <3>1. pc[p] # "getflags"
      BY <1>2, <2>1 DEF CallsMade, Before
    <3>. QED BY <1>2, <2>1, <3>1, FlagStepLocal DEF Saves
  <2>. QED BY <1>2, <2>1, FlagStepLocal
<1>. QED BY <1>1, <1>2, <1>3, <1>4 DEF Excused, HasCleared

\* What has been called at each place, after a step.
LEMMA CallsStep ==
  ASSUME FlagTypes, CallsMade, NEW p \in Proc, NEW l \in Pc, FlagStep(p, l)
  PROVE  CallsMade'
<1>. SUFFICES ASSUME NEW q \in Proc
              PROVE  /\ pc'[q] \in Before => calls'[q] = {}
                     /\ pc'[q] \in Saved => "get" \in calls'[q] /\ "put" \notin calls'[q]
                     /\ pc'[q] \in Set => "set" \in calls'[q]
  BY DEF CallsMade
<1>1. /\ pc[q] \in Before => calls[q] = {}
      /\ pc[q] \in Saved => "get" \in calls[q] /\ "put" \notin calls[q]
      /\ pc[q] \in Set => "set" \in calls[q]
  BY DEF CallsMade
<1>2. CASE q # p
  BY <1>1, <1>2, FlagStepLocal
<1>3. CASE q = p
  <2>1. pc'[q] = l
    BY <1>3, FlagStepLocal
  <2>2. CASE GoesOn(p, l)
    BY <1>1, <1>3, <2>1, <2>2 DEF GoesOn, Saved
  <2>3. CASE Saves(p, l)
    <3>1. calls'[q] = calls[q] \cup {"get"} /\ calls[q] = {} /\ l = "setflags"
      BY <1>1, <1>3, <2>3 DEF Saves, Succeeds, FlagTypes, Before
    <3>. QED BY <2>1, <3>1 DEF Before, Set, Saved
  <2>4. CASE Sets(p, l)
    <3>1. calls'[q] = calls[q] \cup {"set"} /\ l = "index" /\ pc[q] \in Saved
      BY <1>3, <2>4 DEF Sets, Succeeds, FlagTypes, Saved
    <3>. QED BY <1>1, <2>1, <3>1 DEF Before, Set, Saved
  <2>5. CASE Restores(p, l)
    BY <2>1, <2>5 DEF Restores, Before, Set, Saved
  <2>. QED BY <2>2, <2>3, <2>4, <2>5 DEF FlagStep
<1>. QED BY <1>2, <1>3

\* Who clears the flag after p has set it had saved its flags before, or another has
\* cleared it already.
LEMMA OverlapStep ==
  ASSUME FlagTypes, ListenInv, NEW p \in Proc, NEW l \in Pc, FlagStep(p, l)
  PROVE  Overlap'
<1>. SUFFICES ASSUME NEW r \in Proc, NEW q \in Proc, pc'[r] \in Set, pc'[q] \in Saved,
                     ~old_ifr'[q], q # r, ~Excused(r)'
              PROVE  q \in older'[r]
  BY DEF Overlap
<1>1. CallsMade /\ Overlap /\ Listens
  BY DEF ListenInv
<1>2. CASE r = p /\ Sets(p, l)
  <2>1. older'[r] = Holding \ {p} /\ pc'[q] = pc[q]
    BY <1>2, FlagStepLocal DEF Sets, FlagTypes
  <2>2. q \in Holding
    BY <1>1, <2>1 DEF CallsMade, Holding
  <2>. QED BY <1>2, <2>1, <2>2
<1>3. CASE ~(r = p /\ Sets(p, l))
  <2>1. older'[r] = older[r]
    BY <1>3, FlagStepLocal
  <2>2. ~Excused(r)
    BY <1>1, <1>3, ExcusedStays
  <2>3. pc[r] \in Set
    <3>1. CASE r # p
      BY <3>1, FlagStepLocal
    <3>2. CASE r = p
      <4>1. l \in Set /\ ~Sets(p, l)
        BY <1>3, <3>2, FlagStepLocal
      <4>. QED BY <3>2, <4>1 DEF FlagStep, GoesOn, Saves, Restores, Set
    <3>. QED BY <3>1, <3>2
  <2>4. CASE q = p /\ Saves(p, l)
    <3>1. old_ifr'[q] = promisc
      BY <2>4 DEF Saves, FlagTypes
    <3>2. promisc
      BY <1>1, <2>2, <2>3 DEF Listens
    <3>. QED BY <3>1, <3>2
  <2>5. CASE ~(q = p /\ Saves(p, l))
    <3>1. old_ifr'[q] = old_ifr[q]
      BY <2>5, FlagStepLocal
    <3>2. pc[q] \in Saved
      <4>1. CASE q # p
        BY <4>1, FlagStepLocal
      <4>2. CASE q = p
        <5>1. l \in Saved /\ ~Saves(p, l)
          BY <2>5, <4>2, FlagStepLocal
        <5>. QED BY <4>2, <5>1 DEF FlagStep, GoesOn, Sets, Restores, Set, Saved
      <4>. QED BY <4>1, <4>2
    <3>3. q \in older[r]
      BY <1>1, <2>2, <2>3, <3>1, <3>2 DEF Overlap
    <3>. QED BY <2>1, <3>3
  <2>. QED BY <2>4, <2>5
<1>. QED BY <1>2, <1>3

\* Who has set the flag has it set, or is excused.
LEMMA ListenStep ==
  ASSUME FlagTypes, ListenInv, NEW p \in Proc, NEW l \in Pc, FlagStep(p, l)
  PROVE  ListenInv'
<1>1. CallsMade /\ Overlap /\ Listens
  BY DEF ListenInv
<1>2. CallsMade' /\ Overlap'
  BY <1>1, CallsStep, OverlapStep
<1>3. ASSUME NEW r \in Proc, pc'[r] \in Set, ~promisc' PROVE Excused(r)'
  <2>1. ~Sets(p, l)
    BY <1>3 DEF Sets
  <2>2. pc[r] \in Set
    <3>1. CASE r # p
      BY <1>3, <3>1, FlagStepLocal
    <3>2. CASE r = p
      <4>1. l \in Set
        BY <1>3, <3>2, FlagStepLocal
      <4>. QED BY <2>1, <3>2, <4>1 DEF FlagStep, GoesOn, Saves, Restores, Set
    <3>. QED BY <3>1, <3>2
  <2>3. CASE Excused(r)
    BY <1>1, <2>1, <2>3, ExcusedStays
  <2>4. CASE ~Excused(r)
    <3>1. promisc
      BY <1>1, <2>2, <2>4 DEF Listens
    <3>2. Restores(p, l) /\ promisc' = old_ifr[p] /\ Succeeds(p, "put")
      BY <1>3, <2>1, <3>1 DEF FlagStep, GoesOn, Saves, Restores, RestoreFlags
    <3>3. pc[p] \in Set /\ pc'[p] = "exited" /\ old_ifr' = old_ifr /\ older' = older
      BY <3>2, FlagStepLocal DEF Restores
    <3>4. r # p
      BY <1>3, <3>3 DEF Set
    <3>5. p \in older[r]
      BY <1>1, <1>3, <2>2, <2>4, <3>2, <3>3, <3>4 DEF Overlap, Saved
    <3>6. {"set", "put"} \subseteq calls'[p]
      <4>1. calls'[p] = calls[p] \cup {"put"} /\ "set" \in calls[p]
        BY <1>1, <3>2, <3>3 DEF Succeeds, FlagTypes, CallsMade
      <4>. QED BY <4>1
    <3>. QED BY <1>3, <3>2, <3>3, <3>5, <3>6 DEF Excused, HasCleared
  <2>. QED BY <2>3, <2>4
<1>4. Listens'
  BY <1>3 DEF Listens
<1>. QED BY <1>2, <1>4 DEF ListenInv

\* Whatever the sniffers do with the flags, in any order, keeps the invariant.
LEMMA FlagStepInv ==
  ASSUME FlagsInv, FlagTypes, NEW p \in Proc, NEW l \in Pc, FlagStep(p, l)
  PROVE  FlagsInv'
<1>1. /\ pc'[p] = l /\ \A q \in Proc : q # p => pc'[q] = pc[q]
      /\ pc[p] \notin {"exited", "killed"}
      /\ before' = before
  BY DEF FlagStep, FlagTypes
<1>2. Killed => Killed'
  BY <1>1 DEF Killed
<1>3. NotSaved /\ StaysSet /\ SomebodyClears /\ old_ifr \in [Proc -> BOOLEAN] /\ promisc \in BOOLEAN
  BY DEF FlagsInv, FlagTypes
<1>. DEFINE Rest == NotSaved /\ StaysSet /\ SomebodyClears
<1>4. ASSUME GoesOn(p, l) PROVE Rest'
  <2>1. UNCHANGED <<promisc, old_ifr>>
    BY <1>4 DEF GoesOn
  <2>2. Clears(Set) => Clears(Set)' \/ Killed'
    BY <1>1, <1>4 DEF Clears, Killed, GoesOn
  <2>3. Clears({"exited"}) => Clears({"exited"})'
    BY <1>1, <2>1 DEF Clears
  <2>4. Clears(Set \cup {"exited"}) => Clears(Set \cup {"exited"})' \/ Killed'
    BY <2>2, <2>3 DEF Clears
  <2>5. NotSaved'
    BY <1>1, <1>3, <1>4 DEF NotSaved, GoesOn
  <2>6. StaysSet'
    BY <1>1, <1>3, <1>4 DEF StaysSet, Saved, GoesOn
  <2>7. SomebodyClears'
    BY <1>1, <1>2, <1>3, <2>1, <2>2, <2>3, <2>4 DEF SomebodyClears
  <2>. QED BY <2>5, <2>6, <2>7
<1>5. ASSUME Saves(p, l) PROVE Rest'
  <2>1. /\ promisc' = promisc /\ pc[p] = "getflags" /\ l = "setflags"
        /\ old_ifr'[p] = promisc /\ \A q \in Proc : q # p => old_ifr'[q] = old_ifr[q]
    BY <1>3, <1>5 DEF Saves
  <2>2. ~old_ifr[p]
    BY <1>3, <2>1 DEF NotSaved, Before
  <2>3. /\ Clears(Set) => Clears(Set)'
        /\ Clears({"exited"}) => Clears({"exited"})'
        /\ Clears(Set \cup {"exited"}) => Clears(Set \cup {"exited"})'
        /\ Clears(Set) \/ Clears({"exited"}) => Clears(Set \cup {"exited"})
    BY <1>1, <2>1 DEF Clears, Set
  <2>4. (\E q \in Proc : old_ifr[q]) => \E q \in Proc : old_ifr'[q]
    BY <2>1, <2>2
  <2>5. (\E q \in Proc : old_ifr'[q]) => (\E q \in Proc : old_ifr[q]) \/ promisc
    BY <2>1
  <2>6. NotSaved'
    BY <1>1, <1>3, <2>1 DEF NotSaved, Before
  <2>7. StaysSet'
    BY <1>1, <1>3, <2>1 DEF StaysSet
  <2>8. SomebodyClears'
    BY <1>1, <1>2, <1>3, <2>1, <2>3, <2>4, <2>5 DEF SomebodyClears
  <2>. QED BY <2>6, <2>7, <2>8
<1>6. ASSUME Sets(p, l) PROVE Rest'
  <2>1. promisc' = TRUE /\ old_ifr' = old_ifr /\ pc[p] = "setflags" /\ l = "index"
    BY <1>6 DEF Sets
  <2>2. /\ Clears(Set) => Clears(Set)'
        /\ Clears({"exited"}) => Clears({"exited"})'
        /\ Clears(Set \cup {"exited"}) => Clears(Set \cup {"exited"})'
        /\ Clears(Set \cup {"exited"}) => Clears(Set) \/ Clears({"exited"})
    BY <1>1, <2>1 DEF Clears, Set
  <2>3. ~old_ifr[p] => Clears(Set)'
    BY <1>1, <2>1 DEF Clears, Set
  <2>4. NotSaved'
    BY <1>1, <1>3, <2>1 DEF NotSaved, Before
  <2>5. StaysSet'
    BY <1>1, <1>3, <2>1 DEF StaysSet, Saved, Set
  <2>6. SomebodyClears'
    BY <1>1, <1>2, <1>3, <2>1, <2>2, <2>3 DEF SomebodyClears
  <2>. QED BY <2>4, <2>5, <2>6
<1>7. ASSUME Restores(p, l) PROVE Rest'
  <2>1. /\ old_ifr' = old_ifr /\ pc[p] \in Set /\ l = "exited"
        /\ promisc' = old_ifr[p] \/ ("restore" \in Faults /\ promisc' = promisc)
    BY <1>7 DEF Restores, RestoreFlags
  <2>2. /\ Clears({"exited"}) => Clears({"exited"})'
        /\ Clears(Set \cup {"exited"}) => Clears(Set \cup {"exited"})'
        /\ Clears(Set \cup {"exited"}) => Clears(Set) \/ Clears({"exited"})
        /\ ~old_ifr[p] => Clears({"exited"})'
    BY <1>1, <2>1 DEF Clears, Set
  <2>3. Clears(Set) /\ old_ifr[p] => Clears(Set)'
    BY <1>1, <2>1 DEF Clears
  <2>4. NotSaved'
    BY <1>1, <1>3, <2>1 DEF NotSaved, Before
  <2>5. StaysSet'
    <3>1. before => promisc /\ old_ifr[p]
      BY <1>3, <2>1 DEF StaysSet, Saved
    <3>2. promisc' = promisc => (before => promisc')
      BY <3>1
    <3>3. promisc' = old_ifr[p] => (before => promisc')
      BY <3>1
    <3>4. before => \A q \in Proc : pc'[q] \in Saved => old_ifr[q]
      BY <1>1, <1>3, <2>1 DEF StaysSet, Saved, Set
    <3>5. before' => promisc'
      BY <1>1, <2>1, <3>2, <3>3
    <3>. QED BY <1>1, <2>1, <3>4, <3>5 DEF StaysSet
  <2>6. SomebodyClears'
    BY <1>1, <1>2, <1>3, <2>1, <2>2, <2>3 DEF SomebodyClears
  <2>. QED BY <2>4, <2>5, <2>6
<1>8. Rest'
  <2>. HIDE DEF Rest
  <2>. QED BY <1>4, <1>5, <1>6, <1>7 DEF FlagStep
<1>9. ListenInv'
  BY ListenStep DEF FlagsInv
<1>. QED BY <1>8, <1>9 DEF FlagsInv

\* The flags are the saved ones, or were not set, before anything happens; and who
\* neither touches them nor moves changes nothing.
LEMMA FlagsInit ==
  ASSUME NEW F, SocketInit
  PROVE  SocketTypeOK(F) /\ FlagsInv
<1>1. <<>> \in Seq(F)
  OBVIOUS
<1>2. SocketTypeOK(F)
  BY <1>1, PacketSocketAssumption DEF SocketInit, SocketTypeOK, Pc
<1>3. ListenInv
  BY DEF SocketInit, ListenInv, CallsMade, Overlap, Listens, Before, Set, Saved
<1>. QED BY <1>2, <1>3 DEF SocketInit, SocketTypeOK, FlagsInv, NotSaved, StaysSet,
                     SomebodyClears, Set, Saved

LEMMA FlagsUntouched ==
  ASSUME FlagsInv, UNCHANGED <<flagVars, pc>>
  PROVE  FlagsInv'
<1>. USE DEF flagVars
<1>1. (NotSaved /\ StaysSet /\ SomebodyClears)'
  BY DEF FlagsInv, NotSaved, StaysSet, SomebodyClears, Killed, Clears
<1>2. ListenInv'
  BY DEF FlagsInv, ListenInv, CallsMade, Overlap, Listens, Excused, HasCleared
<1>. QED BY <1>1, <1>2 DEF FlagsInv

\* What the invariant says when all have ended, and while one is receiving.
LEMMA FlagsAtEnd ==
  ASSUME NEW F, SocketTypeOK(F), FlagsInv
  PROVE  FlagsRestoredAlone /\ ListensWhileRunning
<1>1. FlagsRestoredAlone
  <2>. SUFFICES ASSUME Over, promisc # before, "restore" \notin Faults
                PROVE  \/ \E p \in Proc : pc[p] = "killed"
                       \/ \E p, q \in Proc : old_ifr[p] /\ ~old_ifr[q] /\ pc[q] = "exited"
    BY DEF FlagsRestoredAlone
  <2>1. promisc /\ ~before
    BY DEF FlagsInv, StaysSet, SocketTypeOK
  <2>2. ~Clears(Set)
    BY DEF Over, Clears, Set
  <2>3. Killed \/ ((\E p \in Proc : old_ifr[p]) /\ Clears({"exited"}))
    BY <2>1, <2>2 DEF FlagsInv, SomebodyClears
  <2>. QED BY <2>3 DEF Killed, Clears
<1>2. ListensWhileRunning
  BY DEF FlagsInv, ListenInv, Listens, ListensWhileRunning, Excused, Set
<1>. QED BY <1>1, <1>2

-----------------------------------------------------------------------------
(* The capture: the flags *)

\* The types of the socket and the invariant of the flags hold in every state.
LEMMA CaptureFlags == CaptureSpec => [](SocketTypeOK(Traffic) /\ FlagsInv)
<1>1. CaptureInit => SocketTypeOK(Traffic) /\ FlagsInv
  BY FlagsInit DEF CaptureInit
<1>2. ASSUME SocketTypeOK(Traffic), FlagsInv, [CaptureNext]_<<sockVars, captureVars>>
      PROVE  (SocketTypeOK(Traffic) /\ FlagsInv)'
  <2>1. ASSUME NEW p \in Proc, Setup(p) \/ Sniffer(p)
        PROVE  (SocketTypeOK(Traffic) /\ FlagsInv)'
    <3>1. SocketTypeOK(Traffic)'
      <4>1. CASE GetAddress(p)
        <5>1. pc' \in [Proc -> Pc] /\ queue' \in [Proc -> Seq(Traffic)]
          <6>1. Goto(p, "getflags") \/ End(p, "exited")
            BY <4>1 DEF GetAddress
          <6>2. "getflags" \in Pc /\ "exited" \in Pc
            BY DEF Pc
          <6>. QED BY <1>2, <6>1, <6>2, GotoTypes
        <5>. QED BY <1>2, <4>1, <5>1 DEF GetAddress, SocketTypeOK, flagVars
      <4>2. CASE OpenSocket(p, "address") \/ Sniffer(p)
        <5>1. "address" \in Pc
          BY DEF Pc
        <5>. QED BY <1>2, <4>2, <5>1, SocketSteps
      <4>. QED BY <2>1, <4>1, <4>2 DEF Setup
    <3>2. PICK l \in Pc : FlagStep(p, l)
      BY <2>1, SnifferSteps DEF Setup
    <3>3. FlagTypes
      BY <1>2 DEF SocketTypeOK, FlagTypes
    <3>. QED BY <1>2, <3>1, <3>2, <3>3, FlagStepInv
  <2>2. CASE ArriveOf(Traffic)
    <3>1. SocketTypeOK(Traffic)'
      BY <1>2, <2>2, SocketSteps
    <3>. QED BY <1>2, <2>2, <3>1, FlagsUntouched DEF ArriveOf
  <2>3. ASSUME NEW p \in Proc, NEW f \in Traffic, recvfrom(p, f)
        PROVE  (SocketTypeOK(Traffic) /\ FlagsInv)'
    <3>1. queue' \in [Proc -> Seq(Traffic)]
      BY <1>2, <2>3, ReceiveTypes DEF recvfrom
    <3>2. UNCHANGED <<flagVars, pc, bound, arrived>>
      BY <2>3 DEF recvfrom
    <3>3. SocketTypeOK(Traffic)'
      BY <1>2, <3>1, <3>2 DEF SocketTypeOK, flagVars
    <3>. QED BY <1>2, <3>2, <3>3, FlagsUntouched
  <2>4. ASSUME NEW p \in Proc, LoopEnds(p)
        PROVE  (SocketTypeOK(Traffic) /\ FlagsInv)'
    <3>1. Goto(p, "restore") /\ UNCHANGED <<flagVars, bound, arrived>>
          /\ pc[p] = "run"
      BY <2>4 DEF LoopEnds
    <3>2. pc' \in [Proc -> Pc] /\ queue' \in [Proc -> Seq(Traffic)] /\ "restore" \in Pc
      BY <1>2, <3>1, GotoTypes DEF Pc
    <3>3. SocketTypeOK(Traffic)'
      BY <1>2, <3>1, <3>2 DEF SocketTypeOK, flagVars
    <3>4. FlagStep(p, "restore")
      BY <3>1, <3>2 DEF FlagStep, GoesOn, Goto, Before, Set, flagVars
    <3>5. FlagTypes
      BY <1>2 DEF SocketTypeOK, FlagTypes
    <3>. QED BY <1>2, <3>2, <3>3, <3>4, <3>5, FlagStepInv
  <2>5. CASE UNCHANGED sockVars
    BY <1>2, <2>5, SocketSteps, FlagsUntouched DEF sockVars
  <2>6. ASSUME NEW p \in Proc, RecvFails(p)
        PROVE  (SocketTypeOK(Traffic) /\ FlagsInv)'
    <3>1. SocketTypeOK(Traffic)'
      BY <1>2, <2>6, SocketSteps
    <3>2. PICK l \in Pc : FlagStep(p, l)
      BY <2>6, SnifferSteps
    <3>3. FlagTypes
      BY <1>2 DEF SocketTypeOK, FlagTypes
    <3>. QED BY <1>2, <3>1, <3>2, <3>3, FlagStepInv
  <2>. QED BY <1>2, <2>1, <2>2, <2>3, <2>4, <2>5, <2>6
           DEF CaptureNext, run_mode1, run_mode23, recvfrom_fails
<1>. QED BY <1>1, <1>2, PTL DEF CaptureSpec

\* When all captures have ended, on every error path, the interface has the flags it
\* had before, unless one was killed, the restoring call failed, or one took for the
\* flags to restore what another had set.
THEOREM CaptureRestoresFlags == CaptureSpec => []FlagsRestoredAlone
<1>1. SocketTypeOK(Traffic) /\ FlagsInv => FlagsRestoredAlone /\ ListensWhileRunning
  BY FlagsAtEnd
<1>. QED BY <1>1, CaptureFlags, PTL

\* A capture that is receiving has the interface in promiscuous mode, unless
\* another saved its flags before this one set them and put them back after that, having
\* set them itself.
THEOREM CaptureListens == CaptureSpec => []ListensWhileRunning
<1>1. SocketTypeOK(Traffic) /\ FlagsInv => FlagsRestoredAlone /\ ListensWhileRunning
  BY FlagsAtEnd
<1>. QED BY <1>1, CaptureFlags, PTL

-----------------------------------------------------------------------------
(* The capture: what it counts *)

CaptureTypes ==
  /\ i \in [Proc -> Nat]
  /\ buffer \in [Proc -> Protos]
  /\ count \in [Proc -> [Counter -> Nat]]
  /\ got \in [Proc -> Seq(Traffic)]
  /\ failed \in [Proc -> BOOLEAN]

\* CountsAreOfFrames, of the sniffer p
CountedKinds(p) ==
  \A k \in Counter :
    count[p][k] \in Received(p, OfKind(k)) ..
      Received(p, OfKind(k)) + (IF k \in Protos THEN Received(p, CutOff) ELSE 0)
Totals(p) ==
  /\ Received(p, Traffic) =
       count[p]["ipv4"] + count[p]["arp"] + count[p]["rarp"] + count[p]["eth_others"]
         + Received(p, Short)
  /\ count[p]["ipv4"] = count[p]["tcp"] + count[p]["udp"] + count[p]["icmp"] + count[p]["igmp"]
                          + count[p]["ip_others"]

\* after the loop
Ended == {"restore", "exited", "killed"}

\* the loop receives a frame each time round, and ends after PACKET_NUM of them or by
\* an error before that
Loop(p) ==
  /\ i[p] = Received(p, Traffic) /\ i[p] <= PACKET_NUM
  /\ pc[p] \notin Ended => ~failed[p]
  /\ pc[p] = "restore" => (failed[p] => i[p] < PACKET_NUM) /\ (~failed[p] => i[p] = PACKET_NUM)

CaptureInv ==
  /\ CaptureTypes
  /\ \A p \in Proc : mode[p] = "mode1" => CountedKinds(p) /\ Totals(p) /\ Loop(p)

-----------------------------------------------------------------------------
(* Counting what was received *)

\* the places of a sequence that hold one of V
Places(s, V) == {n \in DOMAIN s : s[n] \in V}

\* Places can be counted.
LEMMA PlacesFinite ==
  ASSUME NEW T, NEW s \in Seq(T), NEW V
  PROVE  IsFiniteSet(Places(s, V)) /\ Cardinality(Places(s, V)) \in Nat
<1>1. Len(s) \in Nat /\ DOMAIN s = 1 .. Len(s)
  OBVIOUS
<1>2. IsFiniteSet(1 .. Len(s))
  BY <1>1, FS_Interval
<1>3. Places(s, V) \in SUBSET (1 .. Len(s))
  BY <1>1 DEF Places
<1>4. IsFiniteSet(Places(s, V))
  BY <1>2, <1>3, FS_Subset
<1>. QED BY <1>4, FS_CardinalityType

\* One more element is in one more place, or in none.
LEMMA PlacesOfAppend ==
  ASSUME NEW T, NEW s \in Seq(T), NEW x \in T, NEW V
  PROVE  Cardinality(Places(Append(s, x), V))
           = Cardinality(Places(s, V)) + (IF x \in V THEN 1 ELSE 0)
<1>1. /\ Len(s) \in Nat /\ DOMAIN s = 1 .. Len(s)
      /\ DOMAIN Append(s, x) = 1 .. Len(s) + 1
      /\ \A n \in 1 .. Len(s) : Append(s, x)[n] = s[n]
      /\ Append(s, x)[Len(s) + 1] = x
  OBVIOUS
<1>2. IsFiniteSet(Places(s, V)) /\ Cardinality(Places(s, V)) \in Nat
  BY PlacesFinite
<1>3. CASE x \in V
  <2>1. Places(Append(s, x), V) = Places(s, V) \cup {Len(s) + 1}
    BY <1>1, <1>3 DEF Places
  <2>2. Len(s) + 1 \notin Places(s, V)
    BY <1>1 DEF Places
  <2>. QED BY <1>2, <1>3, <2>1, <2>2, FS_AddElement
<1>4. CASE x \notin V
  <2>1. Places(Append(s, x), V) = Places(s, V)
    BY <1>1, <1>4 DEF Places
  <2>. QED BY <1>2, <1>4, <2>1
<1>. QED BY <1>3, <1>4

\* What was received can be counted.
LEMMA ReceivedNat ==
  ASSUME CaptureTypes, NEW p \in Proc, NEW F
  PROVE  Received(p, F) \in Nat
<1>1. got[p] \in Seq(Traffic) /\ Received(p, F) = Cardinality(Places(got[p], F))
  BY DEF CaptureTypes, Received, Places
<1>. QED BY <1>1, PlacesFinite

\* A received frame is one more of the sets it is in.
LEMMA OneMoreReceived ==
  ASSUME CaptureTypes, NEW p \in Proc, NEW f \in Traffic, recvfrom(p, f), NEW F
  PROVE  Received(p, F)' = Received(p, F) + (IF f \in F THEN 1 ELSE 0)
<1>1. got[p] \in Seq(Traffic) /\ got'[p] = Append(got[p], f)
  BY DEF CaptureTypes, recvfrom
<1>2. /\ Received(p, F) = Cardinality(Places(got[p], F))
      /\ Received(p, F)' = Cardinality(Places(got'[p], F))
  BY DEF Received, Places
<1>3. PICK s \in Seq(Traffic) : s = got[p]
  BY <1>1
<1>4. Cardinality(Places(Append(s, f), F))
        = Cardinality(Places(s, F)) + (IF f \in F THEN 1 ELSE 0)
  BY PlacesOfAppend
<1>. QED BY <1>1, <1>2, <1>3, <1>4

\* The other sniffers have received what they had.
LEMMA OthersReceived ==
  ASSUME CaptureTypes, NEW p, NEW f, recvfrom(p, f), NEW q \in Proc, q # p, NEW F
  PROVE  Received(q, F)' = Received(q, F)
<1>1. got'[q] = got[q]
  BY DEF CaptureTypes, recvfrom
<1>. QED BY <1>1 DEF Received

-----------------------------------------------------------------------------
(* One frame in the statistics *)

\* The byte at the place of the protocol is always one of the protocols.
LEMMA BufferIsProto ==
  ASSUME CaptureTypes, NEW p \in Proc, NEW f \in Traffic, recvfrom(p, f)
  PROVE  /\ buffer' \in [Proc -> Protos]
         /\ f.len >= 2 => buffer'[p] = f.proto
BY CaptureAssumption DEF CaptureTypes, recvfrom

\* A frame raises the counters of its kinds, and only an IPv4 frame that is cut off
\* another one besides, of a protocol.
LEMMA RaisedOfKind ==
  ASSUME NEW f \in Traffic, NEW b \in Protos, f.len >= 2 => b = f.proto, NEW k \in Counter
  PROVE  /\ f \in OfKind(k) => k \in Raises(f, b)
         /\ k \in Raises(f, b) => f \in OfKind(k) \/ (k \in Protos /\ f \in CutOff)
<1>1. f.len \in 0 .. 3 /\ f.type \in Types /\ f.proto \in Protos
  BY CaptureAssumption
<1>2. f \in OfKind(k) <=> IsOf(f, k)
  BY DEF OfKind
<1>3. f \in CutOff <=> f.len = 1 /\ f.type = "ipv4"
  BY DEF CutOff
<1>4. IsOf(f, k) => k \in Raises(f, b)
  BY <1>1 DEF IsOf, Raises
<1>5. ASSUME k \in Raises(f, b) PROVE IsOf(f, k) \/ (k \in Protos /\ f \in CutOff)
  BY <1>1, <1>3, <1>5 DEF IsOf, Raises
<1>. QED BY <1>2, <1>4, <1>5

\* It raises one counter of the types, unless it is shorter than an Ethernet header,
\* and one of the protocols when it is an IPv4 frame.
LEMMA RaisedTotals ==
  ASSUME NEW f \in Traffic, NEW b \in Protos
  PROVE  LET up(k) == IF k \in Raises(f, b) THEN 1 ELSE 0 IN
         /\ up("ipv4") + up("arp") + up("rarp") + up("eth_others")
              + (IF f \in Short THEN 1 ELSE 0) = 1
         /\ up("ipv4") = up("tcp") + up("udp") + up("icmp") + up("igmp") + up("ip_others")
<1>. DEFINE up(k) == IF k \in Raises(f, b) THEN 1 ELSE 0
<1>1. f.len \in 0 .. 3 /\ f.type \in Types
  BY CaptureAssumption
<1>2. f \in Short <=> f.len = 0
  BY DEF Short
<1>3. CASE f.len = 0
  BY <1>2, <1>3 DEF Raises
<1>4. CASE f.len # 0 /\ f.type # "ipv4"
  <2>1. Raises(f, b) = {f.type}
    BY <1>4 DEF Raises
  <2>. QED BY <1>1, <1>2, <1>4, <2>1 DEF Types
<1>5. CASE f.len # 0 /\ f.type = "ipv4"
  <2>1. Raises(f, b) = {"ipv4", b}
    BY <1>5 DEF Raises
  <2>2. up("ipv4") = 1 /\ up("arp") = 0 /\ up("rarp") = 0 /\ up("eth_others") = 0
    BY <2>1 DEF Protos
  <2>3. up("tcp") + up("udp") + up("icmp") + up("igmp") + up("ip_others") = 1
    BY <2>1 DEF Protos
  <2>. QED BY <1>2, <1>5, <2>2, <2>3
<1>. QED BY <1>3, <1>4, <1>5

-----------------------------------------------------------------------------
(* The steps *)

\* The step that counts a frame keeps the statistics of the sniffer that takes it.
LEMMA CountingKeeps ==
  ASSUME CaptureInv, NEW p \in Proc, run_mode1(p)
  PROVE  CaptureInv'
<1>1. CaptureTypes /\ mode[p] = "mode1" /\ CountedKinds(p) /\ Totals(p) /\ Loop(p)
  BY DEF CaptureInv, run_mode1
<1>2. PICK f \in Traffic :
        /\ recvfrom(p, f)
        /\ count' = [count EXCEPT ![p] = [k \in Counter |->
             @[k] + (IF k \in Raises(f, buffer'[p]) THEN 1 ELSE 0)]]
  BY DEF run_mode1
<1>3. i' = [i EXCEPT ![p] = @ + 1] /\ mode' = mode
  BY DEF run_mode1
<1>12. pc' = pc /\ failed' = failed /\ pc[p] = "run" /\ i[p] < PACKET_NUM
  BY <1>1, <1>2 DEF recvfrom, Captures, CanReceive
<1>4. PICK b \in Protos : b = buffer'[p]
  BY <1>1, <1>2, BufferIsProto
<1>5. f.len >= 2 => b = f.proto
  BY <1>1, <1>2, <1>4, BufferIsProto
<1>. DEFINE up(k) == IF k \in Raises(f, b) THEN 1 ELSE 0
<1>6. \A k \in Counter : count'[p][k] = count[p][k] + up(k) /\ count[p][k] \in Nat
  BY <1>1, <1>2, <1>4 DEF CaptureTypes
<1>7. i'[p] = i[p] + 1 /\ i[p] \in Nat
  BY <1>1, <1>3 DEF CaptureTypes
<1>8. CaptureTypes'
  <2>1. i' \in [Proc -> Nat]
    BY <1>1, <1>3 DEF CaptureTypes
  <2>2. buffer' \in [Proc -> Protos]
    BY <1>1, <1>2, BufferIsProto
  <2>3. count' \in [Proc -> [Counter -> Nat]]
    <3>1. [k \in Counter |-> count[p][k] + up(k)] \in [Counter -> Nat]
      BY <1>6
    <3>. QED BY <1>1, <1>2, <1>4, <3>1 DEF CaptureTypes
  <2>4. got' \in [Proc -> Seq(Traffic)]
    <3>1. Append(got[p], f) \in Seq(Traffic)
      BY <1>1 DEF CaptureTypes
    <3>. QED BY <1>1, <1>2, <3>1 DEF CaptureTypes, recvfrom
  <2>. QED BY <1>1, <1>12, <2>1, <2>2, <2>3, <2>4 DEF CaptureTypes
<1>9. CountedKinds(p)'
  <2>. SUFFICES ASSUME NEW k \in Counter
                PROVE  count'[p][k] \in Received(p, OfKind(k))' ..
                         Received(p, OfKind(k))'
                           + (IF k \in Protos THEN Received(p, CutOff)' ELSE 0)
    BY DEF CountedKinds, OfKind, CutOff
  <2>1. /\ Received(p, OfKind(k))' = Received(p, OfKind(k)) + (IF f \in OfKind(k) THEN 1 ELSE 0)
        /\ Received(p, CutOff)' = Received(p, CutOff) + (IF f \in CutOff THEN 1 ELSE 0)
    BY <1>1, <1>2, OneMoreReceived
  <2>2. Received(p, OfKind(k)) \in Nat /\ Received(p, CutOff) \in Nat
    BY <1>1, ReceivedNat
  <2>3. count[p][k] \in Received(p, OfKind(k)) ..
          Received(p, OfKind(k)) + (IF k \in Protos THEN Received(p, CutOff) ELSE 0)
    BY <1>1 DEF CountedKinds
  <2>4. /\ f \in OfKind(k) => up(k) = 1
        /\ up(k) = 1 => f \in OfKind(k) \/ (k \in Protos /\ f \in CutOff)
        /\ up(k) \in {0, 1}
    BY <1>5, RaisedOfKind
  <2>. HIDE DEF up
  <2>. QED BY <1>6, <2>1, <2>2, <2>3, <2>4
<1>10. Totals(p)'
  <2>1. Received(p, Short)' = Received(p, Short) + (IF f \in Short THEN 1 ELSE 0)
    BY <1>1, <1>2, OneMoreReceived
  <2>2. Received(p, Short) \in Nat
    BY <1>1, ReceivedNat
  <2>3. /\ up("ipv4") + up("arp") + up("rarp") + up("eth_others")
             + (IF f \in Short THEN 1 ELSE 0) = 1
        /\ up("ipv4") = up("tcp") + up("udp") + up("icmp") + up("igmp") + up("ip_others")
    BY RaisedTotals
  <2>4. \A k \in Counter : up(k) \in Nat
    OBVIOUS
  <2>5. {"ipv4", "arp", "rarp", "eth_others", "tcp", "udp", "icmp", "igmp", "ip_others"}
          \subseteq Counter
    BY DEF Counter, Types, Protos
  <2>. HIDE DEF up
  <2>. DEFINE c(k) == count[p][k]
  <2>6. \A k \in Counter : c(k) \in Nat /\ count'[p][k] = c(k) + up(k)
    BY <1>6
  <2>7. Received(p, Traffic)
          = c("ipv4") + c("arp") + c("rarp") + c("eth_others") + Received(p, Short)
    BY <1>1 DEF Totals
  <2>8. c("ipv4") = c("tcp") + c("udp") + c("icmp") + c("igmp") + c("ip_others")
    BY <1>1 DEF Totals
  <2>. HIDE DEF c
  <2>11. Received(p, Traffic)' = Received(p, Traffic) + 1 /\ Received(p, Traffic) \in Nat
    BY <1>1, <1>2, OneMoreReceived, ReceivedNat
  <2>9. Received(p, Traffic)'
          = count'[p]["ipv4"] + count'[p]["arp"] + count'[p]["rarp"]
              + count'[p]["eth_others"] + Received(p, Short)'
    BY <2>1, <2>2, <2>3, <2>4, <2>5, <2>6, <2>7, <2>11
  <2>10. count'[p]["ipv4"] = count'[p]["tcp"] + count'[p]["udp"] + count'[p]["icmp"]
                              + count'[p]["igmp"] + count'[p]["ip_others"]
    BY <2>3, <2>4, <2>5, <2>6, <2>8
  <2>. QED BY <2>9, <2>10 DEF Totals, Short
<1>13. Loop(p)'
  <2>1. Received(p, Traffic)' = Received(p, Traffic) + 1
    BY <1>1, <1>2, OneMoreReceived
  <2>2. i[p] = Received(p, Traffic) /\ ~failed[p]
    BY <1>1, <1>12 DEF Loop, Ended
  <2>. QED BY <1>7, <1>12, <2>1, <2>2, CaptureAssumption DEF Loop
<1>11. ASSUME NEW q \in Proc, mode'[q] = "mode1"
       PROVE  (CountedKinds(q) /\ Totals(q) /\ Loop(q))'
  <2>1. CASE q = p
    BY <1>9, <1>10, <1>13, <2>1
  <2>2. CASE q # p
    <3>1. CountedKinds(q) /\ Totals(q) /\ Loop(q)
      BY <1>3, <1>11 DEF CaptureInv
    <3>2. count'[q] = count[q] /\ i'[q] = i[q]
      BY <1>1, <1>2, <1>3, <2>2 DEF CaptureTypes
    <3>3. \A F \in SUBSET Traffic : Received(q, F)' = Received(q, F)
      BY <1>1, <1>2, <2>2, OthersReceived
    <3>4. Short \in SUBSET Traffic /\ CutOff \in SUBSET Traffic
          /\ \A k \in Counter : OfKind(k) \in SUBSET Traffic
      BY DEF Short, CutOff, OfKind
    <3>5. CountedKinds(q)'
      <4>. SUFFICES ASSUME NEW k \in Counter
                    PROVE  count'[q][k] \in Received(q, OfKind(k))' ..
                             Received(q, OfKind(k))'
                               + (IF k \in Protos THEN Received(q, CutOff)' ELSE 0)
        BY DEF CountedKinds, OfKind, CutOff
      <4>. QED BY <3>1, <3>2, <3>3, <3>4 DEF CountedKinds
    <3>6. Totals(q)'
      BY <3>1, <3>2, <3>3, <3>4 DEF Totals, Short
    <3>7. Loop(q)'
      BY <1>12, <3>1, <3>2, <3>3 DEF Loop
    <3>. QED BY <3>5, <3>6, <3>7
  <2>. QED BY <2>1, <2>2
<1>. QED BY <1>8, <1>11 DEF CaptureInv

\* mode2 and mode3 count nothing.
LEMMA ShowingKeeps ==
  ASSUME CaptureInv, NEW p \in Proc, run_mode23(p)
  PROVE  CaptureInv'
<1>1. CaptureTypes /\ mode[p] # "mode1" /\ mode' = mode /\ i' = i /\ count' = count
  BY DEF CaptureInv, run_mode23
<1>2. PICK f \in Traffic : recvfrom(p, f)
  BY DEF run_mode23
<1>5. pc' = pc /\ failed' = failed
  BY <1>2 DEF recvfrom
<1>3. CaptureTypes'
  <2>1. buffer' \in [Proc -> Protos]
    BY <1>1, <1>2, BufferIsProto
  <2>2. Append(got[p], f) \in Seq(Traffic)
    BY <1>1 DEF CaptureTypes
  <2>3. got' \in [Proc -> Seq(Traffic)]
    BY <1>1, <1>2, <2>2 DEF CaptureTypes, recvfrom
  <2>. QED BY <1>1, <1>5, <2>1, <2>3 DEF CaptureTypes
<1>4. ASSUME NEW q \in Proc, mode'[q] = "mode1"
      PROVE  (CountedKinds(q) /\ Totals(q) /\ Loop(q))'
  <2>1. CountedKinds(q) /\ Totals(q) /\ Loop(q) /\ q # p
    BY <1>1, <1>4 DEF CaptureInv
  <2>2. got'[q] = got[q]
    BY <1>1, <1>2, <2>1 DEF CaptureTypes, recvfrom
  <2>3. CountedKinds(q)'
    BY <1>1, <2>1, <2>2 DEF CountedKinds, Received, OfKind, CutOff
  <2>4. Totals(q)'
    BY <1>1, <2>1, <2>2 DEF Totals, Received, Short
  <2>5. Loop(q)'
    BY <1>1, <1>5, <2>1, <2>2 DEF Loop, Received
  <2>. QED BY <2>3, <2>4, <2>5
<1>. QED BY <1>3, <1>4 DEF CaptureInv

\* An error of recvfrom ends the loop.
LEMMA FailingKeeps ==
  ASSUME SocketTypeOK(Traffic), CaptureInv, NEW p \in Proc, recvfrom_fails(p)
  PROVE  CaptureInv'
<1>1. CaptureTypes /\ pc \in [Proc -> Pc]
  BY DEF CaptureInv, SocketTypeOK
<1>2. /\ pc' = [pc EXCEPT ![p] = "restore"] /\ failed' = [failed EXCEPT ![p] = TRUE]
      /\ UNCHANGED <<mode, i, buffer, count, got>> /\ Captures(p)
  BY DEF recvfrom_fails, RecvFails, Goto
<1>3. CaptureTypes'
  BY <1>1, <1>2 DEF CaptureTypes
<1>4. ASSUME NEW q \in Proc, mode'[q] = "mode1"
      PROVE  (CountedKinds(q) /\ Totals(q) /\ Loop(q))'
  <2>1. CountedKinds(q) /\ Totals(q) /\ Loop(q)
    BY <1>2, <1>4 DEF CaptureInv
  <2>2. CountedKinds(q)'
    BY <1>2, <2>1 DEF CountedKinds, Received, OfKind, CutOff
  <2>3. Totals(q)'
    BY <1>2, <2>1 DEF Totals, Received, Short
  <2>4. CASE q = p
    <3>1. i[q] < PACKET_NUM
      BY <1>2, <1>4, <2>4 DEF Captures
    <3>2. pc'[q] = "restore" /\ failed'[q]
      BY <1>1, <1>2, <2>4 DEF CaptureTypes
    <3>3. Loop(q)'
      BY <1>2, <2>1, <3>1, <3>2 DEF Loop, Received, Ended
    <3>. QED BY <2>2, <2>3, <3>3
  <2>5. CASE q # p
    <3>1. pc'[q] = pc[q] /\ failed'[q] = failed[q]
      BY <1>1, <1>2, <2>5 DEF CaptureTypes
    <3>2. Loop(q)'
      BY <1>2, <2>1, <3>1 DEF Loop, Received
    <3>. QED BY <2>2, <2>3, <3>2
  <2>. QED BY <2>4, <2>5
<1>. QED BY <1>3, <1>4 DEF CaptureInv

\* Who is past the loop stays there, and gets there by its own end, an error or a signal.
LEMMA PlacesKept ==
  ASSUME SocketTypeOK(Traffic), NEW q \in Proc,
         \/ ArriveOf(Traffic) \/ UNCHANGED sockVars
         \/ \E p \in Proc : Setup(p) \/ Sniffer(p) \/ LoopEnds(p)
  PROVE  /\ pc'[q] \notin Ended => pc[q] \notin Ended
         /\ pc'[q] = "restore" => pc[q] = "restore" \/ LoopEnds(q)
<1>. USE DEF Ended
<1>1. CASE ArriveOf(Traffic) \/ UNCHANGED sockVars
  BY <1>1 DEF ArriveOf, sockVars
<1>2. ASSUME NEW p \in Proc, Setup(p) \/ Sniffer(p) \/ LoopEnds(p),
             pc' # [pc EXCEPT ![p] = "restore"] \/ ~LoopEnds(p)
      PROVE  /\ pc[p] \notin {"exited", "killed"}
             /\ \E l \in Pc \ {"restore"} :
                  /\ pc' = [pc EXCEPT ![p] = l]
                  /\ pc[p] \in Ended => l \in Ended
  BY <1>2 DEF Setup, Sniffer, OpenSocket, GetAddress, GetFlags, SetFlags, FlagsSet, GetIndex,
              Bind, Restore, Kill, LoopEnds, Goto, End, Open, Pc
<1>3. ASSUME NEW p \in Proc, Setup(p) \/ Sniffer(p) \/ LoopEnds(p)
      PROVE  /\ pc'[q] \notin Ended => pc[q] \notin Ended
             /\ pc'[q] = "restore" => pc[q] = "restore" \/ LoopEnds(q)
  <2>1. CASE pc' = [pc EXCEPT ![p] = "restore"] /\ LoopEnds(p)
    BY <2>1 DEF SocketTypeOK
  <2>2. CASE ~(pc' = [pc EXCEPT ![p] = "restore"] /\ LoopEnds(p))
    <3>1. PICK l \in Pc \ {"restore"} :
            pc' = [pc EXCEPT ![p] = l] /\ (pc[p] \in Ended => l \in Ended)
      BY <1>2, <1>3, <2>2
    <3>. QED BY <3>1 DEF SocketTypeOK
  <2>. QED BY <2>1, <2>2
<1>. QED BY <1>1, <1>3

\* The other steps count nothing, and the loop ends by itself after PACKET_NUM frames.
LEMMA OthersKeep ==
  ASSUME SocketTypeOK(Traffic), CaptureInv, UNCHANGED captureVars,
         \/ ArriveOf(Traffic) \/ UNCHANGED sockVars
         \/ \E p \in Proc : Setup(p) \/ Sniffer(p) \/ LoopEnds(p)
  PROVE  CaptureInv'
<1>1. CaptureTypes'
  BY DEF CaptureInv, CaptureTypes, captureVars
<1>2. ASSUME NEW q \in Proc, mode'[q] = "mode1"
      PROVE  (CountedKinds(q) /\ Totals(q) /\ Loop(q))'
  <2>1. CountedKinds(q) /\ Totals(q) /\ Loop(q) /\ mode[q] = "mode1"
    BY <1>2 DEF CaptureInv, captureVars
  <2>2. CountedKinds(q)'
    BY <2>1 DEF CountedKinds, Received, OfKind, CutOff, captureVars
  <2>3. Totals(q)'
    BY <2>1 DEF Totals, Received, Short, captureVars
  <2>4. /\ pc'[q] \notin Ended => pc[q] \notin Ended
        /\ pc'[q] = "restore" => pc[q] = "restore" \/ LoopEnds(q)
    BY PlacesKept
  <2>5. i[q] \in Nat /\ i'[q] = i[q] /\ failed'[q] = failed[q] /\ PACKET_NUM \in Nat
        /\ Received(q, Traffic)' = Received(q, Traffic)
    BY CaptureAssumption DEF CaptureInv, CaptureTypes, captureVars, Received
  <2>6. LoopEnds(q) => ~(i[q] < PACKET_NUM) /\ pc[q] \notin Ended
    BY <2>1 DEF LoopEnds, Captures, Ended
  <2>7. Loop(q)'
    <3>1. i'[q] = Received(q, Traffic)' /\ i'[q] <= PACKET_NUM
      BY <2>1, <2>5 DEF Loop
    <3>2. pc'[q] \notin Ended => ~failed'[q]
      BY <2>1, <2>4, <2>5 DEF Loop
    <3>3. ASSUME pc'[q] = "restore"
          PROVE  (failed'[q] => i'[q] < PACKET_NUM) /\ (~failed'[q] => i'[q] = PACKET_NUM)
      BY <2>1, <2>4, <2>5, <2>6, <3>3 DEF Loop
    <3>. QED BY <3>1, <3>2, <3>3 DEF Loop
  <2>. QED BY <2>2, <2>3, <2>7
<1>. QED BY <1>1, <1>2 DEF CaptureInv

\* At the beginning nothing has been received.
LEMMA InitCaptureInv == CaptureInit => CaptureInv
<1>. SUFFICES ASSUME CaptureInit PROVE CaptureInv
  OBVIOUS
<1>1. CaptureTypes
  BY DEF CaptureInit, CaptureTypes, Protos
<1>2. \A p \in Proc, F \in SUBSET Traffic : Received(p, F) = 0
  <2>. SUFFICES ASSUME NEW p \in Proc, NEW F \in SUBSET Traffic PROVE Received(p, F) = 0
    OBVIOUS
  <2>1. DOMAIN got[p] = {}
    BY DEF CaptureInit
  <2>. QED BY <2>1, FS_EmptySet DEF Received
<1>3. Short \in SUBSET Traffic /\ CutOff \in SUBSET Traffic
      /\ \A k \in Counter : OfKind(k) \in SUBSET Traffic
  BY DEF Short, CutOff, OfKind
<1>4. \A p \in Proc : i[p] = 0 /\ \A k \in Counter : count[p][k] = 0
  BY DEF CaptureInit
<1>5. \A p \in Proc : CountedKinds(p)
  BY <1>2, <1>3, <1>4 DEF CountedKinds
<1>6. {"ipv4", "arp", "rarp", "eth_others", "tcp", "udp", "icmp", "igmp", "ip_others"}
        \subseteq Counter
  BY DEF Counter, Types, Protos
<1>7. \A p \in Proc : Totals(p)
  BY <1>2, <1>3, <1>4, <1>6 DEF Totals
<1>8. \A p \in Proc : Loop(p)
  BY <1>2, <1>4, CaptureAssumption DEF Loop, CaptureInit, SocketInit
<1>. QED BY <1>1, <1>5, <1>7, <1>8 DEF CaptureInv

\* Every step of HW5_1.c keeps the invariant.
LEMMA NextCaptureInv ==
  SocketTypeOK(Traffic) /\ CaptureInv /\ [CaptureNext]_<<sockVars, captureVars>> => CaptureInv'
<1>. SUFFICES ASSUME SocketTypeOK(Traffic), CaptureInv, [CaptureNext]_<<sockVars, captureVars>>
              PROVE  CaptureInv'
  OBVIOUS
<1>1. CASE \/ ArriveOf(Traffic) /\ UNCHANGED captureVars
           \/ \E p \in Proc : (Setup(p) \/ Sniffer(p) \/ LoopEnds(p)) /\ UNCHANGED captureVars
  BY <1>1, OthersKeep
<1>2. CASE UNCHANGED <<sockVars, captureVars>>
  BY <1>2, OthersKeep
<1>3. CASE \E p \in Proc : run_mode1(p)
  BY <1>3, CountingKeeps
<1>4. CASE \E p \in Proc : run_mode23(p)
  BY <1>4, ShowingKeeps
<1>5. CASE \E p \in Proc : recvfrom_fails(p)
  BY <1>5, FailingKeeps
<1>. QED BY <1>1, <1>2, <1>3, <1>4, <1>5 DEF CaptureNext

\* The statistics mode1 prints are those of the frames it received: each counter is
\* the number of frames of its kind, but for IPv4 frames cut off before their
\* protocol byte, and the parts add up.  The total it prints, PACKET_NUM, is the number
\* of frames it received if no call of recvfrom failed, and more if one did.
THEOREM CountsAreFrames == CaptureSpec => []CountsAreOfFrames
<1>1. ASSUME CaptureInv PROVE CountsAreOfFrames
  <2>. SUFFICES ASSUME NEW p \in Proc, mode[p] = "mode1"
                PROVE  /\ CountedKinds(p) /\ Totals(p)
                       /\ pc[p] = "restore" =>
                            IF failed[p] THEN total_captured > Received(p, Traffic)
                            ELSE total_captured = Received(p, Traffic)
    BY DEF CountsAreOfFrames, CountedKinds, Totals
  <2>1. CountedKinds(p) /\ Totals(p) /\ Loop(p)
    BY <1>1 DEF CaptureInv
  <2>2. i[p] = Received(p, Traffic) /\ i[p] \in Nat /\ PACKET_NUM \in Nat
    BY <1>1, <2>1, CaptureAssumption DEF Loop, CaptureInv, CaptureTypes
  <2>3. pc[p] = "restore" =>
          (failed[p] => i[p] < PACKET_NUM) /\ (~failed[p] => i[p] = PACKET_NUM)
    BY <2>1 DEF Loop
  <2>. QED BY <2>1, <2>2, <2>3 DEF total_captured
<1>. QED BY <1>1, InitCaptureInv, NextCaptureInv, CaptureFlags, PTL DEF CaptureSpec

-----------------------------------------------------------------------------
(* The capture: what it shows *)

\* What is kept of each beginning of a sequence.
LEMMA KeptSteps ==
  ASSUME NEW S, NEW s \in Seq(S), NEW F
  PROVE  /\ KeptOf(s, F) \in [0 .. Len(s) -> Seq(S)]
         /\ KeptOf(s, F)[0] = <<>>
         /\ \A n \in 1 .. Len(s) :
              KeptOf(s, F)[n] = IF s[n] \in F THEN Append(KeptOf(s, F)[n - 1], s[n])
                                ELSE KeptOf(s, F)[n - 1]
<1>. DEFINE N == Len(s)
            step == [n \in 1 .. N |-> [v \in Seq(S) |->
                       IF s[n] \in F THEN Append(v, s[n]) ELSE v]]
<1>1. N \in Nat /\ \A n \in 1 .. N : s[n] \in S
  OBVIOUS
<1>2. <<>> \in Seq(S)
  OBVIOUS
<1>3. step \in [1 .. N -> [Seq(S) -> Seq(S)]]
  <2>1. \A n \in 1 .. N, v \in Seq(S) : Append(v, s[n]) \in Seq(S)
    BY <1>1
  <2>. HIDE DEF N
  <2>. QED BY <2>1
<1>4. PICK f \in [0 .. N -> Seq(S)] : Recurs(f, N, <<>>, step)
  <2>. DEFINE V == Seq(S)
              none == <<>>
  <2>. HIDE DEF N, step, V, none
  <2>1. none \in V /\ step \in [1 .. N -> [V -> V]]
    BY <1>2, <1>3 DEF V, none
  <2>2. \E f \in [0 .. N -> V] : Recurs(f, N, none, step)
    BY <1>1, <2>1, Recursion
  <2>. QED BY <2>2 DEF V, none
<1>5. ASSUME NEW n \in 0 .. N
      PROVE  f[n] = IF n = 0 THEN <<>>
                    ELSE IF s[n] \in F THEN Append(f[n - 1], s[n]) ELSE f[n - 1]
  <2>1. CASE n = 0
    BY <1>4, <2>1 DEF Recurs
  <2>2. CASE n # 0
    <3>1. n \in 1 .. N /\ f[n - 1] \in Seq(S)
      BY <1>1, <2>2
    <3>. QED BY <1>4, <2>2, <3>1 DEF Recurs
  <2>. QED BY <2>1, <2>2
<1>6. f = [n \in 0 .. N |->
             IF n = 0 THEN <<>>
             ELSE IF s[n] \in F THEN Append(f[n - 1], s[n]) ELSE f[n - 1]]
  <2>1. f = [n \in 0 .. N |-> f[n]]
    OBVIOUS
  <2>. QED BY <1>5, <2>1
<1>7. KeptOf(s, F) = [n \in 0 .. N |->
             IF n = 0 THEN <<>>
             ELSE IF s[n] \in F THEN Append(KeptOf(s, F)[n - 1], s[n])
                  ELSE KeptOf(s, F)[n - 1]]
  BY <1>6, Zenon DEF KeptOf
<1>. DEFINE h == KeptOf(s, F)
<1>8. h[0] = <<>> /\ \A n \in 1 .. N : h[n] = IF s[n] \in F THEN Append(h[n - 1], s[n]) ELSE h[n - 1]
  <2>. HIDE DEF h
  <2>1. \A n \in 0 .. N : h[n] = IF n = 0 THEN <<>>
             ELSE IF s[n] \in F THEN Append(h[n - 1], s[n]) ELSE h[n - 1]
    BY <1>7, Zenon DEF h
  <2>2. 0 \in 0 .. N /\ \A n \in 1 .. N : n \in 0 .. N /\ n # 0
    BY <1>1
  <2>. HIDE DEF N
  <2>. QED BY <2>1, <2>2, Zenon
<1>9. h \in [0 .. N -> Seq(S)]
  <2>. DEFINE P == {n \in 0 .. N : h[n] \in Seq(S)}
  <2>1. 0 \in P
    <3>. HIDE DEF h, N
    <3>1. 0 \in 0 .. N
      BY <1>1
    <3>2. h[0] \in Seq(S)
      BY <1>2, <1>8
    <3>. QED BY <3>1, <3>2
  <2>2. ASSUME NEW n \in 0 .. N, n < N, n \in P PROVE n + 1 \in P
    <3>1. n + 1 \in 1 .. N /\ (n + 1) - 1 = n /\ s[n + 1] \in S
      BY <1>1, <2>2
    <3>. HIDE DEF h
    <3>2. h[n] \in Seq(S) /\ Append(h[n], s[n + 1]) \in Seq(S)
      BY <2>2, <3>1
    <3>3. h[n + 1] = IF s[n + 1] \in F THEN Append(h[n], s[n + 1]) ELSE h[n]
      BY <1>8, <3>1
    <3>4. h[n + 1] \in Seq(S)
      BY <3>2, <3>3
    <3>. QED BY <3>1, <3>4
  <2>3. 0 .. N \subseteq P
    <3>. HIDE DEF P
    <3>. QED BY <1>1, <2>1, <2>2, Induction
  <2>4. \E g : h = [n \in 0 .. N |-> g[n]]
    <3>1. h = [n \in 0 .. N |-> h[n]]
      BY <1>7, Zenon
    <3>. QED BY <3>1
  <2>. QED BY <2>3, <2>4
<1>. QED BY <1>8, <1>9

\* One more element of a sequence.
LEMMA KeptAppend ==
  ASSUME NEW S, NEW s \in Seq(S), NEW x \in S, NEW F
  PROVE  Kept(Append(s, x), F) = IF x \in F THEN Append(Kept(s, F), x) ELSE Kept(s, F)
<1>. DEFINE t == Append(s, x)
            g == KeptOf(s, F)
            h == KeptOf(t, F)
            N == Len(s)
<1>1. t \in Seq(S) /\ N \in Nat /\ Len(t) = N + 1 /\ t[N + 1] = x /\ \A n \in 1 .. N : t[n] = s[n]
  OBVIOUS
<1>2. /\ g[0] = <<>>
      /\ \A n \in 1 .. N : g[n] = IF s[n] \in F THEN Append(g[n - 1], s[n]) ELSE g[n - 1]
  BY KeptSteps
<1>3. /\ h[0] = <<>>
      /\ \A n \in 1 .. Len(t) : h[n] = IF t[n] \in F THEN Append(h[n - 1], t[n]) ELSE h[n - 1]
  <2>. HIDE DEF t
  <2>. QED BY <1>1, KeptSteps
<1>. HIDE DEF t, g, h, N
<1>4. 0 .. N \subseteq {n \in 0 .. N : h[n] = g[n]}
  <2>. DEFINE P == {n \in 0 .. N : h[n] = g[n]}
  <2>1. 0 \in P
    BY <1>1, <1>2, <1>3
  <2>2. ASSUME NEW n \in 0 .. N, n < N, n \in P PROVE n + 1 \in P
    <3>1. n + 1 \in 1 .. N /\ n + 1 \in 1 .. Len(t) /\ (n + 1) - 1 = n
      BY <1>1, <2>2
    <3>2. h[n + 1] = g[n + 1]
      BY <1>1, <1>2, <1>3, <2>2, <3>1
    <3>. QED BY <3>1, <3>2
  <2>3. 0 .. N \subseteq P
    <3>. HIDE DEF P
    <3>. QED BY <1>1, <2>1, <2>2, Induction
  <2>. QED BY <2>3
<1>5. h[N] = g[N]
  BY <1>1, <1>4
<1>6. h[N + 1] = IF x \in F THEN Append(g[N], x) ELSE g[N]
  <2>1. N + 1 \in 1 .. Len(t) /\ (N + 1) - 1 = N
    BY <1>1
  <2>. QED BY <1>1, <1>3, <1>5, <2>1
<1>7. Kept(t, F) = h[N + 1] /\ Kept(s, F) = g[N]
  BY <1>1 DEF Kept, t, g, h, N
<1>. QED BY <1>6, <1>7 DEF t

\* Nothing is kept of nothing.
LEMMA KeptOfNothing == \A F : Kept(<<>>, F) = <<>>
<1>. SUFFICES ASSUME NEW F PROVE Kept(<<>>, F) = <<>>
  OBVIOUS
<1>1. <<>> \in Seq({}) /\ Len(<<>>) = 0
  OBVIOUS
<1>2. ASSUME NEW s \in Seq({}), s = <<>> PROVE KeptOf(s, F)[0] = <<>>
  BY KeptSteps
<1>. QED BY <1>1, <1>2 DEF Kept

\* What is shown so far, and its types.
ShownInv == shown \in [Proc -> Seq(Traffic)] /\ ShownInOrder

\* A frame that is not broken passes the checks of the loop when it is one to show,
\* and a broken one does only with what the mode is about in its bytes.
LEMMA WantedIsDue ==
  ASSUME NEW p \in Proc, NEW f \in Traffic
  PROVE  /\ f \in Sound => (Wanted(p, f) <=> f \in Due(p))
         /\ Wanted(p, f) => About(p, f)
         /\ f \in Due(p) => f \in Sound
<1>1. f.len \in 0 .. 3
  BY CaptureAssumption
<1>2. Wanted(p, f) => About(p, f)
  BY DEF Wanted, About
<1>3. About(p, f) /\ f.len = 3 => Wanted(p, f)
  BY DEF Wanted, About
<1>4. f \in Sound /\ Wanted(p, f) => f.len = 3
  BY DEF Wanted, Sound
<1>. QED BY <1>2, <1>3, <1>4 DEF Due, Sound

\* What ShownInOrder says of the sniffer p.
ShownOf(p) ==
  /\ Kept(shown[p], Sound) = Kept(got[p], Due(p))
  /\ \A n \in DOMAIN shown[p] : About(p, shown[p][n])

\* A sniffer that has received and shown nothing new shows what it should.
LEMMA ShownKept ==
  ASSUME NEW p \in Proc, ShownOf(p), mode' = mode, shown'[p] = shown[p], got'[p] = got[p]
  PROVE  ShownOf(p)'
<1>1. Due(p)' = Due(p) /\ \A f : About(p, f)' <=> About(p, f)
  BY DEF Due, About, Sound
<1>. QED BY <1>1 DEF ShownOf, Sound

\* mode1 shows nothing, and has nothing to show.
LEMMA CountingShows ==
  ASSUME CaptureTypes, ShownInv, NEW p \in Proc, run_mode1(p)
  PROVE  ShownInv'
<1>1. mode[p] = "mode1" /\ mode' = mode /\ shown' = shown
  BY DEF run_mode1
<1>2. PICK f \in Traffic : recvfrom(p, f)
  BY DEF run_mode1
<1>3. got[p] \in Seq(Traffic) /\ got' = [got EXCEPT ![p] = Append(@, f)]
      /\ got \in [Proc -> Seq(Traffic)]
  BY <1>2 DEF CaptureTypes, recvfrom
<1>4. Due(p) = {} /\ Due(p)' = {}
  BY <1>1 DEF Due, About
<1>5. ShownOf(p)'
  <2>1. ShownOf(p)
    BY DEF ShownInv, ShownInOrder, ShownOf
  <2>2. Kept(got'[p], {}) = Kept(got[p], {})
    BY <1>3, KeptAppend
  <2>3. Kept(shown'[p], Sound) = Kept(got'[p], {})
    BY <1>1, <1>4, <2>1, <2>2 DEF ShownOf
  <2>4. (\A n \in DOMAIN shown[p] : About(p, shown[p][n]))'
    BY <1>1, <2>1 DEF ShownOf, About
  <2>5. (Kept(shown[p], Sound) = Kept(got[p], Due(p)))'
    <3>1. Sound' = Sound
      BY DEF Sound
    <3>. QED BY <1>4, <2>3, <3>1
  <2>. QED BY <2>4, <2>5 DEF ShownOf
<1>6. ASSUME NEW q \in Proc PROVE ShownOf(q)'
  <2>1. CASE q = p
    BY <1>5, <2>1
  <2>2. CASE q # p
    <3>1. ShownOf(q) /\ got'[q] = got[q]
      BY <1>3, <2>2 DEF ShownInv, ShownInOrder, ShownOf
    <3>. QED BY <1>1, <1>3, <3>1, ShownKept
  <2>. QED BY <2>1, <2>2
<1>. QED BY <1>1, <1>6 DEF ShownInv, ShownInOrder, ShownOf

\* mode2 and mode3 show the frame they receive if it is one to show.
LEMMA ShowingShows ==
  ASSUME CaptureTypes, ShownInv, NEW p \in Proc, run_mode23(p)
  PROVE  ShownInv'
<1>1. PICK f \in Traffic :
        /\ recvfrom(p, f)
        /\ shown' = [shown EXCEPT ![p] = IF Wanted(p, f) THEN Append(@, f) ELSE @]
  BY DEF run_mode23
<1>2. mode' = mode /\ got' = [got EXCEPT ![p] = Append(@, f)]
  BY <1>1 DEF run_mode23, recvfrom
<1>3. /\ got \in [Proc -> Seq(Traffic)] /\ got[p] \in Seq(Traffic)
      /\ shown \in [Proc -> Seq(Traffic)] /\ shown[p] \in Seq(Traffic)
  BY DEF CaptureTypes, ShownInv
<1>4. /\ got'[p] = Append(got[p], f)
      /\ shown'[p] = IF Wanted(p, f) THEN Append(shown[p], f) ELSE shown[p]
      /\ \A q \in Proc : q # p => got'[q] = got[q] /\ shown'[q] = shown[q]
      /\ Append(shown[p], f) \in Seq(Traffic)
  BY <1>1, <1>2, <1>3
<1>5. shown' \in [Proc -> Seq(Traffic)]
  BY <1>1, <1>3, <1>4
<1>6. ShownOf(p)'
  <2>1. ShownOf(p)
    BY DEF ShownInv, ShownInOrder, ShownOf
  <2>2. Due(p)' = Due(p) /\ Sound' = Sound /\ \A g : About(p, g)' <=> About(p, g)
    BY <1>2 DEF Due, About, Sound
  <2>3. Kept(got'[p], Due(p)) = IF f \in Due(p) THEN Append(Kept(got[p], Due(p)), f)
                                ELSE Kept(got[p], Due(p))
    BY <1>3, <1>4, KeptAppend
  <2>4. Kept(Append(shown[p], f), Sound) =
          IF f \in Sound THEN Append(Kept(shown[p], Sound), f) ELSE Kept(shown[p], Sound)
    BY <1>3, KeptAppend
  <2>5. /\ f \in Sound => (Wanted(p, f) <=> f \in Due(p))
        /\ Wanted(p, f) => About(p, f)
        /\ f \in Due(p) => f \in Sound
    BY WantedIsDue
  <2>6. Kept(shown'[p], Sound) = Kept(got'[p], Due(p))
    BY <1>4, <2>1, <2>3, <2>4, <2>5 DEF ShownOf
  <2>7. ASSUME NEW n \in DOMAIN shown'[p] PROVE About(p, shown'[p][n])
    <3>1. PICK s \in Seq(Traffic) : s = shown[p]
      BY <1>3
    <3>2. /\ DOMAIN s = 1 .. Len(s) /\ Len(s) \in Nat
          /\ DOMAIN Append(s, f) = 1 .. Len(s) + 1
          /\ \A k \in 1 .. Len(s) : Append(s, f)[k] = s[k]
          /\ Append(s, f)[Len(s) + 1] = f
      OBVIOUS
    <3>3. \A k \in DOMAIN s : About(p, s[k])
      BY <2>1, <3>1 DEF ShownOf
    <3>4. CASE Wanted(p, f)
      <4>1. shown'[p] = Append(s, f) /\ About(p, f)
        BY <1>4, <2>5, <3>1, <3>4
      <4>2. CASE n = Len(s) + 1
        BY <3>2, <4>1, <4>2
      <4>3. CASE n # Len(s) + 1
        <5>1. n \in DOMAIN s /\ shown'[p][n] = s[n]
          BY <2>7, <3>2, <4>1, <4>3
        <5>. QED BY <3>3, <5>1
      <4>. QED BY <4>2, <4>3
    <3>5. CASE ~Wanted(p, f)
      BY <1>4, <2>7, <3>1, <3>3, <3>5
    <3>. QED BY <3>4, <3>5
  <2>. QED BY <1>2, <2>2, <2>6, <2>7 DEF ShownOf
<1>7. ASSUME NEW q \in Proc PROVE ShownOf(q)'
  <2>1. CASE q = p
    BY <1>6, <2>1
  <2>2. CASE q # p
    <3>1. ShownOf(q)
      BY DEF ShownInv, ShownInOrder, ShownOf
    <3>. QED BY <1>2, <1>4, <2>2, <3>1, ShownKept
  <2>. QED BY <2>1, <2>2
<1>. QED BY <1>5, <1>7 DEF ShownInv, ShownInOrder, ShownOf

\* The other steps receive and show nothing.
LEMMA OthersShow ==
  ASSUME ShownInv, UNCHANGED <<mode, shown, got>>
  PROVE  ShownInv'
<1>1. mode' = mode /\ shown' = shown /\ got' = got
  OBVIOUS
<1>2. ASSUME NEW p \in Proc PROVE ShownOf(p)'
  <2>1. ShownOf(p)
    BY DEF ShownInv, ShownInOrder, ShownOf
  <2>. QED BY <1>1, <2>1, ShownKept
<1>. QED BY <1>1, <1>2 DEF ShownInv, ShownInOrder, ShownOf

\* mode2 and mode3 show the complete frames they are about, all that were received
\* and in order, besides only broken ones.
THEOREM ShowsWhatItShould == CaptureSpec => []ShownInOrder
<1>1. CaptureInit => ShownInv
  <2>. SUFFICES ASSUME CaptureInit PROVE ShownInv
    OBVIOUS
  <2>1. \A p \in Proc : shown[p] = <<>> /\ got[p] = <<>>
    BY DEF CaptureInit
  <2>2. \A p \in Proc : ShownOf(p)
    BY <2>1, KeptOfNothing DEF ShownOf
  <2>. QED BY <2>2 DEF ShownInv, ShownInOrder, ShownOf, CaptureInit
<1>2. CaptureInv /\ ShownInv /\ [CaptureNext]_<<sockVars, captureVars>> => ShownInv'
  <2>. SUFFICES ASSUME CaptureInv, ShownInv, [CaptureNext]_<<sockVars, captureVars>>
                PROVE  ShownInv'
    OBVIOUS
  <2>1. CaptureTypes
    BY DEF CaptureInv
  <2>2. CASE \E p \in Proc : run_mode1(p)
    BY <2>1, <2>2, CountingShows
  <2>3. CASE \E p \in Proc : run_mode23(p)
    BY <2>1, <2>3, ShowingShows
  <2>4. CASE UNCHANGED captureVars \/ \E p \in Proc : recvfrom_fails(p)
    BY <2>4, OthersShow DEF captureVars, recvfrom_fails
  <2>. QED BY <2>2, <2>3, <2>4 DEF CaptureNext
<1>3. ShownInv => ShownInOrder
  BY DEF ShownInv
<1>. QED BY <1>1, <1>2, <1>3, InitCaptureInv, NextCaptureInv, CaptureFlags, PTL DEF CaptureSpec

-----------------------------------------------------------------------------
(* The modifier: its checks *)

\* The lengths in a frame are numbers.
LEMMA Lengths ==
  ASSUME NEW f \in Frame
  PROVE  /\ f.bytes \in Nat /\ f.ihl \in Nat /\ f.tot \in Nat
         /\ f.ulen \in Nat /\ f.doff \in Nat /\ f.mods \in Nat
         /\ f.bytes <= 65536 /\ f.tot < 65536
BY DEF Frame, Fields, Fits, BUFFER_SIZE

\* What the checks leave of the frames: everything the loop goes on to write and
\* to add up lies inside of what was received.
LEMMA AcceptedFits ==
  ASSUME NEW f \in Frame, Accepts(f)
  PROVE  /\ th(f) \in Nat /\ hdr_len(f) \in Nat /\ payload_len(f) \in Nat
         /\ th(f) = 14 + ip_hdr_len(f) /\ ip_hdr_len(f) \in Nat /\ ip_hdr_len(f) >= 20
         /\ hdr_len(f) >= IF f.proto = "udp" THEN 8 ELSE 20
         /\ total_len(f) = hdr_len(f) + payload_len(f)
         /\ sent_len(f) \in Nat /\ f.bytes \in Nat
         /\ th(f) + total_len(f) <= sent_len(f)
         /\ sent_len(f) <= f.bytes
         /\ 12 + total_len(f) <= 65536
<1>. USE Lengths DEF ethhdr, iphdr, udphdr, tcphdr
<1>1. /\ ip_hdr_len(f) \in Nat /\ ip_hdr_len(f) >= 20
      /\ f.tot >= ip_hdr_len(f) /\ f.bytes >= 14 + f.tot
  BY DEF Accepts, AcceptsIp, ip_hdr_len
<1>2. CASE AcceptsUdp(f)
  BY <1>1, <1>2 DEF AcceptsUdp, hdr_len, total_len, payload_len, th, sent_len
<1>3. CASE AcceptsTcp(f)
  BY <1>1, <1>3 DEF AcceptsTcp, hdr_len, total_len, payload_len, th, sent_len
<1>. QED BY <1>2, <1>3 DEF Accepts

\* An accepted frame is handled within its bounds.
LEMMA EntryInBounds ==
  ASSUME NEW f \in Frame, Accepts(f)
  PROVE  /\ Entry(f).wrote \subseteq Entry(f).summed
         /\ Entry(f).summed \subseteq 1 .. Entry(f).sent
         /\ Entry(f).sent <= Entry(f).frame.bytes
         /\ Entry(f).wrote \cap Headers(Entry(f).frame)
              = ip_check \cup th_check(Entry(f).frame)
         /\ pseudo_header + total_len(Entry(f).frame) <= BUFFER_SIZE
<1>. USE AcceptedFits
<1>1. payload(f) \subseteq th_summed(f)
  BY DEF payload, th_summed, Field
<1>2. ip_check \subseteq ip_summed(f)
  BY DEF ip_check, ip_summed, Field, ethhdr
<1>3. th_check(f) \subseteq th_summed(f)
  BY DEF th_check, th_summed, Field
<1>4. ip_summed(f) \subseteq 1 .. sent_len(f)
  BY DEF ip_summed, Field, ethhdr
<1>5. th_summed(f) \subseteq 1 .. sent_len(f)
  BY DEF th_summed, Field
<1>6. pseudo_header + total_len(f) <= BUFFER_SIZE
  BY DEF pseudo_header, BUFFER_SIZE
<1>7. ip_check \subseteq Headers(f) /\ th_check(f) \subseteq Headers(f)
  BY DEF ip_check, th_check, Headers, Field, ethhdr
<1>8. payload(f) \cap Headers(f) = {}
  BY DEF payload, Headers, Field, ethhdr
<1>. QED BY <1>1, <1>2, <1>3, <1>4, <1>5, <1>6, <1>7, <1>8 DEF Entry

-----------------------------------------------------------------------------
(* The modifier: any set F of frames that is closed under modification *)

Closed(F) ==
  /\ Frames \subseteq F
  /\ \A f \in F : Accepts(f) =>
       /\ Resent(f) \in F
       /\ Loopback => [Resent(f) EXCEPT !.out = FALSE] \in F

\* Every step keeps the types of the socket's state.
LEMMA SocketTypes ==
  ASSUME NEW F, Closed(F), SocketTypeOK(F), [Next]_vars
  PROVE  SocketTypeOK(F)'
<1>. USE DEF SocketTypeOK, sockVars
<1>1. CASE ArriveOf(Frames)
  <2>1. ArriveOf(F)
    BY <1>1 DEF ArriveOf, Closed
  <2>. QED BY <2>1, SocketSteps
<1>2. ASSUME NEW p \in Proc, OpenSocket(p, "getflags") \/ Sniffer(p) \/ RecvFails(p)
      PROVE  SocketTypeOK(F)'
  <2>1. "getflags" \in Pc
    BY DEF Pc
  <2>. QED BY <1>2, <2>1, SocketSteps
<1>3. ASSUME NEW p \in Proc, CanReceive(p)
      PROVE  /\ Oldest(p) \in F
             /\ [queue EXCEPT ![p] = Tail(@)] \in [Proc -> Seq(F)]
  BY <1>3, ReceiveTypes
<1>4. ASSUME NEW p \in Proc, Skip(p)
      PROVE  SocketTypeOK(F)'
  BY <1>3, <1>4 DEF Skip, flagVars
<1>5. ASSUME NEW p \in Proc, Modify(p)
      PROVE  SocketTypeOK(F)'
  <2>. DEFINE f == Oldest(p)
              rest == [queue EXCEPT ![p] = Tail(@)]
              seen == Delivered(rest, Resent(f), Proc \ {p})
  <2>1. CanReceive(p) /\ Accepts(f)
    BY <1>5 DEF Modify, ModifyAnd
  <2>2. f \in F /\ rest \in [Proc -> Seq(F)]
    BY <1>3, <2>1
  <2>3. Resent(f) \in F /\ (Loopback => [Resent(f) EXCEPT !.out = FALSE] \in F)
    BY <2>1, <2>2 DEF Closed
  <2>4. seen \in [Proc -> Seq(F)]
    BY <2>2, <2>3, DeliveredTypes
  <2>5. Loopback => Delivered(seen, [Resent(f) EXCEPT !.out = FALSE], Proc)
                      \in [Proc -> Seq(F)]
    BY <2>3, <2>4, DeliveredTypes
  <2>6. AfterSend(p, rest, Resent(f)) \in [Proc -> Seq(F)]
    BY <2>4, <2>5 DEF AfterSend
  <2>7. queue' \in [Proc -> Seq(F)]
    BY <1>5, <2>2, <2>6 DEF Modify, ModifyAnd
  <2>. QED BY <1>5, <2>7 DEF Modify, ModifyAnd, flagVars
<1>6. CASE UNCHANGED vars
  BY <1>6, SocketSteps DEF vars
<1>. QED BY <1>1, <1>2, <1>4, <1>5, <1>6 DEF Next

-----------------------------------------------------------------------------
(* The log *)

\* what may be logged of the frames of F
Handled(F) == {Entry(f) : f \in {g \in F : Accepts(g)}}

LogOK(F) ==
  /\ log \in [Proc -> Seq(Handled(F))]
  /\ \A p \in Proc : Len(log[p]) <= MaxLog

Inv(F) == SocketTypeOK(F) /\ LogOK(F)

\* The initial state has the types, and logs are empty.
LEMMA InitInv == ASSUME NEW F, Init PROVE Inv(F)
<1>1. <<>> \in Seq(F) /\ <<>> \in Seq(Handled(F)) /\ Len(<<>>) = 0
  OBVIOUS
<1>2. SocketTypeOK(F)
  BY FlagsInit DEF Init
<1>3. LogOK(F)
  BY <1>1, ModifierAssumption DEF Init, LogOK
<1>. QED BY <1>2, <1>3 DEF Inv

\* Every step keeps the log within what may be logged.
LEMMA StepInv ==
  ASSUME NEW F, Closed(F), Inv(F), [Next]_vars
  PROVE  Inv(F)'
<1>1. SocketTypeOK(F)'
  BY SocketTypes DEF Inv
<1>2. CASE UNCHANGED log
  BY <1>1, <1>2 DEF Inv, LogOK
<1>3. ASSUME NEW p \in Proc, Modify(p)
      PROVE  Inv(F)'
  <2>. DEFINE f == Oldest(p)
  <2>1. /\ CanReceive(p) /\ Accepts(f) /\ Len(log[p]) < MaxLog
        /\ log' = [log EXCEPT ![p] = Append(@, Entry(f))]
    BY <1>3 DEF Modify, ModifyAnd
  <2>2. queue[p] \in Seq(F) /\ queue[p] # <<>>
    BY <2>1 DEF Inv, SocketTypeOK, CanReceive
  <2>3. f \in F
    BY <2>2 DEF Oldest
  <2>4. Entry(f) \in Handled(F)
    BY <2>1, <2>3 DEF Handled
  <2>. HIDE DEF f
  <2>5. log[p] \in Seq(Handled(F)) /\ Len(log[p]) \in Nat
    BY DEF Inv, LogOK
  <2>6. /\ Append(log[p], Entry(f)) \in Seq(Handled(F))
        /\ Len(Append(log[p], Entry(f))) = Len(log[p]) + 1
    BY <2>4, <2>5
  <2>7. Len(log[p]) + 1 <= MaxLog
    BY <2>1, <2>5, ModifierAssumption
  <2>8. log' \in [Proc -> Seq(Handled(F))]
    BY <2>1, <2>6 DEF Inv, LogOK
  <2>9. \A q \in Proc : Len(log'[q]) <= MaxLog
    BY <2>1, <2>6, <2>7 DEF Inv, LogOK
  <2>. QED BY <1>1, <2>8, <2>9 DEF Inv, LogOK
<1>4. CASE UNCHANGED vars
  BY <1>2, <1>4 DEF vars
<1>. QED BY <1>2, <1>3, <1>4 DEF Next, Skip

\* A logged entry is that of an accepted frame.
LEMMA LoggedEntry ==
  ASSUME NEW F, Inv(F), NEW e \in Logged
  PROVE  \E f \in F : Accepts(f) /\ e = Entry(f)
<1>1. PICK p \in Proc : \E n \in DOMAIN log[p] : e = log[p][n]
  BY DEF Logged
<1>2. log[p] \in Seq(Handled(F))
  BY DEF Inv, LogOK
<1>3. e \in Handled(F)
  BY <1>1, <1>2
<1>. QED BY <1>3 DEF Handled

-----------------------------------------------------------------------------
(* The theorems *)

\* A frame stays one when these fields change.
LEMMA FieldChange ==
  ASSUME NEW f, f \in Fields, Fits(f), NEW n \in Nat
  PROVE  /\ [f EXCEPT !.iface = Device] \in Fields /\ Fits([f EXCEPT !.iface = Device])
         /\ \A o \in BOOLEAN : [f EXCEPT !.out = o] \in Fields /\ Fits([f EXCEPT !.out = o])
         /\ [f EXCEPT !.mods = n] \in Fields /\ Fits([f EXCEPT !.mods = n])
         /\ n <= BUFFER_SIZE =>
              [f EXCEPT !.bytes = n] \in Fields /\ Fits([f EXCEPT !.bytes = n])
<1>1. [f EXCEPT !.iface = Device] \in Fields /\ Fits([f EXCEPT !.iface = Device])
  BY DEF Fields, Fits
<1>2. \A o \in BOOLEAN : [f EXCEPT !.out = o] \in Fields /\ Fits([f EXCEPT !.out = o])
  BY DEF Fields, Fits
<1>3. [f EXCEPT !.mods = n] \in Fields
  BY DEF Fields
<1>4. Fits([f EXCEPT !.mods = n])
  BY DEF Fields, Fits
<1>5. [f EXCEPT !.bytes = n] \in Fields
  BY DEF Fields
<1>6. n <= BUFFER_SIZE => Fits([f EXCEPT !.bytes = n])
  BY DEF Fields, Fits
<1>. QED BY <1>1, <1>2, <1>3, <1>4, <1>5, <1>6

\* A frame that was modified and sent is a frame again.
LEMMA ResentIsFrame ==
  ASSUME NEW f \in Frame, Accepts(f)
  PROVE  /\ Resent(f) \in Frame
         /\ [Resent(f) EXCEPT !.out = FALSE] \in Frame
<1>1. sent_len(f) \in Nat /\ sent_len(f) <= BUFFER_SIZE
  BY AcceptedFits, Lengths DEF BUFFER_SIZE
<1>2. f.mods + 1 \in Nat
  BY Lengths
<1>. DEFINE a == [f EXCEPT !.iface = Device]
            b == [a EXCEPT !.bytes = sent_len(f)]
            c == [b EXCEPT !.out = TRUE]
            d == [c EXCEPT !.mods = f.mods + 1]
            e == [d EXCEPT !.out = FALSE]
<1>3. f \in Fields /\ Fits(f)
  BY DEF Frame
<1>4. a \in Fields /\ Fits(a)
  BY <1>3, FieldChange
<1>5. b \in Fields /\ Fits(b)
  BY <1>1, <1>4, FieldChange
<1>6. c \in Fields /\ Fits(c)
  BY <1>5, FieldChange
<1>7. d \in Fields /\ Fits(d)
  BY <1>2, <1>6, FieldChange
<1>8. e \in Fields /\ Fits(e)
  BY <1>7, FieldChange
<1>9. Resent(f) = d
  BY <1>3 DEF Resent, Fields
<1>. HIDE DEF d
<1>. QED BY <1>7, <1>8, <1>9 DEF Frame

\* The frames are closed under modification.
LEMMA FramesClosed == Closed(Frame)
BY ResentIsFrame, ModifierAssumption DEF Closed

\* Every reachable state of the modifiers is well typed: what comes back from
\* another modifier or the loopback interface is a frame with the same bounds.
THEOREM TypeCorrect == Spec => []TypeOK
<1>1. Inv(Frame) => TypeOK
  <2>. SUFFICES ASSUME Inv(Frame) PROVE TypeOK
    OBVIOUS
  <2>1. ASSUME NEW f \in Frame, Accepts(f) PROVE Entry(f) \in LogEntry
    <3>1. sent_len(f) \in Nat
      BY <2>1, AcceptedFits
    <3>2. /\ Entry(f).wrote \subseteq Entry(f).summed
          /\ Entry(f).summed \subseteq 1 .. sent_len(f)
      BY <2>1, EntryInBounds DEF Entry
    <3>3. 1 .. sent_len(f) \subseteq Nat
      BY <3>1
    <3>4. Entry(f).wrote \subseteq Nat /\ Entry(f).summed \subseteq Nat
      BY <3>2, <3>3
    <3>. QED BY <2>1, <3>1, <3>4 DEF Entry, LogEntry
  <2>2. Handled(Frame) \subseteq LogEntry
    BY <2>1 DEF Handled
  <2>3. log \in [Proc -> Seq(LogEntry)]
    BY <2>2 DEF Inv, LogOK
  <2>. QED BY <2>3 DEF Inv, LogOK, TypeOK
<1>2. Init => Inv(Frame)
  BY InitInv
<1>3. Inv(Frame) /\ [Next]_vars => Inv(Frame)'
  BY StepInv, FramesClosed
<1>. QED BY <1>1, <1>2, <1>3, PTL DEF Spec

\* Whatever the header and the length fields of a frame say, HW5_1_5.c writes only
\* what it then sends, sends only what it received, and every byte it changes is
\* under a checksum it makes anew.
THEOREM StaysInBounds == Spec => []InBounds
<1>1. Inv(Frame) => InBounds
  BY LoggedEntry, EntryInBounds DEF InBounds
<1>2. Init => Inv(Frame)
  BY InitInv
<1>3. Inv(Frame) /\ [Next]_vars => Inv(Frame)'
  BY StepInv, FramesClosed
<1>. QED BY <1>1, <1>2, <1>3, PTL DEF Spec

\* Both checksums of every packet that is sent verify at the receiver, with a byte of
\* any number of values, whatever the bytes and whether their number is even or odd.
THEOREM ChecksumsAreAccepted == Spec => []ChecksumsVerify
<1>1. TypeOK => ChecksumsVerify
  <2>. SUFFICES ASSUME TypeOK, NEW e \in Logged PROVE total_len(e.frame) % 2 \in {0, 1}
    BY AllVerify DEF ChecksumsVerify
  <2>1. PICK p \in Proc : \E n \in DOMAIN log[p] : e = log[p][n]
    BY DEF Logged
  <2>2. log[p] \in Seq(LogEntry)
    BY DEF TypeOK
  <2>3. e \in LogEntry
    BY <2>1, <2>2
  <2>4. e.frame \in Frame
    BY <2>3 DEF LogEntry
  <2>5. e.frame.ulen \in Int /\ e.frame.tot \in Int /\ e.frame.ihl \in Int
    BY <2>4, Lengths
  <2>6. total_len(e.frame) \in Int
    BY <2>5 DEF total_len, ip_hdr_len
  <2>. QED BY <2>6
<1>. QED BY <1>1, TypeCorrect, PTL

\* frames whose payload was replaced go by as outgoing ones only
Fresh == {f \in Frame : f.out \/ f.mods = 0}

\* Any number of modifiers on an interface that is not the loopback one never
\* modify a frame again that they or another one sent.
THEOREM NoFrameTwice ==
  ASSUME ~Loopback
  PROVE  Spec => []ModifiedOnce
<1>1. Closed(Fresh)
  <2>1. Frames \subseteq Fresh
    BY ModifierAssumption DEF Fresh
  <2>2. ASSUME NEW f \in Fresh, Accepts(f) PROVE Resent(f) \in Fresh
    <3>1. Resent(f) \in Frame
      BY <2>2, ResentIsFrame DEF Fresh
    <3>2. Resent(f).out = TRUE
      BY <2>2 DEF Resent, Fresh, Frame
    <3>. QED BY <3>1, <3>2 DEF Fresh
  <2>. QED BY <2>1, <2>2 DEF Closed
<1>2. Inv(Fresh) => ModifiedOnce
  <2>. SUFFICES ASSUME Inv(Fresh), NEW e \in Logged PROVE e.frame.mods = 0
    BY DEF ModifiedOnce
  <2>1. PICK f \in Fresh : Accepts(f) /\ e = Entry(f)
    BY LoggedEntry
  <2>2. ~f.out
    BY <2>1 DEF Accepts, AcceptsIp
  <2>. QED BY <2>1, <2>2 DEF Fresh, Entry
<1>3. Init => Inv(Fresh)
  BY InitInv
<1>4. Inv(Fresh) /\ [Next]_vars => Inv(Fresh)'
  BY <1>1, StepInv
<1>. QED BY <1>2, <1>3, <1>4, PTL DEF Spec

-----------------------------------------------------------------------------
(* The modifier: the flags *)

\* The types of the socket and the invariant of the flags hold in every state.
LEMMA ModifierFlags == Spec => [](SocketTypeOK(Frame) /\ FlagsInv)
<1>1. Init => SocketTypeOK(Frame) /\ FlagsInv
  BY FlagsInit DEF Init
<1>2. ASSUME SocketTypeOK(Frame), FlagsInv, [Next]_vars
      PROVE  (SocketTypeOK(Frame) /\ FlagsInv)'
  <2>1. SocketTypeOK(Frame)'
    BY <1>2, SocketTypes, FramesClosed
  <2>2. ASSUME NEW p \in Proc, Sniffer(p) \/ RecvFails(p) \/ OpenSocket(p, "getflags")
        PROVE  FlagsInv'
    <3>1. PICK l \in Pc : FlagStep(p, l)
      BY <2>2, SnifferSteps
    <3>2. FlagTypes
      BY <1>2 DEF SocketTypeOK, FlagTypes
    <3>. QED BY <1>2, <3>1, <3>2, FlagStepInv
  <2>3. CASE ArriveOf(Frames)
    <3>1. UNCHANGED <<flagVars, pc>>
      BY <2>3 DEF ArriveOf
    <3>. QED BY <1>2, <2>1, <3>1, FlagsUntouched
  <2>4. ASSUME NEW p \in Proc, Skip(p) \/ Modify(p) PROVE FlagsInv'
    <3>1. CASE Skip(p)
      <4>1. UNCHANGED <<flagVars, pc>>
        BY <3>1 DEF Skip
      <4>. QED BY <1>2, <4>1, FlagsUntouched
    <3>2. CASE Modify(p)
      <4>1. PICK done \in BOOLEAN : ModifyAnd(p, done)
        BY <3>2 DEF Modify
      <4>2. UNCHANGED <<flagVars, pc>>
        BY <4>1 DEF ModifyAnd
      <4>. QED BY <1>2, <4>2, FlagsUntouched
    <3>. QED BY <2>4, <3>1, <3>2
  <2>5. CASE UNCHANGED vars
    <3>1. UNCHANGED <<flagVars, pc>>
      BY <2>5 DEF vars, sockVars
    <3>. QED BY <1>2, <2>1, <3>1, FlagsUntouched
  <2>. QED BY <1>2, <2>1, <2>2, <2>3, <2>4, <2>5 DEF Next
<1>. QED BY <1>1, <1>2, PTL DEF Spec

\* When all modifiers have ended, on every error path, the interface has the flags it
\* had before, unless one was killed, the restoring call failed, or one took for the
\* flags to restore what another had set.
THEOREM FlagsAreRestored == Spec => []FlagsRestoredAlone
<1>1. SocketTypeOK(Frame) /\ FlagsInv => FlagsRestoredAlone /\ ListensWhileRunning
  BY FlagsAtEnd
<1>. QED BY <1>1, ModifierFlags, PTL

\* A modifier that is receiving has the interface in promiscuous mode, unless
\* another saved its flags before this one set them and put them back after that, having
\* set them itself.
THEOREM ListensUnlessCleared == Spec => []ListensWhileRunning
<1>1. SocketTypeOK(Frame) /\ FlagsInv => FlagsRestoredAlone /\ ListensWhileRunning
  BY FlagsAtEnd
<1>. QED BY <1>1, ModifierFlags, PTL

-----------------------------------------------------------------------------
(* The demonstration *)

\* Seen from the modifiers, a step of the demonstration is a step of theirs or none.
LEMMA RelayStep == [RelayNext]_<<vars, relayVars>> => [Next]_vars
<1>1. ASSUME RelayNext PROVE Next \/ UNCHANGED vars
  <2>1. CASE Sendto
    <3>1. CASE ArriveOf({packet}) /\ UNCHANGED log
      BY <3>1, UdpRelayAssumption DEF Next, ArriveOf
    <3>. QED BY <2>1, <3>1 DEF Sendto
  <2>2. CASE Listen \/ Show \/ ShowFails
    BY <2>2 DEF Listen, Show, ShowFails
  <2>3. CASE Elsewhere
    <3>1. CASE ArriveOf(Frames \ {packet}) /\ UNCHANGED log
      BY <3>1 DEF Next, ArriveOf
    <3>. QED BY <2>3, <3>1 DEF Elsewhere, Next
  <2>4. ASSUME NEW p \in Proc, NEW done \in BOOLEAN, Forward(p, done)
        PROVE  Next
    BY <2>4 DEF Forward, Next, Modify
  <2>. QED BY <1>1, <2>1, <2>2, <2>3, <2>4 DEF RelayNext
<1>. QED BY <1>1

\* With the sender and the receiver around them the modifiers behave as the
\* specification of the modifiers says, so that the theorems above hold for them.
THEOREM RelayIsModifier == RelaySpec => Spec
<1>1. RelayInit => Init
  BY DEF RelayInit
<1>. QED BY <1>1, RelayStep, PTL DEF RelaySpec, Spec

\* As long as it is not a copy, a frame in a queue that is like the packet is it.
Like == {f \in Frame : f.out \/ (IsPacket(f) => f = packet)}

Has(s) == \E n \in DOMAIN s : s[n] = packet
HasOnce(s) == \A m, n \in DOMAIN s : s[m] = packet /\ s[n] = packet => m = n

\* the modifiers that do not have the packet before them
Passed == {p \in Proc : ~Has(queue[p])}

Datagram == [mods : {0, 1}, bytes : {data_len}]

\* the message itself is first
CopiesFollow(s) == \A m, n \in DOMAIN s : m < n => s[n].mods = 1

RelayInv ==
  /\ Inv(Like)
  /\ \A p \in Proc : HasOnce(queue[p])
  /\ inbox \in Seq(Datagram) /\ printed \in Seq(Datagram)
  /\ CopiesFollow(printed) /\ CopiesFollow(inbox)
  /\ printed # <<>> => \A n \in DOMAIN inbox : inbox[n].mods = 1
  /\ ~sent => inbox = <<>> /\ printed = <<>> /\ \A p \in Proc : ~Has(queue[p])
  /\ sent => Len(printed) + Len(inbox) <= 1 + Cardinality(Passed)

\* What the packet is and what its copies are.
LEMMA PacketFields ==
  /\ packet.out = FALSE /\ packet.mods = 0 /\ packet.ulen = 27
  /\ packet.ulen - udphdr = data_len
BY DEF packet, Packet, udphdr, data_len

\* An accepted frame that is like the packet is the packet, and no copy is.
LEMMA AcceptedLike ==
  ASSUME NEW f \in Like, Accepts(f)
  PROVE  /\ IsPacket(f) => f = packet
         /\ Resent(f) # packet /\ Resent(f) \in Like
         /\ Resent(packet).mods = 1 /\ Resent(packet).ulen = packet.ulen
<1>1. ~f.out
  BY DEF Accepts, AcceptsIp
<1>2. f \in Frame /\ (IsPacket(f) => f = packet)
  BY <1>1 DEF Like
<1>3. Resent(f).out = TRUE
  BY <1>2 DEF Resent, Frame, Fields
<1>4. Resent(f) \in Frame
  BY <1>2, ResentIsFrame
<1>5. Resent(packet).mods = 1 /\ Resent(packet).ulen = packet.ulen
  BY PacketFields DEF Resent, packet, Packet
<1>. QED BY <1>2, <1>3, <1>4, <1>5, PacketFields DEF Like

\* The frames that may be like the packet are closed under modification.
LEMMA LikeClosed == ASSUME ~Loopback PROVE Closed(Like)
BY AcceptedLike, UdpRelayAssumption, ModifierAssumption DEF Closed, Like

\* The packet in a queue that grows and shrinks.
LEMMA PacketInQueue ==
  ASSUME NEW F, NEW s \in Seq(F), HasOnce(s)
  PROVE  /\ HasOnce(<<>>) /\ ~Has(<<>>)
         /\ s # <<>> => /\ HasOnce(Tail(s)) /\ (Has(Tail(s)) => Has(s))
                        /\ Head(s) = packet => Has(s) /\ ~Has(Tail(s))
         /\ \A f \in F : f # packet =>
              HasOnce(Append(s, f)) /\ (Has(Append(s, f)) => Has(s))
         /\ packet \in F /\ ~Has(s) => HasOnce(Append(s, packet))
<1>. DEFINE P == packet
<1>1. HasOnce(<<>>) /\ ~Has(<<>>)
  BY DEF HasOnce, Has
<1>. HIDE DEF P
<1>2. ASSUME s # <<>>
      PROVE  /\ HasOnce(Tail(s)) /\ (Has(Tail(s)) => Has(s))
             /\ Head(s) = packet => Has(s) /\ ~Has(Tail(s))
  <2>1. /\ Len(s) \in Nat /\ Len(s) >= 1 /\ DOMAIN s = 1 .. Len(s)
        /\ DOMAIN Tail(s) = 1 .. Len(s) - 1 /\ Head(s) = s[1]
        /\ \A n \in 1 .. Len(s) - 1 : Tail(s)[n] = s[n + 1]
    BY <1>2
  <2>2. \A n \in DOMAIN Tail(s) : n + 1 \in DOMAIN s /\ n + 1 # 1 /\ Tail(s)[n] = s[n + 1] /\ n \in Int
    BY <2>1
  <2>3. 1 \in DOMAIN s
    BY <2>1
  <2>4. \A m, n \in DOMAIN Tail(s) : m + 1 = n + 1 => m = n
    BY <2>2
  <2>. QED BY <2>1, <2>2, <2>3, <2>4 DEF HasOnce, Has
<1>3. ASSUME NEW f \in F
      PROVE  /\ f # packet => HasOnce(Append(s, f)) /\ (Has(Append(s, f)) => Has(s))
             /\ ~Has(s) => HasOnce(Append(s, f))
  <2>1. /\ Len(s) \in Nat /\ DOMAIN s = 1 .. Len(s)
        /\ DOMAIN Append(s, f) = 1 .. Len(s) + 1
        /\ Append(s, f)[Len(s) + 1] = f
        /\ \A n \in 1 .. Len(s) : Append(s, f)[n] = s[n]
    OBVIOUS
  <2>2. \A n \in DOMAIN Append(s, f) : n = Len(s) + 1 \/ n \in DOMAIN s
    BY <2>1
  <2>. QED BY <2>1, <2>2 DEF HasOnce, Has
<1>. QED BY <1>1, <1>2, <1>3

\* What happens to a queue when the packet does not come.
Shrinks(p) ==
  \/ queue'[p] = queue[p] \/ queue'[p] = <<>>
  \/ queue[p] # <<>> /\ queue'[p] = Tail(queue[p])
  \/ \E f \in Like : f # packet /\ queue'[p] = Append(queue[p], f)

\* The packet does not come twice to a queue, nor back to one.
LEMMA ShrinkingQueue ==
  ASSUME NEW p \in Proc, queue[p] \in Seq(Like), HasOnce(queue[p]), Shrinks(p)
  PROVE  HasOnce(queue'[p]) /\ (Has(queue'[p]) => Has(queue[p]))
<1>1. CASE queue'[p] = queue[p] \/ queue'[p] = <<>>
  BY <1>1, PacketInQueue
<1>2. CASE queue[p] # <<>> /\ queue'[p] = Tail(queue[p])
  BY <1>2, PacketInQueue
<1>3. ASSUME NEW f \in Like, f # packet, queue'[p] = Append(queue[p], f)
      PROVE  HasOnce(queue'[p]) /\ (Has(queue'[p]) => Has(queue[p]))
  BY <1>3, PacketInQueue
<1>. QED BY <1>1, <1>2, <1>3 DEF Shrinks

\* All queues together: nobody gets the packet again.
LEMMA ShrinkingQueues ==
  ASSUME IsFiniteSet(Proc), queue \in [Proc -> Seq(Like)], \A p \in Proc : HasOnce(queue[p]),
         \A p \in Proc : Shrinks(p)
  PROVE  /\ \A p \in Proc : HasOnce(queue'[p]) /\ (Has(queue'[p]) => Has(queue[p]))
         /\ Passed \subseteq Passed' /\ IsFiniteSet(Passed')
         /\ Cardinality(Passed) \in Nat /\ Cardinality(Passed') \in Nat
         /\ Cardinality(Passed) <= Cardinality(Passed')
         /\ \A p \in Passed' : p \notin Passed => Cardinality(Passed) + 1 <= Cardinality(Passed')
<1>1. \A p \in Proc : HasOnce(queue'[p]) /\ (Has(queue'[p]) => Has(queue[p]))
  BY ShrinkingQueue
<1>2. Passed \subseteq Passed' /\ IsFiniteSet(Passed') /\ IsFiniteSet(Passed)
  BY <1>1, FS_Subset DEF Passed
<1>3. /\ Cardinality(Passed) \in Nat /\ Cardinality(Passed') \in Nat
      /\ Cardinality(Passed) <= Cardinality(Passed')
  BY <1>2, FS_CardinalityType, FS_Subset
<1>4. ASSUME NEW p \in Passed', p \notin Passed
      PROVE  Cardinality(Passed) + 1 <= Cardinality(Passed')
  <2>1. IsFiniteSet(Passed \cup {p}) /\ Cardinality(Passed \cup {p}) = Cardinality(Passed) + 1
    BY <1>2, <1>4, FS_AddElement
  <2>2. Passed \cup {p} \subseteq Passed'
    BY <1>2, <1>4
  <2>3. Cardinality(Passed \cup {p}) <= Cardinality(Passed')
    BY <1>2, <2>2, FS_Subset
  <2>. QED BY <2>1, <2>3
<1>. QED BY <1>1, <1>2, <1>3, <1>4

\* The receiver's queue and what it has printed.
LEMMA CopyInSequence ==
  ASSUME NEW s \in Seq(Datagram), CopiesFollow(s)
  PROVE  /\ \A d \in Datagram : s = <<>> \/ d.mods = 1 => CopiesFollow(Append(s, d))
         /\ s # <<>> => /\ Head(s) \in Datagram /\ Tail(s) \in Seq(Datagram)
                        /\ CopiesFollow(Tail(s)) /\ Len(Tail(s)) = Len(s) - 1
                        /\ \A n \in DOMAIN Tail(s) : Tail(s)[n].mods = 1
<1>1. ASSUME NEW d \in Datagram, s = <<>> \/ d.mods = 1 PROVE CopiesFollow(Append(s, d))
  <2>1. /\ Len(s) \in Nat /\ DOMAIN s = 1 .. Len(s)
        /\ DOMAIN Append(s, d) = 1 .. Len(s) + 1
        /\ Append(s, d)[Len(s) + 1] = d
        /\ \A n \in 1 .. Len(s) : Append(s, d)[n] = s[n]
        /\ s = <<>> => Len(s) = 0
    OBVIOUS
  <2>2. ASSUME NEW m \in 1 .. Len(s) + 1, NEW n \in 1 .. Len(s) + 1, m < n
        PROVE  Append(s, d)[n].mods = 1
    <3>1. m \in 1 .. Len(s)
      BY <2>1, <2>2
    <3>2. CASE n \in 1 .. Len(s)
      BY <2>1, <2>2, <3>1, <3>2 DEF CopiesFollow
    <3>3. CASE n = Len(s) + 1
      BY <1>1, <2>1, <3>1, <3>3
    <3>. QED BY <2>1, <3>2, <3>3
  <2>. QED BY <2>1, <2>2 DEF CopiesFollow
<1>2. ASSUME s # <<>>
      PROVE  /\ Head(s) \in Datagram /\ Tail(s) \in Seq(Datagram)
             /\ CopiesFollow(Tail(s)) /\ Len(Tail(s)) = Len(s) - 1
             /\ \A n \in DOMAIN Tail(s) : Tail(s)[n].mods = 1
  <2>1. /\ Len(s) \in Nat /\ Len(s) >= 1 /\ DOMAIN s = 1 .. Len(s)
        /\ Head(s) \in Datagram /\ Tail(s) \in Seq(Datagram) /\ Len(Tail(s)) = Len(s) - 1
        /\ DOMAIN Tail(s) = 1 .. Len(s) - 1
        /\ \A n \in 1 .. Len(s) - 1 : Tail(s)[n] = s[n + 1]
    BY <1>2
  <2>2. ASSUME NEW n \in 1 .. Len(s) - 1 PROVE Tail(s)[n].mods = 1
    <3>1. 1 \in DOMAIN s /\ n + 1 \in DOMAIN s /\ 1 < n + 1
      BY <2>1
    <3>. QED BY <2>1, <3>1 DEF CopiesFollow
  <2>3. CopiesFollow(Tail(s))
    BY <2>1, <2>2 DEF CopiesFollow
  <2>. QED BY <2>1, <2>2, <2>3
<1>. QED BY <1>1, <1>2

\* Every step keeps the invariant of the packet and its copies.
LEMMA StepRelay ==
  ASSUME ~Loopback, IsFiniteSet(Proc), RelayInv, [RelayNext]_<<vars, relayVars>>
  PROVE  RelayInv'
<1>1. Inv(Like)'
  BY LikeClosed, RelayStep, StepInv DEF RelayInv
<1>2. /\ queue \in [Proc -> Seq(Like)] /\ \A p \in Proc : HasOnce(queue[p])
      /\ inbox \in Seq(Datagram) /\ printed \in Seq(Datagram)
      /\ CopiesFollow(printed) /\ CopiesFollow(inbox)
      /\ printed # <<>> => \A n \in DOMAIN inbox : inbox[n].mods = 1
      /\ ~sent => inbox = <<>> /\ printed = <<>> /\ \A p \in Proc : ~Has(queue[p])
      /\ sent => Len(printed) + Len(inbox) <= 1 + Cardinality(Passed)
      /\ Len(printed) \in Nat /\ Len(inbox) \in Nat
  BY DEF RelayInv, Inv, SocketTypeOK
<1>3. ASSUME \A p \in Proc : Shrinks(p)
      PROVE  /\ \A p \in Proc : HasOnce(queue'[p]) /\ (Has(queue'[p]) => Has(queue[p]))
             /\ Cardinality(Passed) \in Nat /\ Cardinality(Passed') \in Nat
             /\ Cardinality(Passed) <= Cardinality(Passed')
             /\ \A p \in Passed' : p \notin Passed => Cardinality(Passed) + 1 <= Cardinality(Passed')
  BY <1>2, <1>3, ShrinkingQueues
<1>4. ASSUME \A p \in Proc : Shrinks(p), UNCHANGED relayVars
      PROVE  RelayInv'
  BY <1>1, <1>2, <1>3, <1>4 DEF RelayInv, relayVars
<1>5. UNCHANGED queue => \A p \in Proc : Shrinks(p)
  BY DEF Shrinks
<1>6. CASE UNCHANGED <<vars, relayVars>>
  BY <1>4, <1>5, <1>6 DEF vars, sockVars
<1>7. CASE Sendto
  <2>1. ~sent /\ sent' = TRUE /\ UNCHANGED <<receiver, printed>>
    BY <1>7 DEF Sendto
  <2>2. packet \in Like
    BY LikeClosed, UdpRelayAssumption DEF Closed
  <2>3. \A p \in Proc : queue'[p] = queue[p] \/ queue'[p] = Append(queue[p], packet)
    <3>1. CASE UNCHANGED vars
      BY <3>1 DEF vars, sockVars
    <3>2. CASE ArriveOf({packet})
      BY <1>2, <3>2 DEF ArriveOf, Delivered
    <3>. QED BY <1>7, <3>1, <3>2 DEF Sendto
  <2>4. \A p \in Proc : HasOnce(queue'[p])
    <3>. TAKE p \in Proc
    <3>1. queue[p] \in Seq(Like) /\ HasOnce(queue[p]) /\ ~Has(queue[p])
      BY <1>2, <2>1
    <3>2. HasOnce(Append(queue[p], packet))
      BY <2>2, <3>1, PacketInQueue
    <3>. QED BY <2>3, <3>1, <3>2
  <2>5. /\ inbox' \in Seq(Datagram) /\ CopiesFollow(inbox') /\ Len(inbox') \in Nat
        /\ Len(inbox') <= 1
    <3>1. CASE inbox' = inbox
      BY <1>2, <2>1, <3>1
    <3>2. CASE Reach(packet)
      <4>1. CASE inbox' = Append(inbox, [mods |-> 0, bytes |-> data_len])
        <5>1. inbox = <<>> /\ [mods |-> 0, bytes |-> data_len] \in Datagram
          BY <1>2, <2>1 DEF Datagram
        <5>2. CopiesFollow(inbox')
          BY <1>2, <4>1, <5>1, CopyInSequence
        <5>. QED BY <4>1, <5>1, <5>2
      <4>. QED BY <3>1, <3>2, <4>1, PacketFields DEF Reach
    <3>. QED BY <1>7, <3>1, <3>2 DEF Sendto
  <2>6. Cardinality(Passed') \in Nat
    <3>1. Passed' \subseteq Proc
      BY DEF Passed
    <3>. QED BY <3>1, FS_Subset, FS_CardinalityType
  <2>7. printed' = <<>> /\ Len(printed') = 0 /\ CopiesFollow(printed') /\ printed' \in Seq(Datagram)
    BY <1>2, <2>1
  <2>. QED BY <1>1, <2>1, <2>4, <2>5, <2>6, <2>7 DEF RelayInv
<1>8. CASE Listen
  BY <1>1, <1>2, <1>8 DEF Listen, RelayInv, vars, sockVars, Passed
<1>9. CASE Show
  <2>1. /\ UNCHANGED queue /\ UNCHANGED sent /\ inbox # <<>>
        /\ inbox' = Tail(inbox) /\ printed' = Append(printed, Head(inbox))
    BY <1>9 DEF Show, vars, sockVars
  <2>2. /\ Head(inbox) \in Datagram /\ inbox' \in Seq(Datagram) /\ CopiesFollow(inbox')
        /\ Len(inbox') = Len(inbox) - 1 /\ \A n \in DOMAIN inbox' : inbox'[n].mods = 1
    BY <1>2, <2>1, CopyInSequence
  <2>3. printed' \in Seq(Datagram) /\ Len(printed') = Len(printed) + 1
    BY <1>2, <2>1, <2>2
  <2>4. printed = <<>> \/ Head(inbox).mods = 1
    <3>1. 1 \in DOMAIN inbox /\ Head(inbox) = inbox[1]
      BY <1>2, <2>1
    <3>. QED BY <1>2, <3>1
  <2>5. CopiesFollow(printed')
    BY <1>2, <2>1, <2>2, <2>4, CopyInSequence
  <2>6. sent /\ Passed' = Passed
    BY <1>2, <2>1 DEF Passed
  <2>7. Len(printed') + Len(inbox') = Len(printed) + Len(inbox)
    BY <1>2, <2>2, <2>3
  <2>. QED BY <1>1, <1>2, <2>1, <2>2, <2>3, <2>5, <2>6, <2>7 DEF RelayInv
<1>10. CASE ShowFails
  <2>1. UNCHANGED <<queue, sent, printed>> /\ inbox' = <<>> /\ Passed' = Passed
    BY <1>10 DEF ShowFails, vars, sockVars, Passed
  <2>2. inbox' \in Seq(Datagram) /\ CopiesFollow(inbox') /\ Len(inbox') = 0 /\ DOMAIN inbox' = {}
    BY <2>1 DEF CopiesFollow
  <2>3. sent => Len(printed') + Len(inbox') <= 1 + Cardinality(Passed')
    <3>1. Cardinality(Passed) \in Nat
      BY <1>3, <1>5, <2>1
    <3>. QED BY <1>2, <2>1, <2>2, <3>1
  <2>. QED BY <1>1, <1>2, <2>1, <2>2, <2>3 DEF RelayInv
<1>11. CASE Elsewhere
  <2>1. UNCHANGED relayVars
    BY <1>11 DEF Elsewhere
  <2>2. CASE ArriveOf(Frames \ {packet})
    <3>1. PICK f \in Frames \ {packet} : queue' = Delivered(queue, f, Proc)
      BY <2>2 DEF ArriveOf
    <3>2. f \in Like
      BY LikeClosed DEF Closed
    <3>3. \A p \in Proc : Shrinks(p)
      BY <1>2, <3>1, <3>2 DEF Delivered, Shrinks
    <3>. QED BY <1>4, <2>1, <3>3
  <2>3. ASSUME NEW p \in Proc, OpenSocket(p, "getflags") \/ Sniffer(p) \/ RecvFails(p)
        PROVE  RelayInv'
    <3>1. \E l \in Pc : Goto(p, l) \/ End(p, l)
      BY <2>3 DEF OpenSocket, Sniffer, GetFlags, SetFlags, FlagsSet, GetIndex, Bind, RecvFails, Restore,
                  Kill, Pc
    <3>2. \A q \in Proc : Shrinks(q)
      BY <1>2, <3>1 DEF Goto, End, Shrinks
    <3>. QED BY <1>4, <2>1, <3>2
  <2>4. ASSUME NEW p \in Proc, Skip(p)
        PROVE  RelayInv'
    <3>1. \A q \in Proc : Shrinks(q)
      BY <1>2, <2>4 DEF Skip, CanReceive, Shrinks
    <3>. QED BY <1>4, <2>1, <3>1
  <2>. QED BY <1>11, <2>2, <2>3, <2>4 DEF Elsewhere
<1>12. ASSUME NEW p \in Proc, NEW done \in BOOLEAN, Forward(p, done)
       PROVE  RelayInv'
  <2>. DEFINE f == Oldest(p)
  <2>1. /\ ModifyAnd(p, done) /\ UNCHANGED <<sent, receiver, printed>>
        /\ IF done /\ IsPacket(f) THEN Reach(Resent(f)) ELSE UNCHANGED inbox
    BY <1>12 DEF Forward
  <2>2. CanReceive(p) /\ Accepts(f) /\ queue[p] # <<>> /\ queue[p] \in Seq(Like)
    BY <1>2, <2>1 DEF ModifyAnd, CanReceive
  <2>3. f \in Like /\ f = Head(queue[p])
    BY <2>2 DEF Oldest
  <2>. HIDE DEF f
  <2>4. /\ Resent(f) \in Like /\ Resent(f) # packet
        /\ IsPacket(f) => f = packet
        /\ Resent(packet).mods = 1 /\ Resent(packet).ulen = packet.ulen
    BY <2>2, <2>3, AcceptedLike
  <2>5. /\ queue'[p] = Tail(queue[p])
        /\ \A q \in Proc : q # p => queue'[q] = queue[q] \/ queue'[q] = Append(queue[q], Resent(f))
    <3>. DEFINE rest == [queue EXCEPT ![p] = Tail(@)]
    <3>1. CASE queue' = rest
      BY <1>2, <3>1
    <3>2. CASE queue' = AfterSend(p, rest, Resent(f))
      BY <1>2, <3>2 DEF AfterSend, Delivered
    <3>. QED BY <2>1, <3>1, <3>2 DEF ModifyAnd, f
  <2>6. \A q \in Proc : Shrinks(q)
    BY <2>2, <2>4, <2>5 DEF Shrinks
  <2>7. CASE UNCHANGED inbox
    BY <1>4, <2>1, <2>6, <2>7 DEF relayVars
  <2>8. CASE IsPacket(f) /\ inbox' = Append(inbox, [mods |-> 1, bytes |-> data_len])
    <3>1. [mods |-> 1, bytes |-> data_len] \in Datagram
      BY DEF Datagram
    <3>2. /\ inbox' \in Seq(Datagram) /\ CopiesFollow(inbox') /\ Len(inbox') = Len(inbox) + 1
      BY <1>2, <2>8, <3>1, CopyInSequence
    <3>3. printed # <<>> => \A n \in DOMAIN inbox' : inbox'[n].mods = 1
      <4>1. /\ DOMAIN inbox' = 1 .. Len(inbox) + 1 /\ DOMAIN inbox = 1 .. Len(inbox)
            /\ inbox'[Len(inbox) + 1] = [mods |-> 1, bytes |-> data_len]
            /\ \A n \in 1 .. Len(inbox) : inbox'[n] = inbox[n]
        BY <1>2, <2>8, <3>1
      <4>2. \A n \in DOMAIN inbox' : n \in DOMAIN inbox \/ n = Len(inbox) + 1
        BY <1>2, <4>1
      <4>. QED BY <1>2, <4>1, <4>2
    <3>4. Has(queue[p]) /\ ~Has(Tail(queue[p]))
      BY <1>2, <2>2, <2>3, <2>4, <2>8, PacketInQueue
    <3>5. p \notin Passed /\ p \in Passed' /\ sent
      BY <1>2, <2>5, <3>4 DEF Passed
    <3>6. Len(printed') + Len(inbox') <= 1 + Cardinality(Passed')
      BY <1>2, <1>3, <2>1, <2>6, <3>2, <3>5
    <3>. QED BY <1>1, <1>2, <1>3, <2>1, <2>6, <3>2, <3>3, <3>5, <3>6 DEF RelayInv
  <2>. QED BY <2>1, <2>4, <2>7, <2>8, PacketFields DEF Reach
<1>. QED BY <1>6, <1>7, <1>8, <1>9, <1>10, <1>11, <1>12 DEF RelayNext

\* Of the one packet, and on an interface that does not bring back what is sent, the
\* receiver prints the message itself at most once and before any copy, and of each of
\* any number of modifiers at most one copy, each with the whole message.
THEOREM RelayedOnce ==
  ASSUME ~Loopback, IsFiniteSet(Proc)
  PROVE  RelaySpec => []Relayed
<1>1. RelayInit => RelayInv
  <2>. SUFFICES ASSUME RelayInit PROVE RelayInv
    OBVIOUS
  <2>1. Inv(Like) /\ ~sent /\ inbox = <<>> /\ printed = <<>> /\ \A p \in Proc : queue[p] = <<>>
    BY InitInv DEF RelayInit, Init, SocketInit
  <2>. QED BY <2>1 DEF RelayInv, HasOnce, Has, CopiesFollow
<1>2. RelayInv /\ [RelayNext]_<<vars, relayVars>> => RelayInv'
  BY StepRelay
<1>3. RelayInv => Relayed
  <2>. SUFFICES ASSUME RelayInv PROVE Relayed
    OBVIOUS
  <2>1. /\ printed \in Seq(Datagram) /\ inbox \in Seq(Datagram) /\ CopiesFollow(printed)
        /\ ~sent => printed = <<>>
        /\ sent => Len(printed) + Len(inbox) <= 1 + Cardinality(Passed)
    BY DEF RelayInv
  <2>2. Passed \subseteq Proc
    BY DEF Passed
  <2>3. Cardinality(Passed) \in Nat /\ Cardinality(Proc) \in Nat
        /\ Cardinality(Passed) <= Cardinality(Proc)
    BY <2>2, FS_Subset, FS_CardinalityType
  <2>4. Len(printed) <= 1 + Cardinality(Proc)
    BY <2>1, <2>3
  <2>5. \A n \in DOMAIN printed : printed[n] \in Datagram
    BY <2>1
  <2>6. \A n \in DOMAIN printed : printed[n].mods \in {0, 1} /\ printed[n].bytes = data_len
    BY <2>5 DEF Datagram
  <2>7. \A m, n \in DOMAIN printed : m < n => printed[n].mods = 1
    BY <2>1 DEF CopiesFollow
  <2>. QED BY <2>4, <2>6, <2>7 DEF Relayed
<1>. QED BY <1>1, <1>2, <1>3, PTL DEF RelaySpec
=============================================================================
