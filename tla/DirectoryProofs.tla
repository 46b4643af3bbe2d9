---------------------------- MODULE DirectoryProofs ----------------------------
(***************************************************************************)
(* Theorems about the programs of hw2, for any trees, any buffer and any   *)
(* number of directories that can be open.  What holds of all nodes is     *)
(* shown from Top downwards; that a path that was not cut off is the path  *)
(* of one node only is what both the listing and the search rest on.       *)
(***************************************************************************)
EXTENDS FileSearch, Listing, SequenceTheorems, FiniteSetTheorems, TLAPS

-----------------------------------------------------------------------------
(* Induction and recursion from Top downwards *)

\* What holds of Top, and of every entry of a directory it holds of, holds of all.
LEMMA TreeInduction ==
  ASSUME NEW t, WellFormed(t), NEW P, Top \in P,
         \A n \in DOMAIN t \ {Top} : t[n].dir \in P => n \in P
  PROVE  DOMAIN t \subseteq P
<1>. DEFINE S == DOMAIN t \ P
<1>. SUFFICES ASSUME S # {} PROVE FALSE
  OBVIOUS
<1>1. S \in SUBSET (DOMAIN t \ {Top})
  OBVIOUS
<1>2. PICK n \in S : t[n].dir \notin S
  BY <1>1 DEF WellFormed
<1>3. n \in DOMAIN t \ {Top} /\ t[n].dir \in DOMAIN t
  BY <1>1, <1>2 DEF WellFormed
<1>. QED BY <1>2, <1>3

\* f goes down from v0 at Top, by a step at each node
Descends(f, t, v0, step) ==
  f[Top] = v0 /\ \A n \in DOMAIN t \ {Top} : f[n] = step[n][f[t[n].dir]]

\* the same, for the nodes of C
DescendsIn(f, t, v0, step, C) ==
  /\ Top \in C /\ f[Top] = v0
  /\ \A n \in C \ {Top} : t[n].dir \in C /\ f[n] = step[n][f[t[n].dir]]

\* Two that go down alike are alike.
LEMMA OneDescent ==
  ASSUME NEW t, WellFormed(t), NEW v0, NEW step, NEW f, NEW C, NEW g, NEW E,
         DescendsIn(f, t, v0, step, C), DescendsIn(g, t, v0, step, E)
  PROVE  \A n \in DOMAIN t : n \in C /\ n \in E => f[n] = g[n]
<1>. DEFINE P == {n \in DOMAIN t : n \in C /\ n \in E => f[n] = g[n]}
<1>1. Top \in P
  BY DEF DescendsIn, WellFormed
<1>2. ASSUME NEW n \in DOMAIN t \ {Top}, t[n].dir \in P PROVE n \in P
  <2>1. SUFFICES ASSUME n \in C, n \in E PROVE f[n] = g[n]
    OBVIOUS
  <2>2. f[t[n].dir] = g[t[n].dir]
    BY <1>2, <2>1 DEF DescendsIn
  <2>. QED BY <2>1, <2>2 DEF DescendsIn
<1>. HIDE DEF P
<1>3. DOMAIN t \subseteq P
  BY <1>1, <1>2, TreeInduction
<1>. QED BY <1>3 DEF P

\* What a recursion over a tree defines exists.
LEMMA TreeRecursion ==
  ASSUME NEW t, WellFormed(t), NEW V, NEW v0 \in V, NEW step \in [DOMAIN t -> [V -> V]]
  PROVE  \E f \in [DOMAIN t -> V] : Descends(f, t, v0, step)
<1>. DEFINE D == DOMAIN t
            Part(f, C) == C \subseteq D /\ DescendsIn(f, t, v0, step, C)
            P == {n \in D : \E f \in [D -> V], C \in SUBSET D : Part(f, C) /\ n \in C}
<1>0. Top \in D /\ \A n \in D \ {Top} : t[n].dir \in D
  BY DEF WellFormed
<1>1. Top \in P
  <2>1. Part([n \in D |-> v0], {Top})
    BY <1>0 DEF DescendsIn
  <2>2. [n \in D |-> v0] \in [D -> V] /\ {Top} \in SUBSET D /\ Top \in {Top}
    BY <1>0
  <2>. HIDE DEF Part
  <2>. QED BY <1>0, <2>1, <2>2
<1>2. ASSUME NEW n \in D \ {Top}, t[n].dir \in P PROVE n \in P
  <2>1. PICK f \in [D -> V], C \in SUBSET D : Part(f, C) /\ t[n].dir \in C
    BY <1>2
  <2>2. CASE n \in C
    BY <2>1, <2>2
  <2>3. CASE n \notin C
    <3>. DEFINE g == [f EXCEPT ![n] = step[n][f[t[n].dir]]]
    <3>1. g \in [D -> V]
      BY <1>0
    <3>2. g[n] = step[n][f[t[n].dir]] /\ \A m \in C : g[m] = f[m]
      BY <2>3
    <3>. HIDE DEF g
    <3>3. DescendsIn(g, t, v0, step, C \cup {n})
      <4>1. Top \in C /\ g[Top] = v0
        BY <2>1, <3>2 DEF DescendsIn
      <4>2. ASSUME NEW m \in (C \cup {n}) \ {Top}
            PROVE  t[m].dir \in C \cup {n} /\ g[m] = step[m][g[t[m].dir]]
        <5>1. CASE m = n
          BY <2>1, <3>2, <5>1
        <5>2. CASE m # n
          <6>1. m \in C \ {Top}
            BY <4>2, <5>2
          <6>2. t[m].dir \in C /\ f[m] = step[m][f[t[m].dir]]
            BY <2>1, <6>1 DEF DescendsIn
          <6>. QED BY <3>2, <6>1, <6>2
        <5>. QED BY <5>1, <5>2
      <4>. QED BY <4>1, <4>2 DEF DescendsIn
    <3>4. Part(g, C \cup {n}) /\ C \cup {n} \in SUBSET D /\ n \in C \cup {n}
      BY <2>1, <3>3
    <3>. HIDE DEF Part
    <3>. QED BY <3>1, <3>4
  <2>. QED BY <2>2, <2>3
<1>3. D \subseteq P
  <2>. HIDE DEF P
  <2>. QED BY <1>1, <1>2, TreeInduction
<1>. DEFINE Of(n, f) == \E C \in SUBSET D : Part(f, C) /\ n \in C
            some == [n \in D |-> CHOOSE f \in [D -> V] : Of(n, f)]
            h == [n \in D |-> some[n][n]]
<1>4. ASSUME NEW n \in D PROVE some[n] \in [D -> V] /\ Of(n, some[n])
  <2>1. \E f \in [D -> V] : Of(n, f)
    BY <1>3
  <2>. HIDE DEF Of
  <2>. QED BY <2>1
<1>5. ASSUME NEW n \in D, NEW m \in D, NEW C, Part(some[n], C), m \in C PROVE h[m] = some[n][m]
  <2>1. PICK E \in SUBSET D : Part(some[m], E) /\ m \in E
    BY <1>4
  <2>2. some[m][m] = some[n][m]
    <3>. DEFINE f == some[m]
                g == some[n]
    <3>1. DescendsIn(f, t, v0, step, E) /\ DescendsIn(g, t, v0, step, C)
      BY <1>5, <2>1
    <3>. HIDE DEF f, g
    <3>2. f[m] = g[m]
      BY <1>5, <2>1, <3>1, OneDescent
    <3>. QED BY <3>2 DEF f, g
  <2>. QED BY <2>2
<1>6. h \in [D -> V]
  <2>1. \A n \in D : some[n][n] \in V
    <3>. HIDE DEF some
    <3>. QED BY <1>4
  <2>. QED BY <2>1
<1>7. h[Top] = v0
  <2>1. PICK C \in SUBSET D : Part(some[Top], C) /\ Top \in C
    BY <1>0, <1>4
  <2>. QED BY <1>0, <2>1 DEF DescendsIn
<1>8. ASSUME NEW n \in D \ {Top} PROVE h[n] = step[n][h[t[n].dir]]
  <2>0. n \in D /\ h[n] = some[n][n]
    OBVIOUS
  <2>. HIDE DEF some
  <2>1. PICK C \in SUBSET D : Part(some[n], C) /\ n \in C
    BY <1>4, <2>0
  <2>2. t[n].dir \in C /\ some[n][n] = step[n][some[n][t[n].dir]]
    BY <2>1 DEF DescendsIn
  <2>3. h[t[n].dir] = some[n][t[n].dir]
    BY <1>0, <1>5, <2>1, <2>2
  <2>. QED BY <2>0, <2>2, <2>3
<1>. HIDE DEF h
<1>. QED BY <1>6, <1>7, <1>8 DEF Descends

-----------------------------------------------------------------------------
(* The nodes above a node, and its path *)

\* what names and paths consist of; that the two are strings the provers do not know
Letters == STRING \cup {".", "/"}

\* the length of a path, as a number the provers calculate with
Size(p) == Len(p)

\* A length is a number.
LEMMA Sizes == \A s \in Seq(Letters) : Size(s) \in Nat
BY LenProperties DEF Size

\* What concatenation does.
LEMMA Glue ==
  ASSUME NEW s \in Seq(Letters), NEW t \in Seq(Letters)
  PROVE  /\ s \o t \in Seq(Letters) /\ Size(s \o t) = Size(s) + Size(t)
         /\ \A i \in 1 .. Size(s) : (s \o t)[i] = s[i]
         /\ \A i \in 1 .. Size(t) : (s \o t)[Size(s) + i] = t[i]
<1>. DEFINE p == s \o t
            k == Len(s)
            l == Len(t)
<1>1. /\ p \in Seq(Letters) /\ Len(p) = k + l
      /\ \A i \in 1 .. k + l : p[i] = IF i <= k THEN s[i] ELSE t[i - k]
  BY ConcatProperties
<1>2. k \in Nat /\ l \in Nat
  OBVIOUS
<1>. HIDE DEF p, k, l
<1>3. \A i \in 1 .. k : p[i] = s[i]
  BY <1>1, <1>2
<1>4. ASSUME NEW i \in 1 .. l PROVE p[k + i] = t[i]
  <2>1. k + i \in 1 .. k + l /\ ~(k + i <= k) /\ (k + i) - k = i
    BY <1>2
  <2>. QED BY <1>1, <2>1
<1>. QED BY <1>1, <1>3, <1>4 DEF Size, p, k, l

\* Sequences with the same elements are the same.
LEMMA Same ==
  ASSUME NEW s \in Seq(Letters), NEW t \in Seq(Letters), Size(s) = Size(t),
         \A i \in 1 .. Size(s) : s[i] = t[i]
  PROVE  s = t
BY SeqEqual DEF Size

\* What Slash is.
LEMMA SlashIs == Slash \in Seq(Letters) /\ Size(Slash) = 1 /\ Slash[1] = "/"
BY DEF Slash, Letters, Size

\* A slash after a path.
LEMMA SlashAfter ==
  ASSUME NEW p \in Seq(Letters)
  PROVE  /\ p \o Slash \in Seq(Letters) /\ Size(p \o Slash) = Size(p) + 1
         /\ \A i \in 1 .. Size(p) : (p \o Slash)[i] = p[i]
         /\ (p \o Slash)[Size(p) + 1] = "/"
<1>1. /\ p \o Slash \in Seq(Letters) /\ Size(p \o Slash) = Size(p) + Size(Slash)
      /\ \A i \in 1 .. Size(p) : (p \o Slash)[i] = p[i]
      /\ \A i \in 1 .. Size(Slash) : (p \o Slash)[Size(p) + i] = Slash[i]
  BY SlashIs, Glue
<1>2. 1 \in 1 .. Size(Slash)
  BY SlashIs
<1>3. (p \o Slash)[Size(p) + 1] = Slash[1]
  BY <1>1, <1>2
<1>. QED BY <1>1, <1>3, SlashIs

\* A slash before a path.
LEMMA SlashBefore ==
  ASSUME NEW p \in Seq(Letters)
  PROVE  /\ Slash \o p \in Seq(Letters) /\ Size(Slash \o p) = 1 + Size(p)
         /\ \A i \in 1 .. Size(p) : (Slash \o p)[1 + i] = p[i]
         /\ (Slash \o p)[1] = "/"
<1>1. /\ Slash \o p \in Seq(Letters) /\ Size(Slash \o p) = Size(Slash) + Size(p)
      /\ \A i \in 1 .. Size(Slash) : (Slash \o p)[i] = Slash[i]
      /\ \A i \in 1 .. Size(p) : (Slash \o p)[Size(Slash) + i] = p[i]
  BY SlashIs, Glue
<1>2. 1 \in 1 .. Size(Slash)
  BY SlashIs
<1>3. (Slash \o p)[1] = Slash[1]
  BY <1>1, <1>2
<1>. QED BY <1>1, <1>3, SlashIs

\* The tree is one of the trees, and root a path of Top.
LEMMA TreeIs ==
  ASSUME TreeInit
  PROVE  /\ WellFormed(tree) /\ Top \in DOMAIN tree /\ IsDir(Top)
         /\ root \in Seq(Letters) /\ Size(root) = 1 /\ root[1] \in {".", "/"}
         /\ \A n \in Below : /\ tree[n].dir \in DOMAIN tree /\ IsDir(tree[n].dir)
                            /\ tree[n].name \in Seq(Letters) /\ Size(tree[n].name) >= 1
                            /\ \A i \in 1 .. Size(tree[n].name) : tree[n].name[i] # "/"
<1>1. WellFormed(tree)
  BY FileTreeAssumption DEF TreeInit
<1>2. ASSUME NEW n \in Below
      PROVE  /\ tree[n].dir \in DOMAIN tree /\ IsDir(tree[n].dir)
             /\ tree[n].name \in Seq(Letters) /\ Size(tree[n].name) >= 1
             /\ \A i \in 1 .. Size(tree[n].name) : tree[n].name[i] # "/"
  <2>. DEFINE name == tree[n].name
  <2>1. tree[n].dir \in DOMAIN tree /\ IsDir(tree[n].dir)
    BY <1>1 DEF WellFormed, IsDir, Below
  <2>2. name \in Seq(STRING) /\ name # <<>> /\ \A i \in DOMAIN name : name[i] # "/"
    BY <1>1 DEF WellFormed, Below
  <2>. HIDE DEF name
  <2>3. name \in Seq(Letters)
    BY <2>2, SeqMonotonic DEF Letters
  <2>4. Size(name) \in Nat \ {0} /\ DOMAIN name = 1 .. Size(name)
    BY <2>3, <2>2, EmptySeq, LenProperties DEF Size
  <2>. QED BY <2>1, <2>2, <2>3, <2>4 DEF name
<1>3. root \in Seq(Letters) /\ Size(root) = 1 /\ root[1] \in {".", "/"}
  <2>1. "." \in Letters /\ "/" \in Letters
    BY DEF Letters
  <2>. HIDE DEF Letters
  <2>2. CASE root = <<".">>
    BY <2>1, <2>2 DEF Size
  <2>3. CASE root = <<"/">>
    BY <2>1, <2>3 DEF Size
  <2>. QED BY <2>2, <2>3 DEF TreeInit, Slash
<1>4. Top \in DOMAIN tree /\ IsDir(Top)
  BY <1>1 DEF WellFormed, IsDir
<1>. QED BY <1>1, <1>2, <1>3, <1>4

\* Above is what its definition says.
LEMMA AboveIs ==
  ASSUME TreeInit
  PROVE  /\ Above \in [DOMAIN tree -> SUBSET DOMAIN tree]
         /\ Above[Top] = {}
         /\ \A n \in Below : Above[n] = Above[tree[n].dir] \cup {tree[n].dir}
<1>. DEFINE D == DOMAIN tree
            V == SUBSET D
            step == [n \in D |-> [v \in V |-> IF n = Top THEN v ELSE v \cup {tree[n].dir}]]
            Rec(f) == f = [n \in D |-> IF n = Top THEN {} ELSE f[tree[n].dir] \cup {tree[n].dir}]
<1>0. WellFormed(tree) /\ Top \in D /\ \A n \in D \ {Top} : tree[n].dir \in D
  BY TreeIs DEF Below
<1>1. step \in [D -> [V -> V]] /\ {} \in V
  BY <1>0
<1>2. PICK f \in [D -> V] : Descends(f, tree, {}, step)
  <2>. HIDE DEF step, V
  <2>. QED BY <1>0, <1>1, TreeRecursion
<1>3. \A n \in D : f[n] = IF n = Top THEN {} ELSE f[tree[n].dir] \cup {tree[n].dir}
  BY <1>0, <1>2 DEF Descends
<1>4. Rec(f)
  <2>1. f = [n \in D |-> f[n]]
    BY <1>2
  <2>. QED BY <1>3, <2>1, Zenon
<1>5. Rec(Above)
  BY <1>4, Zenon DEF Above
<1>6. \A n \in D : Above[n] = IF n = Top THEN {} ELSE Above[tree[n].dir] \cup {tree[n].dir}
  BY <1>5, Zenon
<1>. DEFINE P == {n \in D : Above[n] \in V}
<1>7. D \subseteq P
  <2>1. Top \in P
    BY <1>0, <1>6
  <2>2. ASSUME NEW n \in D \ {Top}, tree[n].dir \in P PROVE n \in P
    <3>1. Above[n] = Above[tree[n].dir] \cup {tree[n].dir}
      BY <1>6
    <3>2. Above[tree[n].dir] \in V /\ tree[n].dir \in D
      BY <1>0, <2>2
    <3>. QED BY <3>1, <3>2
  <2>. HIDE DEF P
  <2>. QED BY <1>0, <2>1, <2>2, TreeInduction
<1>8. Above = [n \in D |-> Above[n]]
  BY <1>5, Zenon
<1>9. Above \in [D -> V]
  BY <1>7, <1>8
<1>. QED BY <1>0, <1>6, <1>9 DEF Below

\* what a path begins with before the name
Stem(p) == IF p = Slash THEN Slash ELSE p \o Slash

\* PathOf is what its definition says.
LEMMA PathIs ==
  ASSUME TreeInit
  PROVE  /\ PathOf \in [DOMAIN tree -> Seq(Letters)]
         /\ PathOf[Top] = root
         /\ \A n \in Below : PathOf[n] = Stem(PathOf[tree[n].dir]) \o tree[n].name
<1>. DEFINE D == DOMAIN tree
            V == Seq(Letters)
            Next(p, n) == IF p = Slash THEN Slash \o tree[n].name ELSE Joined(p, tree[n].name)
            step == [n \in D |-> [v \in V |-> IF n = Top THEN v ELSE Next(v, n)]]
            Rec(f) == f = [n \in D |-> IF n = Top THEN root ELSE Next(f[tree[n].dir], n)]
<1>0. WellFormed(tree) /\ Top \in D /\ \A n \in D \ {Top} : tree[n].dir \in D
  BY TreeIs DEF Below
<1>. HIDE DEF Next
<1>1. \A n \in D \ {Top}, v \in V : Next(v, n) \in V
  <2>1. ASSUME NEW n \in D \ {Top} PROVE tree[n].name \in Seq(Letters)
    BY TreeIs DEF Below
  <2>2. Slash \in V
    BY DEF Slash, Letters
  <2>3. ASSUME NEW u \in V, NEW v \in V PROVE u \o v \in V
    BY Glue
  <2>. HIDE DEF V
  <2>. QED BY <2>1, <2>2, <2>3 DEF Next, Joined, V
<1>2. step \in [D -> [V -> V]] /\ root \in V
  BY <1>0, <1>1, TreeIs
<1>3. PICK f \in [D -> V] : Descends(f, tree, root, step)
  <2>. HIDE DEF step, V
  <2>. QED BY <1>0, <1>2, TreeRecursion
<1>4. \A n \in D : f[n] = IF n = Top THEN root ELSE Next(f[tree[n].dir], n)
  BY <1>0, <1>3 DEF Descends
<1>5. Rec(f)
  <2>1. f = [n \in D |-> f[n]]
    BY <1>3
  <2>. QED BY <1>4, <2>1, Zenon
<1>6. Rec(PathOf)
  BY <1>5, Zenon DEF PathOf, Next
<1>7. \A n \in D : PathOf[n] = IF n = Top THEN root ELSE Next(PathOf[tree[n].dir], n)
  BY <1>6, Zenon
<1>. DEFINE P == {n \in D : PathOf[n] \in V}
<1>8. D \subseteq P
  <2>. HIDE DEF V
  <2>1. Top \in P
    BY <1>0, <1>2, <1>7
  <2>2. ASSUME NEW n \in D \ {Top}, tree[n].dir \in P PROVE n \in P
    <3>1. PathOf[n] = Next(PathOf[tree[n].dir], n)
      BY <1>7
    <3>2. PathOf[tree[n].dir] \in V
      BY <2>2
    <3>. QED BY <1>1, <3>1, <3>2
  <2>. HIDE DEF P
  <2>. QED BY <1>0, <2>1, <2>2, TreeInduction
<1>9. PathOf = [n \in D |-> PathOf[n]]
  BY <1>6, Zenon
<1>10. PathOf \in [D -> V]
  BY <1>8, <1>9
<1>11. ASSUME NEW n \in Below PROVE PathOf[n] = Stem(PathOf[tree[n].dir]) \o tree[n].name
  <2>1. PathOf[n] = Next(PathOf[tree[n].dir], n)
    BY <1>7 DEF Below
  <2>. QED BY <2>1 DEF Next, Joined, Stem
<1>. QED BY <1>0, <1>7, <1>10, <1>11

\* A path does not end with a slash but for the root; it begins like root, and after
\* a slash goes on with something else; and it grows downwards.
LEMMA PathForm ==
  ASSUME TreeInit
  PROVE  /\ \A n \in DOMAIN tree :
              /\ PathOf[n] \in Seq(Letters) /\ Size(PathOf[n]) >= 1
              /\ PathOf[n][1] = root[1]
              /\ Size(PathOf[n]) >= 2 /\ root = Slash => PathOf[n][2] # "/"
         /\ \A n \in Below :
              /\ Size(PathOf[n]) > Size(PathOf[tree[n].dir])
              /\ PathOf[n][Size(PathOf[n])] # "/"
<1>. DEFINE D == DOMAIN tree
            Good(p) == /\ p \in Seq(Letters) /\ Size(p) >= 1 /\ p[1] = root[1]
                       /\ Size(p) >= 2 /\ root = Slash => p[2] # "/"
            Grown(p, q) == Size(q) > Size(p) /\ q[Size(q)] # "/"
            P == {n \in D : Good(PathOf[n])}
<1>1. ASSUME NEW n \in Below, Good(PathOf[tree[n].dir])
      PROVE  Good(PathOf[n]) /\ Grown(PathOf[tree[n].dir], PathOf[n])
  <2>. DEFINE p == PathOf[tree[n].dir]
              s == Stem(p)
              x == tree[n].name
  <2>1. x \in Seq(Letters) /\ Size(x) >= 1 /\ \A i \in 1 .. Size(x) : x[i] # "/"
    BY TreeIs
  <2>2. Slash \in Seq(Letters) /\ Size(Slash) = 1 /\ Slash[1] = "/"
    BY SlashIs
  <2>3. Good(p)
    BY <1>1
  <2>. HIDE DEF p, x
  <2>4. s \in Seq(Letters) /\ Size(s) >= Size(p) /\ s[1] = p[1] 
        /\ (Size(p) >= 2 => s[2] = p[2])
    <3>1. CASE p = Slash
      BY <2>2, <3>1 DEF Stem
    <3>2. CASE p # Slash
      <4>. DEFINE u == p \o Slash
                  a == Size(p)
      <4>1. u \in Seq(Letters) /\ Size(u) = a + 1 /\ \A i \in 1 .. a : u[i] = p[i]
        BY <2>3, SlashAfter
      <4>2. a \in Nat /\ a >= 1
        BY <2>3, Sizes
      <4>3. s = u
        BY <3>2 DEF Stem
      <4>. HIDE DEF u, a, s
      <4>4. /\ s \in Seq(Letters) /\ Size(s) >= a /\ Size(s) >= 2 /\ s[1] = p[1]
            /\ (a >= 2 => s[2] = p[2])
        BY <4>1, <4>2, <4>3
      <4>. QED BY <3>2, <4>2, <4>4, SlashIs DEF a
    <3>. QED BY <3>1, <3>2
  <2>. HIDE DEF s
  <2>5. PathOf[n] = s \o x
    BY PathIs DEF s, p, x
  <2>6. /\ s \o x \in Seq(Letters) /\ Size(s \o x) = Size(s) + Size(x)
        /\ \A i \in 1 .. Size(s) : (s \o x)[i] = s[i]
        /\ \A i \in 1 .. Size(x) : (s \o x)[Size(s) + i] = x[i]
    BY <2>1, <2>4, Glue
  <2>. DEFINE y == s \o x
              a == Size(p)
              b == Size(s)
              c == Size(x)
  <2>7. a \in Nat /\ b \in Nat /\ c \in Nat /\ 1 <= a /\ a <= b /\ 1 <= c
    BY <2>1, <2>3, <2>4, Sizes
  <2>8. /\ Size(y) = b + c /\ \A i \in 1 .. b : y[i] = s[i]
        /\ \A i \in 1 .. c : y[b + i] = x[i]
    BY <2>6
  <2>. HIDE DEF y
  <2>9. Grown(p, y)
    <3>1. c \in 1 .. c
      BY <2>7
    <3>2. y[b + c] # "/"
      BY <2>1, <2>8, <3>1
    <3>. QED BY <2>7, <2>8, <3>2
  <2>10. Good(y)
    <3>1. y[1] = root[1]
      <4>1. 1 \in 1 .. b
        BY <2>7
      <4>. QED BY <2>3, <2>4, <2>8, <4>1
    <3>2. ASSUME root = Slash PROVE y[2] # "/"
      <4>1. CASE a >= 2
        <5>1. 2 \in 1 .. b
          BY <2>7, <4>1
        <5>. QED BY <2>3, <2>4, <2>8, <3>2, <4>1, <5>1
      <4>2. CASE a = 1
        <5>1. p = Slash
          BY <2>2, <2>3, <3>2, <4>2, Same
        <5>2. b = 1 /\ 1 \in 1 .. c /\ 2 = b + 1
          BY <2>2, <2>7, <5>1 DEF s, Stem
        <5>3. y[b + 1] = x[1] /\ x[1] # "/"
          BY <2>1, <2>8, <5>2
        <5>. QED BY <5>2, <5>3
      <4>. HIDE DEF a
      <4>. QED BY <2>7, <4>1, <4>2
    <3>3. y \in Seq(Letters) /\ Size(y) >= 1
      BY <2>6, <2>7, <2>8 DEF y
    <3>. HIDE DEF a, b, c
    <3>. QED BY <3>1, <3>2, <3>3
  <2>. QED BY <2>5, <2>9, <2>10 DEF y, p
<1>2. Good(PathOf[Top])
  <2>1. PathOf[Top] = root
    BY PathIs
  <2>2. root \in Seq(Letters) /\ Size(root) = 1
    BY TreeIs
  <2>3. Good(root)
    BY <2>2
  <2>. HIDE DEF Good
  <2>. QED BY <2>1, <2>3
<1>. HIDE DEF Good, Grown
<1>3. D \subseteq P
  <2>1. Top \in P
    BY <1>2, TreeIs
  <2>2. ASSUME NEW n \in D \ {Top}, tree[n].dir \in P PROVE n \in P
    BY <1>1, <2>2 DEF Below
  <2>. HIDE DEF P
  <2>. QED BY <2>1, <2>2, TreeInduction, TreeIs
<1>4. \A n \in Below : Grown(PathOf[tree[n].dir], PathOf[n])
  BY <1>1, <1>3, TreeIs
<1>. QED BY <1>3, <1>4 DEF Good, Grown

\* Where the last slash is tells the name from what comes before it.
LEMMA SplitOnce ==
  ASSUME NEW s \in Seq(Letters), NEW t \in Seq(Letters), NEW x \in Seq(Letters), NEW y \in Seq(Letters),
         Size(s) >= 1, s[Size(s)] = "/", \A i \in 1 .. Size(x) : x[i] # "/",
         Size(t) >= 1, t[Size(t)] = "/", \A i \in 1 .. Size(y) : y[i] # "/",
         s \o x = t \o y
  PROVE  s = t /\ x = y
<1>. DEFINE p == s \o x
<1>1. /\ Size(p) = Size(s) + Size(x)
      /\ \A i \in 1 .. Size(s) : p[i] = s[i]
      /\ \A i \in 1 .. Size(x) : p[Size(s) + i] = x[i]
  BY Glue
<1>2. /\ Size(p) = Size(t) + Size(y)
      /\ \A i \in 1 .. Size(t) : p[i] = t[i]
      /\ \A i \in 1 .. Size(y) : p[Size(t) + i] = y[i]
  <2>1. /\ Size(t \o y) = Size(t) + Size(y)
        /\ \A i \in 1 .. Size(t) : (t \o y)[i] = t[i]
        /\ \A i \in 1 .. Size(y) : (t \o y)[Size(t) + i] = y[i]
    BY Glue
  <2>. QED BY <2>1
<1>3. Size(s) \in Nat /\ Size(t) \in Nat /\ Size(x) \in Nat /\ Size(y) \in Nat
  BY Sizes
<1>. HIDE DEF p
<1>4. Size(s) = Size(t)
  <2>. DEFINE a == Size(s)
              b == Size(t)
              c == Size(x)
              d == Size(y)
  <2>1. a \in Nat /\ b \in Nat /\ c \in Nat /\ d \in Nat /\ a >= 1 /\ b >= 1 /\ a + c = b + d
    BY <1>1, <1>2, <1>3
  <2>2. p[a] = "/" /\ p[b] = "/"
    <3>1. s[a] = "/" /\ t[b] = "/"
      OBVIOUS
    <3>. HIDE DEF a, b
    <3>2. a \in 1 .. a /\ b \in 1 .. b
      BY <2>1
    <3>3. p[a] = s[a]
      BY <1>1, <3>2 DEF a
    <3>4. p[b] = t[b]
      BY <1>2, <3>2 DEF b
    <3>. QED BY <3>1, <3>3, <3>4
  <2>3. /\ \A i \in 1 .. c : p[a + i] # "/"
        /\ \A i \in 1 .. d : p[b + i] # "/"
    BY <1>1, <1>2
  <2>. HIDE DEF a, b, c, d
  <2>4. ~(a < b)
    <3>1. a < b => b - a \in 1 .. c /\ a + (b - a) = b
      BY <2>1
    <3>. QED BY <2>2, <2>3, <3>1
  <2>5. ~(b < a)
    <3>1. b < a => a - b \in 1 .. d /\ b + (a - b) = a
      BY <2>1
    <3>. QED BY <2>2, <2>3, <3>1
  <2>. QED BY <2>1, <2>4, <2>5 DEF a, b
<1>5. s = t
  <2>1. \A i \in 1 .. Size(s) : s[i] = t[i]
    BY <1>1, <1>2, <1>4
  <2>. QED BY <1>4, <2>1, Same
<1>6. x = y
  <2>1. Size(x) = Size(y)
    BY <1>1, <1>2, <1>3, <1>4
  <2>2. \A i \in 1 .. Size(x) : x[i] = y[i]
    BY <1>1, <1>2, <1>4, <2>1
  <2>. QED BY <2>1, <2>2, Same
<1>. QED BY <1>5, <1>6

\* A stem ends with a slash, and different paths have different stems.
LEMMA StemForm ==
  ASSUME NEW p \in Seq(Letters), Size(p) >= 1
  PROVE  /\ Stem(p) \in Seq(Letters) /\ Size(Stem(p)) >= 1 /\ Stem(p)[Size(Stem(p))] = "/"
         /\ \A q \in Seq(Letters) : Size(q) >= 1 /\ Stem(p) = Stem(q) => p = q
<1>1. Slash \in Seq(Letters) /\ Size(Slash) = 1 /\ Slash[1] = "/"
  BY SlashIs
<1>2. Stem(p) \in Seq(Letters) /\ Size(Stem(p)) >= 1 /\ Stem(p)[Size(Stem(p))] = "/"
  <2>1. CASE p = Slash
    BY <1>1, <2>1 DEF Stem
  <2>2. CASE p # Slash
    <3>. DEFINE u == p \o Slash
    <3>1. u \in Seq(Letters) /\ Size(u) = Size(p) + 1 /\ u[Size(p) + 1] = "/" /\ Size(p) \in Nat
      BY SlashAfter, Sizes
    <3>2. Stem(p) = u
      BY <2>2 DEF Stem
    <3>. HIDE DEF u
    <3>. QED BY <3>1, <3>2
  <2>. QED BY <2>1, <2>2
<1>3. ASSUME NEW q \in Seq(Letters), Size(q) >= 1, Stem(p) = Stem(q) PROVE p = q
  <2>1. Size(p \o Slash) = Size(p) + 1 /\ Size(q \o Slash) = Size(q) + 1 /\ Size(p) \in Nat /\ Size(q) \in Nat
    BY SlashAfter, <1>3, Sizes
  <2>2. CASE p = Slash \/ q = Slash
    BY <1>1, <1>3, <2>1, <2>2 DEF Stem
  <2>3. CASE p # Slash /\ q # Slash
    <3>1. p \o Slash = q \o Slash
      BY <1>3, <2>3 DEF Stem
    <3>. QED BY <1>1, <3>1, ConcatSimplifications
  <2>. QED BY <2>2, <2>3
<1>. QED BY <1>2, <1>3

\* No two nodes have one path.
LEMMA PathsDiffer ==
  ASSUME TreeInit
  PROVE  \A m, n \in DOMAIN tree : PathOf[m] = PathOf[n] => m = n
<1>. DEFINE D == DOMAIN tree
            P == {n \in D : \A m \in D : PathOf[m] = PathOf[n] => m = n}
<1>1. ASSUME NEW n \in Below PROVE PathOf[n] # PathOf[Top]
  <2>1. Size(PathOf[n]) > Size(PathOf[tree[n].dir]) /\ Size(PathOf[tree[n].dir]) >= 1
    BY PathForm, TreeIs
  <2>2. Size(PathOf[n]) \in Nat /\ Size(PathOf[tree[n].dir]) \in Nat
    BY PathForm, TreeIs, Sizes DEF Below
  <2>3. Size(PathOf[Top]) = 1
    BY PathIs, TreeIs
  <2>. QED BY <2>1, <2>2, <2>3
<1>2. Top \in P
  BY <1>1, TreeIs DEF Below
<1>3. ASSUME NEW n \in D \ {Top}, tree[n].dir \in P PROVE n \in P
  <2>1. SUFFICES ASSUME NEW m \in D, PathOf[m] = PathOf[n] PROVE m = n
    OBVIOUS
  <2>2. m \in Below /\ n \in Below
    BY <1>1, <2>1, TreeIs DEF Below
  <2>. DEFINE p == PathOf[tree[m].dir]
              q == PathOf[tree[n].dir]
  <2>3. p \in Seq(Letters) /\ Size(p) >= 1 /\ q \in Seq(Letters) /\ Size(q) >= 1
    BY <2>2, PathForm, TreeIs
  <2>4. PathOf[m] = Stem(p) \o tree[m].name /\ PathOf[n] = Stem(q) \o tree[n].name
    BY <2>2, PathIs
  <2>. HIDE DEF p, q
  <2>5. Stem(p) = Stem(q) /\ tree[m].name = tree[n].name
    <3>. DEFINE x == tree[m].name
                y == tree[n].name
    <3>1. /\ x \in Seq(Letters) /\ \A i \in 1 .. Size(x) : x[i] # "/"
          /\ y \in Seq(Letters) /\ \A i \in 1 .. Size(y) : y[i] # "/"
      BY <2>2, TreeIs
    <3>2. Stem(p) \o x = Stem(q) \o y
      BY <2>1, <2>4
    <3>3. /\ Stem(p) \in Seq(Letters) /\ Size(Stem(p)) >= 1 /\ Stem(p)[Size(Stem(p))] = "/"
          /\ Stem(q) \in Seq(Letters) /\ Size(Stem(q)) >= 1 /\ Stem(q)[Size(Stem(q))] = "/"
      BY <2>3, StemForm
    <3>. HIDE DEF x, y
    <3>4. Stem(p) = Stem(q) /\ x = y
      BY <3>1, <3>2, <3>3, SplitOnce
    <3>. QED BY <3>4 DEF x, y
  <2>6. p = q
    BY <2>3, <2>5, StemForm
  <2>7. tree[m].dir = tree[n].dir
    BY <1>3, <2>2, <2>6, TreeIs DEF p, q
  <2>. QED BY <2>2, <2>5, <2>7, TreeIs DEF WellFormed, Below
<1>4. D \subseteq P
  <2>. HIDE DEF P
  <2>. QED BY <1>2, <1>3, TreeIs, TreeInduction
<1>. QED BY <1>4

\* The kernel finds a node by its path, also after a second slash, and nothing else.
LEMMA Found ==
  ASSUME TreeInit, NEW n \in DOMAIN tree
  PROVE  /\ Lookup(PathOf[n]) = {n}
         /\ root = Slash => Lookup(Slash \o PathOf[n]) = {n}
<1>. DEFINE p == PathOf[n]
<1>1. Slash \in Seq(Letters) /\ Size(Slash) = 1 /\ Slash[1] = "/"
  BY SlashIs
<1>2. p \in Seq(Letters) /\ Size(p) >= 1 /\ p[1] = root[1] /\ (Size(p) >= 2 /\ root = Slash => p[2] # "/")
  BY PathForm
<1>3. Size(p) >= 2 => p[Size(p)] # "/"
  <2>1. CASE n = Top
    BY <2>1, TreeIs, PathIs
  <2>2. CASE n # Top
    BY <2>2, PathForm DEF Below
  <2>. QED BY <2>1, <2>2
<1>. HIDE DEF p
<1>4. ASSUME NEW m \in DOMAIN tree, p = PathOf[m] \o Slash PROVE FALSE
  <2>. DEFINE q == PathOf[m]
              k == Size(q)
  <2>1. q \in Seq(Letters) /\ k >= 1 /\ k \in Nat
    BY PathForm, Sizes
  <2>. HIDE DEF q
  <2>2. Size(p) = k + 1 /\ p[k + 1] = "/"
    BY <1>4, <2>1, SlashAfter DEF q
  <2>. HIDE DEF k
  <2>. QED BY <1>3, <2>1, <2>2
<1>5. ASSUME NEW m \in DOMAIN tree, root = Slash, p = Slash \o PathOf[m] PROVE FALSE
  <2>. DEFINE q == PathOf[m]
              k == Size(q)
  <2>1. q \in Seq(Letters) /\ k >= 1 /\ k \in Nat /\ q[1] = "/"
    BY <1>1, <1>5, PathForm, Sizes
  <2>. HIDE DEF q
  <2>2. Size(p) = 1 + k /\ \A i \in 1 .. k : p[1 + i] = q[i]
    BY <1>5, <2>1, SlashBefore DEF q
  <2>. HIDE DEF k
  <2>3. p[1 + 1] = "/" /\ Size(p) >= 2 /\ 1 + 1 = 2
    BY <2>1, <2>2
  <2>. QED BY <1>2, <1>5, <2>3
<1>6. Lookup(p) = {n}
  <2>1. \A m \in DOMAIN tree : p = PathOf[m] <=> m = n
    BY PathsDiffer DEF p
  <2>. QED BY <1>4, <1>5, <2>1 DEF Lookup
<1>7. ASSUME root = Slash PROVE Lookup(Slash \o p) = {n}
  <2>. DEFINE w == Slash \o p
              l == Size(p)
  <2>1. l \in Nat /\ l >= 1 /\ p[1] = "/" /\ (l >= 2 => p[l] # "/")
    BY <1>1, <1>2, <1>3, <1>7, Sizes
  <2>2. Size(w) = 1 + l /\ w[1] = "/" /\ \A i \in 1 .. l : w[1 + i] = p[i]
    BY <1>2, SlashBefore
  <2>. HIDE DEF l
  <2>3. Size(w) >= 2 /\ w[2] = "/"
    <3>1. 1 \in 1 .. l /\ 1 + 1 = 2 /\ 1 + l >= 2
      BY <2>1
    <3>2. w[1 + 1] = p[1]
      BY <2>2, <3>1
    <3>. QED BY <2>1, <2>2, <3>1, <3>2
  <2>. HIDE DEF w
  <2>4. ASSUME NEW m \in DOMAIN tree, w = PathOf[m] PROVE FALSE
    BY <1>7, <2>3, <2>4, PathForm
  <2>5. ASSUME NEW m \in DOMAIN tree, w = PathOf[m] \o Slash PROVE m = n
    <3>. DEFINE q == PathOf[m]
                k == Size(q)
    <3>1. q \in Seq(Letters) /\ k >= 1 /\ k \in Nat /\ (k >= 2 => q[2] # "/") /\ q[1] = "/"
      BY <1>1, <1>7, PathForm, Sizes
    <3>. HIDE DEF q
    <3>2. Size(w) = k + 1 /\ \A i \in 1 .. k : w[i] = q[i]
      BY <2>5, <3>1, SlashAfter DEF q
    <3>. HIDE DEF k
    <3>3. ~(k >= 2)
      BY <2>3, <3>1, <3>2
    <3>4. k = 1 /\ l = 1
      BY <2>1, <2>2, <3>1, <3>2, <3>3
    <3>5. \A i \in 1 .. k : p[i] = q[i]
      BY <2>1, <3>1, <3>4
    <3>6. p = q
      BY <1>2, <3>1, <3>4, <3>5, Same DEF k, l
    <3>. QED BY <3>6, PathsDiffer DEF p, q
  <2>6. ASSUME NEW m \in DOMAIN tree, w = Slash \o PathOf[m] PROVE m = n
    <3>1. PathOf[m] \in Seq(Letters)
      BY PathForm
    <3>2. p = PathOf[m]
      BY <1>1, <1>2, <2>6, <3>1, ConcatSimplifications DEF w
    <3>. QED BY <3>2, PathsDiffer DEF p
  <2>. QED BY <1>7, <2>4, <2>5, <2>6 DEF Lookup, w, p
<1>. QED BY <1>6, <1>7 DEF p

\* snprintf() leaves a path as it is that fits.
LEMMA CutShort ==
  ASSUME NEW p \in Seq(Letters)
  PROVE  /\ Size(p) <= PathMax => Cut(p) = p
         /\ Cut(p) \in Seq(Letters)
         /\ Size(Cut(p)) = IF Size(p) < PathMax THEN Size(p) ELSE PathMax
<1>. DEFINE k == Len(p)
            m == IF k < PathMax THEN k ELSE PathMax
            c == SubSeq(p, 1, m)
<1>1. PathMax \in Nat /\ k \in Nat /\ \A i \in 1 .. k : p[i] \in Letters
  BY FileTreeAssumption
<1>. HIDE DEF k
<1>2. m \in Nat /\ m <= k
  BY <1>1
<1>3. c \in Seq(Letters) /\ Len(c) = m
  <2>. HIDE DEF m
  <2>1. \A i \in 1 .. m : p[i] \in Letters
    BY <1>1, <1>2
  <2>2. c \in Seq(Letters) /\ Len(c) = IF 1 <= m THEN m - 1 + 1 ELSE 0
    BY <1>2, <2>1, SubSeqProperties
  <2>3. (IF 1 <= m THEN m - 1 + 1 ELSE 0) = m
    BY <1>2
  <2>. QED BY <2>2, <2>3
<1>4. k <= PathMax => m = k
  BY <1>1
<1>5. SubSeq(p, 1, k) = p
  BY SubSeqFull DEF k
<1>6. Cut(p) = c
  BY DEF Cut, k
<1>. HIDE DEF m
<1>7. k <= PathMax => c = p
  BY <1>4, <1>5
<1>. QED BY <1>3, <1>6, <1>7 DEF Size, k, m

\* The path of an entry that is made of the path of its directory leads to it.
LEMMA OwnPath ==
  ASSUME TreeInit, NEW d \in DOMAIN tree, NEW n \in Entries(d)
  PROVE  /\ Joined(PathOf[d], tree[n].name) \in Seq(Letters)
         /\ Lookup(Joined(PathOf[d], tree[n].name)) = {n}
<1>. DEFINE p == PathOf[d]
            x == tree[n].name
<1>1. n \in Below /\ tree[n].dir = d /\ n \in DOMAIN tree
  BY DEF Entries, Below
<1>2. p \in Seq(Letters) /\ p[1] = root[1] /\ x \in Seq(Letters)
  BY <1>1, PathForm, TreeIs
<1>3. PathOf[n] = Stem(p) \o x
  BY <1>1, PathIs
<1>. HIDE DEF p, x
<1>4. CASE p = Slash
  <2>1. root = Slash
    <3>1. root[1] = "/"
      BY <1>2, <1>4, SlashIs
    <3>2. root # <<".">>
      BY <3>1
    <3>. QED BY <3>2 DEF TreeInit
  <2>2. Joined(p, x) = Slash \o PathOf[n]
    BY <1>2, <1>3, <1>4, SlashIs, ConcatAssociative DEF Joined, Stem
  <2>3. Slash \o PathOf[n] \in Seq(Letters)
    BY <1>1, PathForm, SlashBefore
  <2>. QED BY <1>1, <2>1, <2>2, <2>3, Found DEF p, x
<1>5. CASE p # Slash
  <2>1. Joined(p, x) = PathOf[n]
    BY <1>3, <1>5 DEF Joined, Stem
  <2>. QED BY <1>1, <2>1, Found, PathForm DEF p, x
<1>. QED BY <1>4, <1>5

-----------------------------------------------------------------------------
(* The listings *)

\* The last element of a sequence is replaced.
LEMMA LastReplaced ==
  ASSUME NEW S, NEW s \in Seq(S), s # <<>>, NEW r \in S
  PROVE  /\ Front(s) \o <<r>> \in Seq(S) /\ Len(Front(s) \o <<r>>) = Len(s)
         /\ \A i \in 1 .. Len(s) : (Front(s) \o <<r>>)[i] = IF i = Len(s) THEN r ELSE s[i]
<1>. DEFINE k == Len(s)
            f == Front(s)
            t == f \o <<r>>
<1>1. k \in Nat \ {0} /\ \A i \in 1 .. k : s[i] \in S
  BY EmptySeq
<1>2. f = SubSeq(s, 1, k - 1)
  BY DEF Front
<1>. HIDE DEF k, f
<1>3. f \in Seq(S) /\ Len(f) = k - 1 /\ \A i \in 1 .. k - 1 : f[i] = s[i]
  <2>1. /\ f \in Seq(S) /\ Len(f) = IF 1 <= k - 1 THEN k - 1 - 1 + 1 ELSE 0
        /\ \A i \in 1 .. k - 1 - 1 + 1 : f[i] = s[1 + i - 1]
    BY <1>1, <1>2, SubSeqProperties
  <2>2. /\ (IF 1 <= k - 1 THEN k - 1 - 1 + 1 ELSE 0) = k - 1 /\ k - 1 - 1 + 1 = k - 1
        /\ \A i \in 1 .. k - 1 : 1 + i - 1 = i
    BY <1>1
  <2>. QED BY <2>1, <2>2
<1>4. <<r>> \in Seq(S) /\ Len(<<r>>) = 1 /\ <<r>>[1] = r
  OBVIOUS
<1>. DEFINE e == <<r>>
            u == f \o e
<1>. HIDE DEF e
<1>5. /\ u \in Seq(S) /\ Len(u) = Len(f) + Len(e)
      /\ \A i \in 1 .. Len(f) + Len(e) : u[i] = IF i <= Len(f) THEN f[i] ELSE e[i - Len(f)]
  BY <1>3, <1>4, ConcatProperties DEF e
<1>6. Len(f) = k - 1 /\ Len(e) = 1 /\ e[1] = r
  BY <1>3, <1>4 DEF e
<1>. HIDE DEF u
<1>7. /\ Len(u) = k
      /\ \A i \in 1 .. k : u[i] = IF i <= k - 1 THEN f[i] ELSE e[i - (k - 1)]
  <2>1. k - 1 + 1 = k
    BY <1>1
  <2>. QED BY <1>5, <1>6, <2>1
<1>8. ASSUME NEW i \in 1 .. k PROVE u[i] = IF i = k THEN r ELSE s[i]
  <2>1. CASE i = k
    <3>1. ~(i <= k - 1) /\ i - (k - 1) = 1
      BY <1>1, <2>1
    <3>. QED BY <1>6, <1>7, <2>1, <3>1
  <2>2. CASE i # k
    <3>1. i <= k - 1 /\ i \in 1 .. k - 1
      BY <1>1, <2>2
    <3>. QED BY <1>3, <1>7, <2>2, <3>1
  <2>. QED BY <2>1, <2>2
<1>. QED BY <1>5, <1>7, <1>8 DEF k, f, u, e

\* the lines in the rows rs
LinesIn(rs) == UNION {{rs[i][k] : k \in DOMAIN rs[i]} : i \in DOMAIN rs}

\* What the lines are.
LEMMA LinesAre ==
  ASSUME NEW rs, NEW l
  PROVE  l \in LinesIn(rs) <=> \E i \in DOMAIN rs : \E k \in DOMAIN rs[i] : l = rs[i][k]
BY DEF LinesIn

\* One line is new.
LEMMA LinesGrow ==
  ASSUME NEW r, NEW q, NEW x,
         \A i \in DOMAIN r : \A j \in DOMAIN r[i] :
            i \in DOMAIN q /\ j \in DOMAIN q[i] /\ q[i][j] = r[i][j],
         \A i \in DOMAIN q : \A j \in DOMAIN q[i] :
            q[i][j] # x => i \in DOMAIN r /\ j \in DOMAIN r[i] /\ q[i][j] = r[i][j],
         \E i \in DOMAIN q : \E j \in DOMAIN q[i] : q[i][j] = x
  PROVE  LinesIn(q) = LinesIn(r) \cup {x}
<1>1. ASSUME NEW y, y \in LinesIn(r) PROVE y \in LinesIn(q)
  BY <1>1, LinesAre
<1>2. x \in LinesIn(q)
  BY LinesAre
<1>3. ASSUME NEW y, y \in LinesIn(q), y # x PROVE y \in LinesIn(r)
  BY <1>3, LinesAre
<1>. QED BY <1>1, <1>2, <1>3

\* rows of elements of X
RowsOf(X, r) == r \in Seq(Seq(X)) /\ r # <<>>

\* q is r with x added to the last row
Longer(r, x, more, q) == q = Front(r) \o <<Append(Last(r), x)>> \o more

\* A line more in the last row, and perhaps an empty row after it.
LEMMA OneMoreLine ==
  ASSUME NEW X, NEW r, RowsOf(X, r), NEW x \in X, NEW more \in {<<>>, <<<<>>>>},
         NEW q, Longer(r, x, more, q)
  PROVE  /\ RowsOf(X, q)
         /\ \A i \in DOMAIN r : \A j \in DOMAIN r[i] :
              i \in DOMAIN q /\ j \in DOMAIN q[i] /\ q[i][j] = r[i][j]
         /\ \A i \in DOMAIN q : \A j \in DOMAIN q[i] :
              q[i][j] # x => i \in DOMAIN r /\ j \in DOMAIN r[i] /\ q[i][j] = r[i][j]
         /\ \E i \in DOMAIN q : \E j \in DOMAIN q[i] : q[i][j] = x
         /\ Len(q) = IF more = <<>> THEN Len(r) ELSE Len(r) + 1
         /\ \A i \in 1 .. Len(r) : Len(q[i]) = IF i = Len(r) THEN Len(r[i]) + 1 ELSE Len(r[i])
         /\ more # <<>> => Len(q[Len(r) + 1]) = 0
<1>. DEFINE k == Len(r)
            row == Append(Last(r), x)
            t == Front(r) \o <<row>>
<1>0. r \in Seq(Seq(X)) /\ r # <<>>
  BY DEF RowsOf
<1>1. k \in Nat \ {0} /\ \A i \in 1 .. k : r[i] \in Seq(X)
  BY <1>0, EmptySeq
<1>2. Last(r) = r[k] /\ r[k] \in Seq(X)
  <2>1. k \in 1 .. k
    BY <1>1
  <2>. QED BY <1>1, <2>1 DEF Last
<1>3. /\ row \in Seq(X) /\ Len(row) = Len(r[k]) + 1
      /\ \A j \in 1 .. Len(r[k]) : row[j] = r[k][j]
      /\ row[Len(r[k]) + 1] = x
  BY <1>2, AppendProperties
<1>. HIDE DEF row
<1>4. /\ t \in Seq(Seq(X)) /\ Len(t) = k
      /\ \A i \in 1 .. k : t[i] = IF i = k THEN row ELSE r[i]
  BY <1>0, <1>3, LastReplaced
<1>5. q = t \o more
  BY DEF row, Longer
<1>. HIDE DEF k, t
<1>6. /\ q \in Seq(Seq(X)) /\ Len(q) = IF more = <<>> THEN k ELSE k + 1
      /\ \A i \in 1 .. k : q[i] = t[i]
      /\ more # <<>> => q[k + 1] = <<>>
  <2>1. CASE more = <<>>
    BY <1>4, <1>5, <2>1, ConcatEmptySeq
  <2>2. CASE more # <<>>
    <3>. DEFINE S == Seq(X)
                none == <<>>
    <3>1. none \in S /\ t \in Seq(S)
      BY <1>4
    <3>2. more = <<none>>
      BY <2>2
    <3>. HIDE DEF S, none
    <3>3. q = Append(t, none)
      BY <1>5, <3>1, <3>2, AppendIsConcat
    <3>4. /\ q \in Seq(S) /\ Len(q) = Len(t) + 1
          /\ \A i \in 1 .. Len(t) : q[i] = t[i]
          /\ q[Len(t) + 1] = none
      <4>. DEFINE u == Append(t, none)
      <4>1. /\ u \in Seq(S) /\ Len(u) = Len(t) + 1
            /\ \A i \in 1 .. Len(t) : u[i] = t[i]
            /\ u[Len(t) + 1] = none
        BY <3>1, AppendProperties
      <4>. HIDE DEF u
      <4>2. q = u
        BY <3>3 DEF u
      <4>. QED BY <4>1, <4>2
    <3>. QED BY <1>4, <2>2, <3>4 DEF S, none
  <2>. QED BY <2>1, <2>2
<1>7. \A i \in 1 .. k : q[i] = IF i = k THEN row ELSE r[i]
  BY <1>4, <1>6
<1>8. q # <<>>
  <2>1. Len(q) # 0
    BY <1>1, <1>6
  <2>. QED BY <2>1
<1>9. /\ \A i \in DOMAIN r : \A j \in DOMAIN r[i] :
           i \in DOMAIN q /\ j \in DOMAIN q[i] /\ q[i][j] = r[i][j]
      /\ \A i \in DOMAIN q : \A j \in DOMAIN q[i] :
           q[i][j] # x => i \in DOMAIN r /\ j \in DOMAIN r[i] /\ q[i][j] = r[i][j]
      /\ \E i \in DOMAIN q : \E j \in DOMAIN q[i] : q[i][j] = x
  <2>1. DOMAIN r = 1 .. k /\ DOMAIN q = 1 .. (IF more = <<>> THEN k ELSE k + 1)
    BY <1>0, <1>6, LenProperties DEF k
  <2>2. /\ DOMAIN row = 1 .. Len(row) /\ DOMAIN r[k] = 1 .. Len(r[k]) /\ Len(r[k]) \in Nat
        /\ k \in 1 .. k
    BY <1>1, <1>2, <1>3, LenProperties
  <2>. DEFINE l == Len(r[k])
  <2>3. /\ DOMAIN row = 1 .. l + 1 /\ DOMAIN r[k] = 1 .. l /\ l \in Nat
        /\ \A j \in 1 .. l : row[j] = r[k][j]
        /\ row[l + 1] = x
    BY <1>3, <2>2
  <2>. HIDE DEF l
  <2>4. ASSUME NEW i \in DOMAIN r, NEW j \in DOMAIN r[i]
        PROVE  i \in DOMAIN q /\ j \in DOMAIN q[i] /\ q[i][j] = r[i][j]
    <3>1. i \in 1 .. k /\ i \in DOMAIN q
      BY <1>1, <2>1
    <3>2. CASE i = k
      <4>1. j \in DOMAIN r[k]
        BY <3>2
      <4>2. j \in 1 .. l /\ j \in 1 .. l + 1
        BY <2>3, <4>1
      <4>3. q[i] = row /\ row[j] = r[k][j] /\ j \in DOMAIN row
        BY <1>7, <2>3, <3>1, <3>2, <4>2
      <4>. QED BY <3>1, <3>2, <4>3
    <3>3. CASE i # k
      BY <1>7, <3>1, <3>3
    <3>. QED BY <3>2, <3>3
  <2>5. k \in DOMAIN q /\ l + 1 \in DOMAIN q[k] /\ q[k][l + 1] = x
    <3>1. k \in DOMAIN q
      BY <1>1, <2>1
    <3>3. q[k] = row
      BY <1>7, <2>2
    <3>2. l + 1 \in 1 .. l + 1
      BY <2>3
    <3>. QED BY <2>3, <3>1, <3>2, <3>3
  <2>6. ASSUME NEW i \in DOMAIN q, NEW j \in DOMAIN q[i], q[i][j] # x
        PROVE  i \in DOMAIN r /\ j \in DOMAIN r[i] /\ q[i][j] = r[i][j]
    <3>1. CASE i = k
      <4>1. q[i] = row /\ k \in DOMAIN r
        BY <1>7, <2>1, <2>2, <3>1
      <4>2. j \in 1 .. l + 1 /\ row[j] # x
        BY <2>3, <2>6, <4>1
      <4>3. j \in 1 .. l
        BY <2>3, <4>2
      <4>4. row[j] = r[k][j] /\ j \in DOMAIN r[k]
        BY <2>3, <4>3
      <4>. QED BY <3>1, <4>1, <4>4
    <3>2. CASE i \in 1 .. k /\ i # k
      BY <1>7, <2>1, <3>2
    <3>3. CASE i \notin 1 .. k
      <4>1. more # <<>> /\ i = k + 1
        BY <1>1, <2>1, <3>3
      <4>2. q[i] = <<>>
        BY <1>6, <4>1
      <4>. QED BY <4>2
    <3>. QED BY <3>1, <3>2, <3>3
  <2>. HIDE DEF row, l
  <2>7. \A i \in DOMAIN r : \A j \in DOMAIN r[i] :
          i \in DOMAIN q /\ j \in DOMAIN q[i] /\ q[i][j] = r[i][j]
    BY <2>4
  <2>8. \A i \in DOMAIN q : \A j \in DOMAIN q[i] :
          q[i][j] # x => i \in DOMAIN r /\ j \in DOMAIN r[i] /\ q[i][j] = r[i][j]
    BY <2>6
  <2>9. \E i \in DOMAIN q : \E j \in DOMAIN q[i] : q[i][j] = x
    BY <2>5
  <2>. QED BY <2>7, <2>8, <2>9
<1>10. \A i \in 1 .. k : Len(q[i]) = IF i = k THEN Len(r[i]) + 1 ELSE Len(r[i])
  BY <1>3, <1>7
<1>11. more # <<>> => Len(q[k + 1]) = 0
  BY <1>6
<1>. QED BY <1>6, <1>8, <1>9, <1>10, <1>11 DEF k, RowsOf

\* The lines are those before and the new one.
LEMMA OneMore ==
  ASSUME NEW X, NEW r, RowsOf(X, r), NEW x \in X, NEW more \in {<<>>, <<<<>>>>},
         NEW q, Longer(r, x, more, q)
  PROVE  LinesIn(q) = LinesIn(r) \cup {x}
<1>1. /\ \A i \in DOMAIN r : \A j \in DOMAIN r[i] :
           i \in DOMAIN q /\ j \in DOMAIN q[i] /\ q[i][j] = r[i][j]
      /\ \A i \in DOMAIN q : \A j \in DOMAIN q[i] :
           q[i][j] # x => i \in DOMAIN r /\ j \in DOMAIN r[i] /\ q[i][j] = r[i][j]
      /\ \E i \in DOMAIN q : \E j \in DOMAIN q[i] : q[i][j] = x
  BY OneMoreLine
<1>. QED BY <1>1, LinesGrow

\* A step changes neither the tree nor what is read off it.
LEMMA SameTree ==
  ASSUME UNCHANGED treeVars
  PROVE  /\ tree' = tree /\ root' = root /\ Below' = Below
         /\ PathOf' = PathOf /\ Above' = Above
         /\ \A p : Lookup(p)' = Lookup(p)
         /\ \A d : Entries(d)' = Entries(d)
<1>1. PathOf' = PathOf
  BY DEF PathOf, treeVars, Joined
<1>2. Above' = Above
  BY DEF Above, treeVars
<1>3. \A p : Lookup(p)' = Lookup(p)
  BY <1>1 DEF Lookup, treeVars, IsDir
<1>4. \A d : Entries(d)' = Entries(d)
  BY DEF Entries, treeVars, Below
<1>. QED BY <1>1, <1>2, <1>3, <1>4 DEF treeVars, Below

LineSet == [entry : Below, of : DOMAIN tree]
Names == program \in {"names", ""}

ListTypes ==
  /\ ls \in {"start", "running", "over"} /\ program \in {"long", "names", "-l", ""}
  /\ target \in DOMAIN tree /\ left \subseteq Entries(target) /\ count \in 1 .. 3
  /\ RowsOf(LineSet, rows)

\* a line of metadata that is the entry's own, or one of the exceptions
Own(l) ==
  \/ l.of = l.entry
  \/ program = "long" /\ tree[l.of].dir = Top /\ target # Top
  \/ Len(Joined(PathOf[target], tree[l.entry].name)) > PathMax

OwnLines == \A l \in LinesIn(rows) : Own(l)

\* nothing is printed before the directory is open
NothingYet == ls = "start" => LinesIn(rows) = {} /\ errors = {}

\* each entry is printed, complained about or still to come
AllListed ==
  ls = "running" =>
    {n \in Entries(target) : ~Hidden(n)} =
      {l.entry : l \in LinesIn(rows)} \cup errors \cup {n \in left : ~Hidden(n)}

\* all rows but the last are full, and count is the place in the last
RowsFull ==
  \A i \in 1 .. Len(rows) :
     Len(rows[i]) = IF i = Len(rows) THEN (IF Names THEN count - 1 ELSE 0)
                                     ELSE (IF Names THEN 3 ELSE 1)

ListInv == TreeInit /\ ListTypes /\ OwnLines /\ NothingYet /\ AllListed /\ RowsFull

\* At the start there is one empty row.
LEMMA InitLists == TreeInit /\ ListInit => ListInv
<1>. SUFFICES ASSUME TreeInit, ListInit PROVE ListInv
  OBVIOUS
<1>1. rows \in Seq(Seq(LineSet)) /\ rows # <<>>
  <2>. DEFINE S == Seq(LineSet)
              none == <<>>
  <2>1. none \in S
    OBVIOUS
  <2>. HIDE DEF S, none
  <2>2. <<none>> \in Seq(S)
    BY <2>1
  <2>. QED BY <2>2 DEF ListInit, S, none
<1>2. Len(rows) = 1 /\ DOMAIN rows = 1 .. 1 /\ rows[1] = <<>> /\ Len(rows[1]) = 0
  <2>. DEFINE none == <<>>
  <2>1. rows = <<none>> /\ Len(none) = 0
    BY DEF ListInit
  <2>. HIDE DEF none
  <2>2. Len(<<none>>) = 1 /\ DOMAIN <<none>> = 1 .. 1 /\ <<none>>[1] = none
    OBVIOUS
  <2>. QED BY <2>1, <2>2 DEF none
<1>3. LinesIn(rows) = {}
  BY <1>2 DEF LinesIn
<1>4. ListTypes
  <2>1. RowsOf(LineSet, rows)
    BY <1>1 DEF RowsOf
  <2>2. ls = "start" /\ program \in {"long", "names", "-l", ""}
    BY Zenon DEF ListInit
  <2>3. target \in DOMAIN tree
    BY Zenon DEF ListInit
  <2>4. left = {} /\ count = 1
    BY Zenon DEF ListInit
  <2>5. left \subseteq Entries(target) /\ count \in 1 .. 3
    BY <2>4
  <2>6. ls \in {"start", "running", "over"}
    BY <2>2
  <2>. QED BY <2>1, <2>2, <2>3, <2>5, <2>6 DEF ListTypes
<1>5. RowsFull
  <2>1. count = 1
    BY DEF ListInit
  <2>2. \A i \in 1 .. 1 : Len(rows[i]) = 0 /\ i = 1
    BY <1>2
  <2>. QED BY <1>2, <2>1, <2>2 DEF RowsFull
<1>. QED BY <1>3, <1>4, <1>5 DEF ListInv, OwnLines, NothingYet, AllListed, ListInit

\* What the metadata of an entry are of.
LEMMA StatIsOwn ==
  ASSUME TreeInit, target \in DOMAIN tree, NEW n \in Entries(target), NEW m \in Stat(n)
  PROVE  m \in DOMAIN tree /\ Own([entry |-> n, of |-> m])
<1>. DEFINE l == [entry |-> n, of |-> m]
            p == Joined(PathOf[target], tree[n].name)
<1>1. l.entry = n /\ l.of = m /\ n \in Below /\ tree[n].dir = target
  BY DEF Entries
<1>2. CASE program = "long"
  <2>1. m \in Below /\ tree[m].dir = Top /\ tree[m].name = tree[n].name
    BY <1>2 DEF Stat, Entries
  <2>2. target = Top => m = n
    BY <1>1, <2>1, TreeIs DEF WellFormed, Below
  <2>. QED BY <1>1, <1>2, <2>1, <2>2 DEF Own, Below
<1>3. CASE program # "long"
  <2>1. m \in Lookup(Cut(p)) /\ m \in DOMAIN tree
    BY <1>3 DEF Stat, Lookup
  <2>2. p \in Seq(Letters) /\ Lookup(p) = {n}
    BY OwnPath
  <2>. HIDE DEF l
  <2>3. CASE Size(p) <= PathMax
    <3>1. Cut(p) = p
      BY <2>2, <2>3, CutShort
    <3>. QED BY <1>1, <2>1, <2>2, <3>1 DEF Own, l
  <2>4. CASE ~(Size(p) <= PathMax)
    <3>1. Size(p) \in Nat /\ PathMax \in Nat
      BY <2>2, Sizes, FileTreeAssumption
    <3>2. Size(p) > PathMax
      BY <2>4, <3>1
    <3>3. Len(Joined(PathOf[target], tree[l.entry].name)) > PathMax
      BY <1>1, <3>2 DEF Size
    <3>. QED BY <2>1, <3>3 DEF Own, l
  <2>. QED BY <2>3, <2>4
<1>. QED BY <1>2, <1>3

\* A line is added.
LEMMA PrintedKeeps ==
  ASSUME ListInv, NEW n \in left, ~Hidden(n), NEW m \in DOMAIN tree, NEW newline \in BOOLEAN,
         Own([entry |-> n, of |-> m]), Printed(n, m, newline),
         ls = "running", left' = left \ {n}, UNCHANGED <<ls, program, target, errors>>,
         UNCHANGED treeVars, count' \in 1 .. 3,
         IF Names THEN newline = (count = 3) /\ count' = (IF count # 3 THEN count + 1 ELSE 1)
                  ELSE newline
  PROVE  ListInv'
<1>. DEFINE x == [entry |-> n, of |-> m]
            more == IF newline THEN <<<<>>>> ELSE <<>>
<1>0. TreeInit /\ ListTypes /\ OwnLines /\ AllListed /\ RowsFull
  BY DEF ListInv
<1>1. UNCHANGED <<tree, root, ls, program, target, errors>> /\ TreeInit'
  BY <1>0 DEF treeVars, TreeInit
<1>2. /\ Below' = Below /\ PathOf' = PathOf /\ Entries(target)' = Entries(target)
  BY <1>1, SameTree DEF Entries
<1>3. x \in LineSet /\ x.entry = n /\ more \in {<<>>, <<<<>>>>}
  BY <1>0 DEF ListTypes, Entries, LineSet
<1>4. Longer(rows, x, more, rows')
  BY DEF Printed, Longer
<1>5. RowsOf(LineSet, rows)
  BY <1>0 DEF ListTypes
<1>. HIDE DEF more, x
<1>6. RowsOf(LineSet, rows') /\ LinesIn(rows') = LinesIn(rows) \cup {x}
  BY <1>3, <1>4, <1>5, OneMore, OneMoreLine
<1>7. ListTypes'
  <2>1. RowsOf(LineSet, rows)'
    BY <1>1, <1>2, <1>6 DEF LineSet
  <2>. QED BY <1>0, <1>1, <1>2, <2>1 DEF ListTypes
<1>8. OwnLines'
  <2>1. \A l : Own(l)' <=> Own(l)
    BY <1>1, <1>2 DEF Own
  <2>2. LinesIn(rows)' = LinesIn(rows) \cup {x}
    BY <1>6
  <2>. QED BY <1>0, <2>1, <2>2 DEF OwnLines, x
<1>9. AllListed'
  <2>1. \A k : Hidden(k)' <=> Hidden(k)
    BY <1>1 DEF Hidden
  <2>2. LinesIn(rows)' = LinesIn(rows) \cup {x}
    BY <1>6
  <2>3. {k \in Entries(target) : ~Hidden(k)} =
          {l.entry : l \in LinesIn(rows)} \cup errors \cup {k \in left : ~Hidden(k)}
    BY <1>0 DEF AllListed
  <2>4. {l.entry : l \in LinesIn(rows) \cup {x}} = {l.entry : l \in LinesIn(rows)} \cup {n}
    BY <1>3
  <2>5. {k \in left' : ~Hidden(k)} = {k \in left : ~Hidden(k)} \ {n}
    OBVIOUS
  <2>. DEFINE E == {k \in Entries(target) : ~Hidden(k)}
              P == {l.entry : l \in LinesIn(rows)}
              L == {k \in left : ~Hidden(k)}
  <2>6. E' = E /\ P' = P \cup {n} /\ L' = L \ {n} /\ n \in L /\ errors' = errors
    BY <1>1, <1>2, <2>1, <2>2, <2>4, <2>5
  <2>7. E = P \cup errors \cup L
    BY <2>3
  <2>8. E' = P' \cup errors' \cup L'
    <3>. HIDE DEF E, P, L
    <3>. QED BY <2>6, <2>7
  <2>. QED BY <2>8 DEF AllListed
<1>10. RowsFull'
  <2>. DEFINE k == Len(rows)
  <2>1. /\ Len(rows') = IF more = <<>> THEN k ELSE k + 1
        /\ \A i \in 1 .. k : Len(rows'[i]) = IF i = k THEN Len(rows[i]) + 1 ELSE Len(rows[i])
        /\ more # <<>> => Len(rows'[k + 1]) = 0
    BY <1>3, <1>4, <1>5, OneMoreLine
  <2>2. \A i \in 1 .. k : Len(rows[i]) = IF i = k THEN (IF Names THEN count - 1 ELSE 0)
                                               ELSE (IF Names THEN 3 ELSE 1)
    BY <1>0 DEF RowsFull
  <2>3. k \in Nat \ {0} /\ count \in 1 .. 3
    BY <1>0, <1>5, EmptySeq DEF RowsOf, ListTypes
  <2>4. Names' = Names
    BY <1>1 DEF Names
  <2>5. more = <<>> <=> ~newline
    BY DEF more
  <2>. HIDE DEF k
  <2>6. ASSUME newline PROVE RowsFull'
    <3>1. Len(rows') = k + 1
      BY <2>1, <2>5, <2>6
    <3>2. ASSUME NEW i \in 1 .. k + 1
          PROVE  Len(rows'[i]) = IF i = k + 1 THEN (IF Names THEN count' - 1 ELSE 0)
                                              ELSE (IF Names THEN 3 ELSE 1)
      <4>1. CASE i = k + 1
        <5>1. Len(rows'[i]) = 0
          BY <2>1, <2>5, <2>6, <4>1
        <5>2. Names => count' = 1
          BY <2>6
        <5>. QED BY <4>1, <5>1, <5>2
      <4>2. CASE i = k
        <5>1. Len(rows'[i]) = (IF Names THEN count - 1 ELSE 0) + 1
          BY <2>1, <2>2, <2>3, <4>2
        <5>2. Names => count = 3
          BY <2>6
        <5>3. i # k + 1
          BY <2>3, <4>2
        <5>4. CASE Names
          <6>1. Len(rows'[i]) = 3 - 1 + 1
            BY <5>1, <5>2, <5>4
          <6>. QED BY <5>3, <5>4, <6>1
        <5>5. CASE ~Names
          <6>1. Len(rows'[i]) = 0 + 1
            BY <5>1, <5>5
          <6>. QED BY <5>3, <5>5, <6>1
        <5>. QED BY <5>4, <5>5
      <4>3. CASE i \in 1 .. k /\ i # k
        <5>1. Len(rows'[i]) = IF Names THEN 3 ELSE 1
          BY <2>1, <2>2, <4>3
        <5>2. i # k + 1
          BY <2>3, <4>3
        <5>. QED BY <5>1, <5>2
      <4>. QED BY <2>3, <4>1, <4>2, <4>3
    <3>3. \A i \in 1 .. Len(rows') :
            Len(rows'[i]) = IF i = Len(rows') THEN (IF Names' THEN count' - 1 ELSE 0)
                                              ELSE (IF Names' THEN 3 ELSE 1)
      BY <2>4, <3>1, <3>2
    <3>. QED BY <3>3 DEF RowsFull
  <2>7. ASSUME ~newline PROVE RowsFull'
    <3>1. Len(rows') = k /\ Names /\ count' = count + 1
      BY <2>1, <2>5, <2>7
    <3>2. ASSUME NEW i \in 1 .. k
          PROVE  Len(rows'[i]) = IF i = k THEN count' - 1 ELSE 3
      <4>1. CASE i = k
        <5>1. Len(rows'[i]) = count - 1 + 1
          BY <2>1, <2>2, <2>3, <3>1, <4>1
        <5>. QED BY <2>3, <3>1, <4>1, <5>1
      <4>2. CASE i # k
        BY <2>1, <2>2, <3>1, <4>2
      <4>. QED BY <4>1, <4>2
    <3>3. \A i \in 1 .. Len(rows') :
            Len(rows'[i]) = IF i = Len(rows') THEN (IF Names' THEN count' - 1 ELSE 0)
                                              ELSE (IF Names' THEN 3 ELSE 1)
      BY <2>4, <3>1, <3>2
    <3>. QED BY <3>3 DEF RowsFull
  <2>. QED BY <2>6, <2>7
<1>11. NothingYet'
  BY <1>1 DEF NothingYet
<1>. QED BY <1>1, <1>7, <1>8, <1>9, <1>10, <1>11 DEF ListInv

\* What is not printed is hidden or complained about.
LEMMA UnprintedKeeps ==
  ASSUME ListInv, NEW n \in left, ls = "running", left' = left \ {n},
         UNCHANGED <<ls, program, target, rows, count>>, UNCHANGED treeVars,
         IF Hidden(n) THEN errors' = errors ELSE errors' = errors \cup {n}
  PROVE  ListInv'
<1>0. TreeInit /\ ListTypes /\ OwnLines /\ AllListed /\ RowsFull
  BY DEF ListInv
<1>1. UNCHANGED <<tree, root, ls, program, target, rows, count>> /\ TreeInit'
  BY <1>0 DEF treeVars, TreeInit
<1>2. /\ Below' = Below /\ PathOf' = PathOf /\ Entries(target)' = Entries(target)
      /\ LinesIn(rows)' = LinesIn(rows)
  BY <1>1, SameTree DEF Entries
<1>3. ListTypes'
  <2>1. RowsOf(LineSet, rows)'
    BY <1>0, <1>1, <1>2 DEF LineSet, ListTypes
  <2>. QED BY <1>0, <1>1, <1>2, <2>1 DEF ListTypes
<1>4. OwnLines'
  <2>1. \A l : Own(l)' <=> Own(l)
    BY <1>1, <1>2 DEF Own
  <2>. QED BY <1>0, <1>2, <2>1 DEF OwnLines
<1>5. AllListed'
  <2>1. \A k : Hidden(k)' <=> Hidden(k)
    BY <1>1 DEF Hidden
  <2>. DEFINE E == {k \in Entries(target) : ~Hidden(k)}
              P == {l.entry : l \in LinesIn(rows)}
              L == {k \in left : ~Hidden(k)}
  <2>2. E' = E /\ P' = P /\ L' = L \ {n}
    BY <1>1, <1>2, <2>1
  <2>3. E = P \cup errors \cup L
    BY <1>0 DEF AllListed
  <2>4. IF n \in L THEN errors' = errors \cup {n} ELSE errors' = errors
    OBVIOUS
  <2>5. E' = P' \cup errors' \cup L'
    <3>. HIDE DEF E, P, L
    <3>. QED BY <2>2, <2>3, <2>4
  <2>. QED BY <2>5 DEF AllListed
<1>6. RowsFull'
  BY <1>0, <1>1 DEF RowsFull, Names
<1>7. NothingYet'
  BY <1>1 DEF NothingYet
<1>. QED BY <1>1, <1>3, <1>4, <1>5, <1>6, <1>7 DEF ListInv

\* Everything keeps it.
LEMMA NextLists == ListInv /\ [ListNext]_<<treeVars, listVars>> => ListInv'
<1>. SUFFICES ASSUME ListInv, [ListNext]_<<treeVars, listVars>> PROVE ListInv'
  OBVIOUS
<1>0. TreeInit /\ ListTypes /\ OwnLines /\ NothingYet /\ AllListed /\ RowsFull
  BY DEF ListInv
<1>1. UNCHANGED <<tree, root>> /\ TreeInit'
  BY <1>0 DEF treeVars, TreeInit, ListNext
<1>2. /\ Below' = Below /\ PathOf' = PathOf /\ \A d : Entries(d)' = Entries(d)
  BY <1>1, SameTree DEF treeVars
<1>3. ASSUME UNCHANGED <<program, target, rows, count, errors>>, ls # "start" => left' = left,
             ls = "start" => left' \in {left, Entries(target)},
             \/ ls' = ls \/ ls' = "over"
             \/ ls = "start" /\ ls' = "running" /\ left' = Entries(target)
      PROVE  ListInv'
  <2>1. Entries(target)' = Entries(target) /\ LinesIn(rows)' = LinesIn(rows)
    BY <1>2, <1>3
  <2>2. ListTypes'
    <3>1. RowsOf(LineSet, rows)'
      BY <1>0, <1>1, <1>2, <1>3 DEF LineSet, ListTypes
    <3>. QED BY <1>0, <1>3, <2>1, <1>1, <3>1 DEF ListTypes
  <2>3. OwnLines'
    <3>1. \A l : Own(l)' <=> Own(l)
      BY <1>1, <1>2, <1>3 DEF Own
    <3>. QED BY <1>0, <2>1, <3>1 DEF OwnLines
  <2>4. NothingYet'
    BY <1>0, <1>3, <2>1 DEF NothingYet, ListTypes
  <2>5. AllListed'
    <3>1. \A k : Hidden(k)' <=> Hidden(k)
      BY <1>1 DEF Hidden
    <3>2. CASE ls = "start" /\ ls' = "running"
      BY <1>0, <1>3, <2>1, <3>1, <3>2 DEF AllListed, NothingYet
    <3>3. CASE ~(ls = "start" /\ ls' = "running")
      BY <1>0, <1>3, <2>1, <3>1, <3>3 DEF AllListed, ListTypes
    <3>. QED BY <3>2, <3>3
  <2>6. RowsFull'
    BY <1>0, <1>3 DEF RowsFull, Names
  <2>. QED BY <1>1, <2>2, <2>3, <2>4, <2>5, <2>6 DEF ListInv
<1>4. CASE OpenDir
  BY <1>3, <1>4 DEF OpenDir
<1>5. CASE ListEntry
  <2>1. PICK n \in left :
          /\ left' = left \ {n}
          /\ \/ Hidden(n) /\ UNCHANGED <<rows, count, errors>>
             \/ ~Hidden(n) /\ program \in {"names", ""} /\ Name(n)
             \/ ~Hidden(n) /\ program \in {"long", "-l"} /\ Long(n)
    BY <1>5 DEF ListEntry
  <2>2. ls = "running" /\ UNCHANGED <<ls, program, target>> /\ UNCHANGED treeVars
    BY <1>1, <1>5 DEF ListEntry, treeVars
  <2>3. n \in Entries(target) /\ n \in DOMAIN tree /\ target \in DOMAIN tree /\ count \in 1 .. 3
    BY <1>0 DEF ListTypes, Entries, Below
  <2>4. CASE Hidden(n) /\ UNCHANGED <<rows, count, errors>>
    BY <2>1, <2>2, <2>4, UnprintedKeeps
  <2>5. CASE ~Hidden(n) /\ program \in {"names", ""} /\ Name(n)
    <3>1. Printed(n, n, count = 3) /\ UNCHANGED errors
          /\ count' = IF count # 3 THEN count + 1 ELSE 1
      BY <2>5 DEF Name
    <3>2. (count = 3) \in BOOLEAN /\ count' \in 1 .. 3
      BY <2>3, <3>1
    <3>3. Names
      BY <2>5 DEF Names
    <3>4. Own([entry |-> n, of |-> n])
      BY DEF Own
    <3>. QED BY <2>1, <2>2, <2>3, <2>5, <3>1, <3>2, <3>3, <3>4, PrintedKeeps
  <2>6. CASE ~Hidden(n) /\ program \in {"long", "-l"} /\ Long(n)
    <3>1. CASE errors' = errors \cup {n} /\ UNCHANGED <<rows, count>>
      BY <2>1, <2>2, <2>6, <3>1, UnprintedKeeps
    <3>2. CASE (\E m \in Stat(n) : Printed(n, m, TRUE)) /\ UNCHANGED <<count, errors>>
      <4>1. PICK m \in Stat(n) : Printed(n, m, TRUE)
        BY <3>2
      <4>2. m \in DOMAIN tree /\ Own([entry |-> n, of |-> m])
        BY <1>0, <2>3, StatIsOwn
      <4>3. ~Names /\ TRUE \in BOOLEAN /\ count' \in 1 .. 3
        BY <2>3, <2>6, <3>2 DEF Names
      <4>. QED BY <2>1, <2>2, <2>6, <3>2, <4>1, <4>2, <4>3, PrintedKeeps
    <3>. QED BY <2>6, <3>1, <3>2 DEF Long
  <2>. QED BY <2>1, <2>4, <2>5, <2>6
<1>6. CASE CloseDir
  BY <1>3, <1>6 DEF CloseDir
<1>7. CASE UNCHANGED <<treeVars, listVars>>
  BY <1>3, <1>7 DEF listVars
<1>. QED BY <1>4, <1>5, <1>6, <1>7 DEF ListNext

\* A line is about the entry it names, with the two exceptions that HW2_1_1 looks names
\* up in the current directory and that a path may be cut off; every entry that is not
\* hidden is printed or complained about; and rows are full: for any trees.
THEOREM LinesAreOwn == ListSpec => []ListsItsOwn
<1>1. ListInv => ListsItsOwn
  <2>. SUFFICES ASSUME ListInv PROVE ListsItsOwn
    OBVIOUS
  <2>0. OwnLines /\ AllListed /\ RowsFull /\ RowsOf(LineSet, rows)
    BY DEF ListInv, ListTypes
  <2>1. Lines = LinesIn(rows)
    BY DEF Lines, LinesIn
  <2>2. \A l \in Lines :
          \/ l.of = l.entry
          \/ program = "long" /\ tree[l.of].dir = Top /\ target # Top
          \/ Len(Joined(PathOf[target], tree[l.entry].name)) > PathMax
    BY <2>0, <2>1 DEF OwnLines, Own
  <2>3. ls = "running" =>
          {n \in Entries(target) : ~Hidden(n)} =
            {l.entry : l \in Lines} \cup errors \cup {n \in left : ~Hidden(n)}
    BY <2>0, <2>1 DEF AllListed
  <2>4. DOMAIN rows = 1 .. Len(rows)
    BY <2>0, LenProperties DEF RowsOf
  <2>5. \A i \in DOMAIN rows :
          Len(rows[i]) = (IF program \in {"names", ""} THEN 3 ELSE 1) \/ i = Len(rows)
    BY <2>0, <2>4 DEF RowsFull, Names
  <2>. QED BY <2>2, <2>3, <2>5 DEF ListsItsOwn
<1>2. ListSpec => []ListInv
  BY InitLists, NextLists, PTL DEF ListSpec
<1>. QED BY <1>1, <1>2, PTL

-----------------------------------------------------------------------------
(* The search *)

Under(m, n) == n \in Above[m] \cup {m}

\* nothing on the way to n is hidden
Visible(n) == \A m \in (Above[n] \cup {n}) \ {Top} : ~Hidden(m)

\* a path that was not cut off
Short(p) == Size(p) < PathMax

\* the paths among pr that were not cut off, and that they differ
WereIn(pr) == {pr[k] : k \in {j \in DOMAIN pr : Short(pr[j])}}
OneEach(pr) == \A j, k \in DOMAIN pr : Short(pr[j]) /\ pr[j] = pr[k] => j = k

Calls == [dir : DOMAIN tree, path : Seq(Letters), left : SUBSET Below]
Call(d, p) == [dir |-> d, path |-> p, left |-> Entries(d)]
Added(q, st, d, p) == q = Append(st, Call(d, p))
Taken(q, st, n) == q = [st EXCEPT ![Len(st)].left = @ \ {n}]
OnePathMore(q, pr, f) == q = Append(pr, f)
Noted(q, pr, n, f) == q = IF ~Hidden(n) /\ tree[n].name = Target THEN Append(pr, f) ELSE pr
StackOf(st) == st \in Seq(Calls)
PathsOf(pr) == pr \in Seq(Seq(Letters))

\* each call is about a directory, and unless its path was cut off this is the
\* directory's, and there is a call for each of the directories above
CallsOwn(st) ==
  \A k \in 1 .. Size(st) :
    /\ st[k].left \subseteq Entries(st[k].dir) /\ Size(st[k].path) <= PathMax
    /\ Short(st[k].path) =>
         /\ st[k].path = PathOf[st[k].dir] /\ Visible(st[k].dir)
         /\ Cardinality(Above[st[k].dir]) = k - 1

\* neither was m printed nor is there a call for it
Fresh(m, st, pr) ==
  /\ PathOf[m] \notin WereIn(pr)
  /\ \A j \in 1 .. Size(st) : Short(st[j].path) => st[j].dir # m

\* nor for anything below an entry that is left
FreshBelow(st, pr) ==
  \A k \in 1 .. Size(st) : Short(st[k].path) =>
    \A n \in st[k].left, m \in DOMAIN tree : Under(m, n) => Fresh(m, st, pr)

PrintedOnce(pr) == OneEach(pr) /\ WereIn(pr) \subseteq {PathOf[n] : n \in Matches}

\* n is below an entry that is left
Pending(n, st) ==
  \E k \in 1 .. Size(st) : Short(st[k].path) /\ \E m \in st[k].left : Under(n, m)

\* the reasons for which a match is not printed
Excused(n, fl) ==
  \/ Size(PathOf[n]) >= PathMax
  \/ \E d \in Above[n] : d \in fl \/ ~tree[d].told
  \/ Cardinality(Above[n]) > MaxOpen

NoneMissed(st, pr, fl) ==
  \A n \in Matches : Excused(n, fl) \/ PathOf[n] \in WereIn(pr) \/ Pending(n, st)

Holds(se, st, di, pr, fl) ==
  /\ StackOf(st) /\ PathsOf(pr) /\ di = Size(st)
  /\ se = "start" => st = <<>> /\ pr = <<>>
  /\ CallsOwn(st) /\ FreshBelow(st, pr) /\ PrintedOnce(pr)
  /\ se = "running" => NoneMissed(st, pr, fl)

SearchInv == TreeInit /\ Holds(search, stack, dirs, printed, failed)

\* Going up from a node one does not come back to it, and what is above something
\* above it is above it.
LEMMA AboveForm ==
  ASSUME TreeInit
  PROVE  \A n \in DOMAIN tree :
           /\ IsFiniteSet(Above[n]) /\ Above[n] \subseteq DOMAIN tree /\ n \notin Above[n]
           /\ \A m \in Above[n] : IsDir(m) /\ Above[m] \subseteq Above[n]
           /\ n # Top => Top \in Above[n]
<1>. DEFINE D == DOMAIN tree
            Good(n) == /\ IsFiniteSet(Above[n]) /\ Above[n] \subseteq DOMAIN tree /\ n \notin Above[n]
                       /\ \A m \in Above[n] : IsDir(m) /\ Above[m] \subseteq Above[n]
                       /\ n # Top => Top \in Above[n]
            P == {n \in D : Good(n)}
<1>1. Top \in P
  BY TreeIs, AboveIs, FS_EmptySet
<1>2. ASSUME NEW n \in D \ {Top}, tree[n].dir \in P PROVE n \in P
  <2>. DEFINE d == tree[n].dir
  <2>1. Good(d) /\ d \in D /\ IsDir(d) /\ Above[n] = Above[d] \cup {d}
    BY <1>2, TreeIs, AboveIs DEF Below
  <2>. HIDE DEF d
  <2>2. IsFiniteSet(Above[n]) /\ Above[n] \subseteq DOMAIN tree
    BY <2>1, FS_AddElement
  <2>3. \A m \in Above[n] : IsDir(m) /\ Above[m] \subseteq Above[n]
    BY <2>1
  <2>4. n \notin Above[n]
    <3>1. ASSUME n \in Above[n] PROVE FALSE
      <4>1. d \in Above[n]
        BY <2>1
      <4>2. CASE n = d
        BY <2>1, <3>1, <4>1, <4>2
      <4>3. CASE n \in Above[d]
        BY <2>1, <4>1, <4>3
      <4>. QED BY <2>1, <3>1, <4>2, <4>3
    <3>. QED BY <3>1
  <2>5. Top \in Above[n]
    BY <2>1
  <2>. QED BY <2>2, <2>3, <2>4, <2>5
<1>3. D \subseteq P
  <2>. HIDE DEF P
  <2>. QED BY <1>1, <1>2, TreeIs, TreeInduction
<1>. QED BY <1>3

\* Entries of one directory are not below each other; what is below an entry is below the
\* directory; and there are more directories above it.
LEMMA BelowEntries ==
  ASSUME TreeInit, NEW d \in DOMAIN tree, NEW n \in Entries(d)
  PROVE  /\ n \in DOMAIN tree /\ Above[n] = Above[d] \cup {d}
         /\ Cardinality(Above[d]) \in Nat /\ Cardinality(Above[n]) = Cardinality(Above[d]) + 1
         /\ \A e \in Entries(d) : Under(n, e) => e = n
         /\ \A m \in DOMAIN tree : Under(m, n) => Under(m, d) /\ m # d
<1>1. n \in Below /\ n \in DOMAIN tree /\ tree[n].dir = d
  BY DEF Entries, Below
<1>2. Above[n] = Above[d] \cup {d}
  BY <1>1, AboveIs
<1>3. Cardinality(Above[d]) \in Nat /\ Cardinality(Above[n]) = Cardinality(Above[d]) + 1
  BY <1>2, AboveForm, FS_AddElement, FS_CardinalityType
<1>4. ASSUME NEW e \in Entries(d), Under(n, e), e # n PROVE FALSE
  <2>1. Above[e] = Above[d] \cup {d} /\ e \in DOMAIN tree
    BY AboveIs DEF Entries, Below
  <2>2. e \in Above[d] \cup {d}
    BY <1>2, <1>4 DEF Under
  <2>3. e \notin Above[e] /\ d \notin Above[d]
    BY <2>1, AboveForm
  <2>. QED BY <2>1, <2>2, <2>3
<1>5. ASSUME NEW m \in DOMAIN tree, Under(m, n) PROVE Under(m, d) /\ m # d
  <2>1. d \in Above[n]
    BY <1>2
  <2>2. CASE m = n
    BY <1>1, <2>1, <2>2, AboveForm DEF Under
  <2>3. CASE n \in Above[m]
    BY <2>1, <2>3, AboveForm DEF Under
  <2>. QED BY <1>5, <2>2, <2>3 DEF Under
<1>. QED BY <1>1, <1>2, <1>3, <1>4, <1>5

\* The way from a node down to one below it goes through one of its entries.
LEMMA WayDown ==
  ASSUME TreeInit
  PROVE  \A x \in DOMAIN tree : \A n \in Above[x] : \E e \in Entries(n) : Under(x, e)
<1>. DEFINE D == DOMAIN tree
            P == {x \in D : \A n \in Above[x] : \E e \in Entries(n) : Under(x, e)}
<1>1. Top \in P
  BY TreeIs, AboveIs
<1>2. ASSUME NEW x \in D \ {Top}, tree[x].dir \in P PROVE x \in P
  <2>. DEFINE d == tree[x].dir
  <2>1. Above[x] = Above[d] \cup {d} /\ x \in Entries(d) /\ d \in D
    BY <1>2, AboveIs DEF Below, Entries
  <2>2. ASSUME NEW n \in Above[x] PROVE \E e \in Entries(n) : Under(x, e)
    <3>1. CASE n = d
      BY <2>1, <3>1 DEF Under
    <3>2. CASE n \in Above[d]
      <4>1. PICK e \in Entries(n) : Under(d, e)
        BY <1>2, <3>2
      <4>2. Under(x, e)
        BY <2>1, <4>1 DEF Under
      <4>. QED BY <4>2
    <3>. QED BY <2>1, <2>2, <3>1, <3>2
  <2>. QED BY <2>2
<1>3. D \subseteq P
  <2>. HIDE DEF P
  <2>. QED BY <1>1, <1>2, TreeIs, TreeInduction
<1>. QED BY <1>3

\* Below a node the paths are longer, and there is more above.
LEMMA DownGrows ==
  ASSUME TreeInit
  PROVE  \A x \in DOMAIN tree : \A n \in Above[x] :
           /\ Size(PathOf[n]) \in Nat /\ Size(PathOf[x]) \in Nat /\ Size(PathOf[x]) > Size(PathOf[n])
           /\ Cardinality(Above[n]) \in Nat /\ Cardinality(Above[x]) \in Nat
           /\ Cardinality(Above[x]) > Cardinality(Above[n])
<1>. DEFINE D == DOMAIN tree
            More(n, x) == /\ Size(PathOf[n]) \in Nat /\ Size(PathOf[x]) \in Nat
                          /\ Size(PathOf[x]) > Size(PathOf[n])
                          /\ Cardinality(Above[n]) \in Nat /\ Cardinality(Above[x]) \in Nat
                          /\ Cardinality(Above[x]) > Cardinality(Above[n])
            P == {x \in D : \A n \in Above[x] : More(n, x)}
<1>1. Top \in P
  BY TreeIs, AboveIs
<1>2. ASSUME NEW x \in D \ {Top}, tree[x].dir \in P PROVE x \in P
  <2>. DEFINE d == tree[x].dir
  <2>1. Above[x] = Above[d] \cup {d} /\ x \in Entries(d) /\ d \in D /\ x \in Below
    BY <1>2, AboveIs DEF Below, Entries
  <2>2. More(d, x)
    <3>0. Size(PathOf[x]) > Size(PathOf[d]) /\ PathOf[d] \in Seq(Letters) /\ PathOf[x] \in Seq(Letters)
      BY <2>1, PathForm
    <3>1. Size(PathOf[x]) > Size(PathOf[d]) /\ Size(PathOf[d]) \in Nat /\ Size(PathOf[x]) \in Nat
      BY <3>0, Sizes
    <3>2. Cardinality(Above[d]) \in Nat /\ Cardinality(Above[x]) = Cardinality(Above[d]) + 1
      <4>1. d \in DOMAIN tree /\ x \in Entries(d)
        BY <2>1
      <4>. HIDE DEF d
      <4>. QED BY <4>1, BelowEntries
    <3>. QED BY <3>1, <3>2
  <2>3. ASSUME NEW n \in Above[d] PROVE More(n, x)
    <3>1. More(n, d)
      BY <1>2
    <3>. QED BY <2>2, <3>1
  <2>. HIDE DEF More
  <2>. QED BY <2>1, <2>2, <2>3
<1>3. D \subseteq P
  <2>. HIDE DEF P
  <2>. QED BY <1>1, <1>2, TreeIs, TreeInduction
<1>. QED BY <1>3

\* The path that is made for an entry: its own, unless it is cut off.
LEMMA PathMade ==
  ASSUME TreeInit, NEW d \in DOMAIN tree, NEW n \in Entries(d), NEW p \in Seq(Letters),
         Size(p) <= PathMax, Short(p) => p = PathOf[d]
  PROVE  /\ Path(p, tree[n].name) \in Seq(Letters) /\ Size(Path(p, tree[n].name)) <= PathMax
         /\ Short(Path(p, tree[n].name)) => Short(p) /\ Path(p, tree[n].name) = PathOf[n]
         /\ Short(p) => (Short(Path(p, tree[n].name)) <=> Size(PathOf[n]) < PathMax)
<1>. DEFINE x == tree[n].name
            u == Stem(p) \o x
            f == Path(p, x)
<1>0. n \in Below /\ tree[n].dir = d /\ n \in DOMAIN tree
  BY DEF Entries, Below
<1>1. x \in Seq(Letters) /\ Size(x) \in Nat /\ Size(x) >= 1
  BY <1>0, TreeIs, Sizes
<1>2. Stem(p) \in Seq(Letters) /\ Size(Stem(p)) \in Nat /\ Size(Stem(p)) >= Size(p)
  <2>1. CASE p = Slash
    BY <2>1, SlashIs DEF Stem
  <2>2. CASE p # Slash
    <3>1. p \o Slash \in Seq(Letters) /\ Size(p \o Slash) = Size(p) + 1 /\ Size(p) \in Nat
      BY SlashAfter, Sizes
    <3>. DEFINE w == p \o Slash
    <3>2. Stem(p) = w
      BY <2>2 DEF Stem
    <3>. HIDE DEF w
    <3>3. Size(w) = Size(p) + 1 /\ w \in Seq(Letters)
      BY <3>1 DEF w
    <3>. QED BY <3>1, <3>2, <3>3
  <2>. QED BY <2>1, <2>2
<1>. HIDE DEF x
<1>3. u \in Seq(Letters) /\ Size(u) = Size(Stem(p)) + Size(x)
  BY <1>1, <1>2, Glue
<1>4. f = Cut(u)
  BY DEF Path, Stem, Joined, Slash
<1>5. PathMax \in Nat /\ Size(p) \in Nat
  BY FileTreeAssumption, Sizes
<1>6. p = PathOf[d] => u = PathOf[n]
  BY <1>0, PathIs DEF x
<1>. HIDE DEF u, f
<1>7. /\ Size(u) <= PathMax => Cut(u) = u
      /\ Cut(u) \in Seq(Letters)
      /\ Size(Cut(u)) = IF Size(u) < PathMax THEN Size(u) ELSE PathMax
  BY <1>3, CutShort
<1>8. Size(u) \in Nat /\ Size(u) > Size(p)
  BY <1>1, <1>2, <1>3, <1>5
<1>9. f \in Seq(Letters) /\ Size(f) <= PathMax /\ (Short(f) <=> Size(u) < PathMax)
  BY <1>4, <1>5, <1>7, <1>8 DEF Short
<1>10. Size(u) < PathMax => Short(p) /\ f = u
  BY <1>4, <1>5, <1>7, <1>8 DEF Short
<1>. QED BY <1>6, <1>9, <1>10 DEF f, x

\* One path more is printed.
LEMMA OnePrinted ==
  ASSUME NEW pr, PathsOf(pr), NEW f \in Seq(Letters), NEW q, OnePathMore(q, pr, f)
  PROVE  /\ PathsOf(q)
         /\ WereIn(q) = WereIn(pr) \cup (IF Short(f) THEN {f} ELSE {})
         /\ OneEach(pr) /\ f \notin WereIn(pr) => OneEach(q)
<1>. DEFINE S == Seq(Letters)
            k == Size(pr)
<1>. HIDE DEF S
<1>0. pr \in Seq(S) /\ f \in S
  BY DEF S, PathsOf
<1>1. k \in Nat /\ DOMAIN pr = 1 .. k
  BY <1>0, LenProperties DEF Size
<1>2. /\ q \in Seq(S) /\ Size(q) = k + 1
      /\ \A i \in 1 .. k : q[i] = pr[i]
      /\ q[k + 1] = f
  BY <1>0, AppendProperties DEF Size, OnePathMore
<1>3. DOMAIN q = 1 .. k + 1
  BY <1>2, LenProperties DEF Size
<1>. HIDE DEF k
<1>4. PathsOf(q)
  BY <1>2 DEF PathsOf, S
<1>. DEFINE P(i) == Short(q[i])
            new == IF Short(f) THEN {f} ELSE {}
<1>5. ASSUME NEW y PROVE y \in WereIn(q) <=> y \in WereIn(pr) \cup new
  <2>1. ASSUME y \in WereIn(q) PROVE y \in WereIn(pr) \cup new
    <3>1. PICK i \in DOMAIN q : Short(q[i]) /\ y = q[i]
      BY <2>1 DEF WereIn
    <3>2. CASE i = k + 1
      BY <1>2, <3>1, <3>2
    <3>3. CASE i # k + 1
      <4>1. i \in 1 .. k
        BY <1>1, <1>3, <3>3
      <4>. QED BY <1>1, <1>2, <3>1, <4>1 DEF WereIn
    <3>. QED BY <3>2, <3>3
  <2>2. ASSUME y \in WereIn(pr) PROVE y \in WereIn(q)
    <3>1. PICK i \in DOMAIN pr : Short(pr[i]) /\ y = pr[i]
      BY <2>2 DEF WereIn
    <3>2. i \in DOMAIN q /\ q[i] = pr[i]
      BY <1>1, <1>2, <1>3
    <3>. QED BY <3>1, <3>2 DEF WereIn
  <2>3. ASSUME y \in new PROVE y \in WereIn(q)
    <3>1. Short(f) /\ y = f /\ k + 1 \in DOMAIN q /\ q[k + 1] = f
      BY <1>1, <1>2, <1>3, <2>3
    <3>. QED BY <3>1 DEF WereIn
  <2>. QED BY <2>1, <2>2, <2>3
<1>6. ASSUME OneEach(pr), f \notin WereIn(pr) PROVE OneEach(q)
  <2>1. ASSUME NEW i \in DOMAIN q, NEW j \in DOMAIN q, Short(q[i]), q[i] = q[j] PROVE i = j
    <3>1. CASE i = k + 1 /\ j = k + 1
      BY <3>1
    <3>2. CASE i # k + 1 /\ j # k + 1
      <4>1. i \in DOMAIN pr /\ j \in DOMAIN pr /\ q[i] = pr[i] /\ q[j] = pr[j]
        BY <1>1, <1>2, <1>3, <3>2
      <4>. QED BY <1>6, <2>1, <4>1 DEF OneEach
    <3>3. CASE i # k + 1 /\ j = k + 1
      <4>1. i \in DOMAIN pr /\ q[i] = pr[i] /\ q[j] = f
        BY <1>1, <1>2, <1>3, <3>3
      <4>. QED BY <1>6, <2>1, <4>1 DEF WereIn
    <3>4. CASE i = k + 1 /\ j # k + 1
      <4>1. j \in DOMAIN pr /\ q[j] = pr[j] /\ q[i] = f
        BY <1>1, <1>2, <1>3, <3>4
      <4>. QED BY <1>6, <2>1, <4>1 DEF WereIn
    <3>. QED BY <3>1, <3>2, <3>3, <3>4
  <2>. QED BY <2>1 DEF OneEach
<1>. QED BY <1>4, <1>5, <1>6

\* An entry is taken from the last call.
LEMMA EntryTaken ==
  ASSUME StackOf(stack), stack # <<>>, NEW n, NEW rest, Taken(rest, stack, n)
  PROVE  /\ StackOf(rest) /\ Size(rest) = Size(stack) /\ Size(stack) \in Nat \ {0}
         /\ Last(stack) = stack[Size(stack)]
         /\ \A k \in 1 .. Size(stack) :
              /\ stack[k].dir \in DOMAIN tree /\ stack[k].path \in Seq(Letters)
              /\ rest[k].dir = stack[k].dir /\ rest[k].path = stack[k].path
              /\ k = Size(stack) => rest[k].left = stack[k].left \ {n}
              /\ k # Size(stack) => rest[k].left = stack[k].left
<1>. DEFINE k == Len(stack)
            c == [stack[k] EXCEPT !.left = @ \ {n}]
            S == Calls
<1>0. stack \in Seq(S)
  BY DEF StackOf
<1>1. k \in Nat \ {0} /\ \A i \in 1 .. k : stack[i] \in S
  BY <1>0, EmptySeq
<1>2. \A i \in 1 .. k : stack[i].dir \in DOMAIN tree /\ stack[i].path \in Seq(Letters)
  BY <1>1 DEF Calls
<1>3. k \in 1 .. k
  BY <1>1
<1>4. c \in S /\ c.dir = stack[k].dir /\ c.path = stack[k].path /\ c.left = stack[k].left \ {n}
  BY <1>1, <1>3 DEF Calls
<1>5. rest = [stack EXCEPT ![k] = c]
  BY DEF Taken
<1>. HIDE DEF c, S
<1>6. /\ rest \in Seq(S) /\ Len(rest) = k
      /\ \A i \in 1 .. k : rest[i] = IF i = k THEN c ELSE stack[i]
  <2>. DEFINE u == [stack EXCEPT ![k] = c]
  <2>1. k \in 1 .. Len(stack) /\ Len(stack) = k
    BY <1>3
  <2>. HIDE DEF k
  <2>2. /\ u \in Seq(S) /\ Len(u) = Len(stack)
        /\ \A i \in 1 .. Len(stack) : u[i] = IF i = k THEN c ELSE stack[i]
    BY <1>0, <1>4, <2>1, ExceptSeq
  <2>. HIDE DEF u
  <2>3. rest = u
    BY <1>5 DEF u
  <2>. QED BY <2>1, <2>2, <2>3
<1>7. Last(stack) = stack[k] /\ k = Size(stack)
  BY DEF Last, Size
<1>. HIDE DEF k
<1>8. ASSUME NEW i \in 1 .. k
      PROVE  /\ stack[i].dir \in DOMAIN tree /\ stack[i].path \in Seq(Letters)
             /\ rest[i].dir = stack[i].dir /\ rest[i].path = stack[i].path
             /\ i = k => rest[i].left = stack[i].left \ {n}
             /\ i # k => rest[i].left = stack[i].left
  <2>1. CASE i = k
    <3>1. rest[i] = c
      BY <1>6, <2>1
    <3>. QED BY <1>2, <1>4, <2>1, <3>1
  <2>2. CASE i # k
    <3>1. rest[i] = stack[i]
      BY <1>6, <2>2
    <3>2. stack[i].dir \in DOMAIN tree /\ stack[i].path \in Seq(Letters)
      BY <1>2
    <3>3. rest[i].left = stack[i].left /\ rest[i].dir = stack[i].dir /\ rest[i].path = stack[i].path
      BY <3>1, Zenon
    <3>. QED BY <2>2, <3>2, <3>3, Zenon
  <2>. QED BY <2>1, <2>2
<1>9. StackOf(rest) /\ Size(rest) = k
  BY <1>6 DEF StackOf, S, Size
<1>. QED BY <1>1, <1>7, <1>8, <1>9

\* A call is added.
LEMMA CallAdded ==
  ASSUME NEW st, StackOf(st), NEW d \in DOMAIN tree, NEW p \in Seq(Letters),
         NEW q, Added(q, st, d, p)
  PROVE  /\ StackOf(q) /\ Size(st) \in Nat /\ Size(q) = Size(st) + 1
         /\ \A k \in 1 .. Size(st) : q[k] = st[k]
         /\ q[Size(st) + 1].dir = d /\ q[Size(st) + 1].path = p /\ q[Size(st) + 1].left = Entries(d)
<1>. DEFINE c == Call(d, p)
            S == Calls
<1>0. st \in Seq(S)
  BY DEF StackOf
<1>1. c \in S /\ c.dir = d /\ c.path = p /\ c.left = Entries(d)
  BY DEF Call, Calls, Entries
<1>. HIDE DEF c, S
<1>2. /\ q \in Seq(S) /\ Size(q) = Size(st) + 1 /\ Size(st) \in Nat
      /\ \A k \in 1 .. Size(st) : q[k] = st[k]
      /\ q[Size(st) + 1] = c
  BY <1>0, <1>1, AppendProperties DEF Size, c, Added
<1>. QED BY <1>1, <1>2 DEF StackOf, S

\* The last call returns.
LEMMA CallEnds ==
  ASSUME StackOf(stack), stack # <<>>, NEW q, q = Front(stack)
  PROVE  /\ StackOf(q) /\ Size(stack) \in Nat \ {0} /\ Size(q) = Size(stack) - 1
         /\ \A k \in 1 .. Size(q) : q[k] = stack[k]
<1>. DEFINE k == Len(stack)
            S == Calls
<1>0. stack \in Seq(S)
  BY DEF StackOf
<1>1. k \in Nat \ {0} /\ \A i \in 1 .. k : stack[i] \in S
  BY <1>0, EmptySeq
<1>2. q = SubSeq(stack, 1, k - 1)
  BY DEF Front
<1>. HIDE DEF k, S
<1>3. /\ q \in Seq(S) /\ Len(q) = IF 1 <= k - 1 THEN k - 1 - 1 + 1 ELSE 0
      /\ \A i \in 1 .. k - 1 - 1 + 1 : q[i] = stack[1 + i - 1]
  BY <1>1, <1>2, SubSeqProperties
<1>4. /\ (IF 1 <= k - 1 THEN k - 1 - 1 + 1 ELSE 0) = k - 1 /\ k - 1 - 1 + 1 = k - 1
      /\ \A i \in 1 .. k - 1 : 1 + i - 1 = i
  BY <1>1
<1>5. Len(q) = k - 1 /\ \A i \in 1 .. k - 1 : q[i] = stack[i]
  BY <1>3, <1>4
<1>. QED BY <1>1, <1>3, <1>5 DEF StackOf, Size, S, k

\* Nothing has been done.
LEMMA NothingDone ==
  /\ StackOf(<<>>) /\ PathsOf(<<>>) /\ Size(<<>>) = 0
  /\ WereIn(<<>>) = {} /\ OneEach(<<>>)
<1>1. StackOf(<<>>) /\ PathsOf(<<>>)
  BY EmptySeq DEF StackOf, PathsOf
<1>2. Size(<<>>) = 0 /\ DOMAIN <<>> = {}
  BY DEF Size
<1>. QED BY <1>1, <1>2 DEF WereIn, OneEach

\* At the start nothing was printed and nothing is open.
LEMMA InitSearch == TreeInit /\ SearchInit => SearchInv
<1>. SUFFICES ASSUME TreeInit, SearchInit PROVE SearchInv
  OBVIOUS
<1>1. stack = <<>> /\ printed = <<>> /\ dirs = 0 /\ search = "start"
  BY DEF SearchInit
<1>2. CallsOwn(stack) /\ FreshBelow(stack, printed)
  BY <1>1, NothingDone DEF CallsOwn, FreshBelow
<1>3. PrintedOnce(printed)
  BY <1>1, NothingDone DEF PrintedOnce
<1>. QED BY <1>1, <1>2, <1>3, NothingDone DEF SearchInv, Holds

\* A directory that nothing left is above, and that is itself fresh all below, gets a call.
LEMMA CallKeeps ==
  ASSUME TreeInit, NEW st, NEW pr, StackOf(st), CallsOwn(st), FreshBelow(st, pr),
         NEW d \in DOMAIN tree, NEW p \in Seq(Letters), Size(p) <= PathMax,
         Short(p) =>
           /\ p = PathOf[d] /\ Visible(d) /\ Cardinality(Above[d]) = Size(st)
           /\ \A m \in DOMAIN tree : Under(m, d) /\ m # d => Fresh(m, st, pr)
           /\ \A k \in 1 .. Size(st) : Short(st[k].path) => \A e \in st[k].left : ~Under(d, e),
         NEW q, Added(q, st, d, p)
  PROVE  /\ StackOf(q) /\ Size(q) = Size(st) + 1 /\ CallsOwn(q) /\ FreshBelow(q, pr)
         /\ \A x : Pending(x, st) => Pending(x, q)
         /\ Short(p) => \A x \in DOMAIN tree : d \in Above[x] => Pending(x, q)
<1>. DEFINE T == Size(st)
<1>1. /\ StackOf(q) /\ T \in Nat /\ Size(q) = T + 1
      /\ \A k \in 1 .. T : q[k] = st[k]
      /\ q[T + 1].dir = d /\ q[T + 1].path = p /\ q[T + 1].left = Entries(d)
  <2>1. /\ StackOf(q) /\ Size(st) \in Nat /\ Size(q) = Size(st) + 1
        /\ \A k \in 1 .. Size(st) : q[k] = st[k]
        /\ q[Size(st) + 1].dir = d /\ q[Size(st) + 1].path = p /\ q[Size(st) + 1].left = Entries(d)
    BY CallAdded
  <2>. QED BY <2>1
<1>. HIDE DEF T
<1>2. \A k \in 1 .. Size(q) : k \in 1 .. T \/ k = T + 1
  BY <1>1
<1>3. CallsOwn(q)
  <2>. SUFFICES ASSUME NEW k \in 1 .. Size(q)
                PROVE  /\ q[k].left \subseteq Entries(q[k].dir) /\ Size(q[k].path) <= PathMax
                       /\ Short(q[k].path) =>
                            /\ q[k].path = PathOf[q[k].dir] /\ Visible(q[k].dir)
                            /\ Cardinality(Above[q[k].dir]) = k - 1
    BY DEF CallsOwn
  <2>1. CASE k \in 1 .. T
    BY <1>1, <2>1 DEF CallsOwn, T
  <2>2. CASE k = T + 1
    <3>1. k - 1 = T
      BY <1>1, <2>2
    <3>. QED BY <1>1, <2>2, <3>1 DEF T
  <2>. QED BY <1>2, <2>1, <2>2
<1>4. ASSUME NEW m \in DOMAIN tree, Fresh(m, st, pr), Short(p) => m # d
      PROVE  Fresh(m, q, pr)
  <2>. SUFFICES ASSUME NEW j \in 1 .. Size(q), Short(q[j].path) PROVE q[j].dir # m
    BY <1>4 DEF Fresh
  <2>1. CASE j \in 1 .. T
    BY <1>1, <1>4, <2>1 DEF Fresh, T
  <2>2. CASE j = T + 1
    BY <1>1, <1>4, <2>2
  <2>. QED BY <1>2, <2>1, <2>2
<1>5. FreshBelow(q, pr)
  <2>. SUFFICES ASSUME NEW k \in 1 .. Size(q), Short(q[k].path),
                       NEW n \in q[k].left, NEW m \in DOMAIN tree, Under(m, n)
                PROVE  Fresh(m, q, pr)
    BY DEF FreshBelow
  <2>1. CASE k \in 1 .. T
    <3>1. Short(st[k].path) /\ n \in st[k].left
      BY <1>1, <2>1
    <3>2. Fresh(m, st, pr)
      BY <2>1, <3>1 DEF FreshBelow, T
    <3>3. Short(p) => m # d
      BY <2>1, <3>1 DEF T
    <3>. QED BY <1>4, <3>2, <3>3
  <2>2. CASE k = T + 1
    <3>1. Short(p) /\ n \in Entries(d)
      BY <1>1, <2>2
    <3>2. Under(m, d) /\ m # d
      BY <3>1, BelowEntries
    <3>3. Fresh(m, st, pr)
      BY <3>1, <3>2
    <3>. QED BY <1>4, <3>2, <3>3
  <2>. QED BY <1>2, <2>1, <2>2
<1>6. ASSUME NEW x, Pending(x, st) PROVE Pending(x, q)
  <2>1. PICK k \in 1 .. T : Short(st[k].path) /\ \E m \in st[k].left : Under(x, m)
    BY <1>6 DEF Pending, T
  <2>2. k \in 1 .. Size(q)
    BY <1>1
  <2>3. q[k] = st[k]
    BY <1>1, Zenon
  <2>. QED BY <2>1, <2>2, <2>3 DEF Pending
<1>7. ASSUME Short(p), NEW x \in DOMAIN tree, d \in Above[x] PROVE Pending(x, q)
  <2>1. \E e \in Entries(d) : Under(x, e)
    BY <1>7, WayDown
  <2>2. T + 1 \in 1 .. Size(q)
    BY <1>1
  <2>. QED BY <1>1, <1>7, <2>1, <2>2 DEF Pending
<1>. QED BY <1>1, <1>3, <1>5, <1>6, <1>7 DEF T

\* Nothing is at hand when a call returns.
LEMMA ReturnKeeps ==
  ASSUME StackOf(stack), stack # <<>>, Last(stack).left = {}, NEW pr, CallsOwn(stack),
         FreshBelow(stack, pr), NEW q, q = Front(stack)
  PROVE  /\ StackOf(q) /\ Size(stack) \in Nat /\ Size(q) = Size(stack) - 1
         /\ CallsOwn(q) /\ FreshBelow(q, pr)
         /\ \A x : Pending(x, stack) => Pending(x, q)
<1>1. /\ StackOf(q) /\ Size(stack) \in Nat \ {0} /\ Size(q) = Size(stack) - 1
      /\ \A k \in 1 .. Size(q) : q[k] = stack[k]
  BY CallEnds
<1>2. \A k \in 1 .. Size(q) : k \in 1 .. Size(stack)
  BY <1>1
<1>3. CallsOwn(q)
  BY <1>1, <1>2 DEF CallsOwn
<1>4. FreshBelow(q, pr)
  <2>. SUFFICES ASSUME NEW k \in 1 .. Size(q), Short(q[k].path),
                       NEW n \in q[k].left, NEW m \in DOMAIN tree, Under(m, n)
                PROVE  Fresh(m, q, pr)
    BY DEF FreshBelow
  <2>1. Fresh(m, stack, pr)
    BY <1>1, <1>2 DEF FreshBelow
  <2>. QED BY <1>1, <1>2, <2>1 DEF Fresh
<1>5. ASSUME NEW x, Pending(x, stack) PROVE Pending(x, q)
  <2>1. PICK k \in 1 .. Size(stack) : Short(stack[k].path) /\ \E m \in stack[k].left : Under(x, m)
    BY <1>5 DEF Pending
  <2>2. stack[Size(stack)].left = {}
    BY DEF Last, Size
  <2>3. k \in 1 .. Size(q)
    BY <1>1, <2>1, <2>2
  <2>4. q[k] = stack[k]
    BY <1>1, <2>3
  <2>. QED BY <2>1, <2>3, <2>4 DEF Pending
<1>. QED BY <1>1, <1>3, <1>4, <1>5

\* What holds of an entry that is at hand, if the path of its directory was not cut off.
LEMMA AtHand ==
  ASSUME TreeInit, StackOf(stack), CallsOwn(stack), FreshBelow(stack, printed),
         stack # <<>>, NEW n \in stack[Size(stack)].left, Short(stack[Size(stack)].path)
  PROVE  /\ n \in DOMAIN tree /\ Cardinality(Above[n]) = Size(stack) /\ (~Hidden(n) => Visible(n))
         /\ \A m \in DOMAIN tree : Under(m, n) => Fresh(m, stack, printed)
         /\ \A k \in 1 .. Size(stack) : Short(stack[k].path) =>
              \A e \in stack[k].left : (k = Size(stack) => e # n) => ~Under(n, e)
<1>. DEFINE T == Size(stack)
            d == stack[T].dir
<1>1. /\ T \in Nat \ {0} /\ T \in 1 .. T
      /\ \A k \in 1 .. T : stack[k].dir \in DOMAIN tree /\ stack[k].path \in Seq(Letters)
  <2>. DEFINE rest == [stack EXCEPT ![Len(stack)].left = @ \ {n}]
  <2>1. Taken(rest, stack, n)
    BY DEF Taken
  <2>. HIDE DEF rest, T, d
  <2>2. /\ Size(stack) \in Nat \ {0}
        /\ \A k \in 1 .. Size(stack) :
             stack[k].dir \in DOMAIN tree /\ stack[k].path \in Seq(Letters)
    BY <2>1, EntryTaken, Zenon
  <2>. QED BY <2>2 DEF T
<1>2. \A k \in 1 .. T :
        /\ stack[k].left \subseteq Entries(stack[k].dir)
        /\ Short(stack[k].path) => Visible(stack[k].dir) /\ Cardinality(Above[stack[k].dir]) = k - 1
  BY DEF CallsOwn
<1>3. n \in stack[T].left /\ Short(stack[T].path)
  OBVIOUS
<1>4. \A k \in 1 .. T : Short(stack[k].path) =>
        \A e \in stack[k].left, m \in DOMAIN tree : Under(m, e) => Fresh(m, stack, printed)
  BY DEF FreshBelow
<1>. HIDE DEF T
<1>5. n \in Entries(d) /\ d \in DOMAIN tree /\ Visible(d) /\ Cardinality(Above[d]) = T - 1
  BY <1>1, <1>2, <1>3
<1>. HIDE DEF d
<1>6. /\ n \in DOMAIN tree /\ Above[n] = Above[d] \cup {d} /\ Cardinality(Above[d]) \in Nat
      /\ Cardinality(Above[n]) = Cardinality(Above[d]) + 1
  BY <1>5, BelowEntries
<1>7. Cardinality(Above[n]) = T
  BY <1>1, <1>5, <1>6
<1>8. ~Hidden(n) => Visible(n)
  BY <1>5, <1>6 DEF Visible
<1>9. \A m \in DOMAIN tree : Under(m, n) => Fresh(m, stack, printed)
  BY <1>1, <1>3, <1>4
<1>10. ASSUME NEW k \in 1 .. T, Short(stack[k].path), NEW e \in stack[k].left,
              k = T => e # n, Under(n, e)
       PROVE  FALSE
  <2>1. CASE k = T
    <3>1. e \in Entries(d)
      BY <1>2, <1>10, <2>1 DEF d
    <3>2. e # n
      BY <1>10, <2>1
    <3>3. e \in DOMAIN tree /\ \A x \in Entries(d) : Under(e, x) => x = e
      BY <1>5, <3>1, BelowEntries
    <3>4. Above[e] = Above[n] /\ e \notin Above[e]
      BY <1>5, <1>6, <3>1, <3>3, BelowEntries, AboveForm
    <3>. QED BY <1>10, <3>2, <3>4 DEF Under
  <2>2. CASE k # T
    <3>1. ~Under(d, e)
      <4>1. ASSUME Under(d, e) PROVE FALSE
        <5>1. Fresh(d, stack, printed)
          BY <1>4, <1>5, <1>10, <4>1
        <5>. QED BY <1>1, <1>3, <5>1 DEF Fresh, T, d
      <4>. QED BY <4>1
    <3>2. e = n
      BY <1>6, <1>10, <3>1 DEF Under
    <3>3. stack[k].dir = d
      <4>1. e \in Entries(stack[k].dir)
        BY <1>2, <1>10
      <4>. QED BY <1>5, <3>2, <4>1 DEF Entries
    <3>4. Cardinality(Above[d]) = k - 1
      BY <1>2, <1>10, <3>3
    <3>. QED BY <1>1, <1>5, <2>2, <3>4
  <2>. QED BY <2>1, <2>2
<1>. QED BY <1>6, <1>7, <1>8, <1>9, <1>10 DEF T

\* The entry at hand is taken, and printed if it has the name.
LEMMA TakenKeeps ==
  ASSUME TreeInit, StackOf(stack), PathsOf(printed), CallsOwn(stack), FreshBelow(stack, printed),
         PrintedOnce(printed), stack # <<>>, NEW n \in stack[Size(stack)].left,
         NEW f, f = Path(stack[Size(stack)].path, tree[n].name),
         NEW rest, Taken(rest, stack, n),
         NEW pr, Noted(pr, printed, n, f)
  PROVE  /\ StackOf(rest) /\ Size(rest) = Size(stack) /\ PathsOf(pr)
         /\ CallsOwn(rest) /\ FreshBelow(rest, pr) /\ PrintedOnce(pr)
         /\ WereIn(printed) \subseteq WereIn(pr)
         /\ f \in Seq(Letters) /\ Size(f) <= PathMax /\ n \in DOMAIN tree /\ n \in Below
         /\ Short(f) =>
              /\ f = PathOf[n] /\ (~Hidden(n) => Visible(n)) /\ Cardinality(Above[n]) = Size(rest)
              /\ \A m \in DOMAIN tree : Under(m, n) /\ m # n => Fresh(m, rest, pr)
              /\ \A k \in 1 .. Size(rest) : Short(rest[k].path) => \A e \in rest[k].left : ~Under(n, e)
         /\ \A x : Pending(x, stack) =>
              Pending(x, rest) \/ (Under(x, n) /\ Short(stack[Size(stack)].path))
         /\ Short(stack[Size(stack)].path) =>
              /\ Cardinality(Above[n]) = Size(stack)
              /\ Short(f) <=> Size(PathOf[n]) < PathMax
              /\ n \in Matches /\ Size(PathOf[n]) < PathMax => PathOf[n] \in WereIn(pr)
<1>. DEFINE T == Size(stack)
            c == stack[T]
<1>1. /\ StackOf(rest) /\ Size(rest) = T /\ T \in Nat \ {0} /\ T \in 1 .. T
      /\ \A k \in 1 .. T :
           /\ stack[k].dir \in DOMAIN tree /\ stack[k].path \in Seq(Letters)
           /\ rest[k].dir = stack[k].dir /\ rest[k].path = stack[k].path
           /\ k = T => rest[k].left = stack[k].left \ {n}
           /\ k # T => rest[k].left = stack[k].left
  <2>1. /\ StackOf(rest) /\ Size(rest) = Size(stack) /\ Size(stack) \in Nat \ {0}
        /\ \A k \in 1 .. Size(stack) :
             /\ stack[k].dir \in DOMAIN tree /\ stack[k].path \in Seq(Letters)
             /\ rest[k].dir = stack[k].dir /\ rest[k].path = stack[k].path
             /\ k = Size(stack) => rest[k].left = stack[k].left \ {n}
             /\ k # Size(stack) => rest[k].left = stack[k].left
    <3>. HIDE DEF T, c
    <3>1. StackOf(rest) /\ Size(rest) = Size(stack) /\ Size(stack) \in Nat \ {0}
      BY EntryTaken, Zenon
    <3>2. \A k \in 1 .. Size(stack) :
             /\ stack[k].dir \in DOMAIN tree /\ stack[k].path \in Seq(Letters)
             /\ rest[k].dir = stack[k].dir /\ rest[k].path = stack[k].path
             /\ k = Size(stack) => rest[k].left = stack[k].left \ {n}
             /\ k # Size(stack) => rest[k].left = stack[k].left
      <4>. SUFFICES ASSUME NEW k \in 1 .. Size(stack)
                    PROVE  /\ stack[k].dir \in DOMAIN tree /\ stack[k].path \in Seq(Letters)
                           /\ rest[k].dir = stack[k].dir /\ rest[k].path = stack[k].path
                           /\ k = Size(stack) => rest[k].left = stack[k].left \ {n}
                           /\ k # Size(stack) => rest[k].left = stack[k].left
        OBVIOUS
      <4>1. stack[k].dir \in DOMAIN tree /\ stack[k].path \in Seq(Letters)
        BY EntryTaken
      <4>2. rest[k].dir = stack[k].dir /\ rest[k].path = stack[k].path
        BY EntryTaken
      <4>3. k = Size(stack) => rest[k].left = stack[k].left \ {n}
        BY EntryTaken
      <4>4. k # Size(stack) => rest[k].left = stack[k].left
        BY EntryTaken
      <4>. QED BY <4>1, <4>2, <4>3, <4>4
    <3>. QED BY <3>1, <3>2
  <2>2. T \in 1 .. T
    BY <2>1
  <2>. QED BY <2>1, <2>2, Zenon
<1>2. \A k \in 1 .. T :
        /\ stack[k].left \subseteq Entries(stack[k].dir) /\ Size(stack[k].path) <= PathMax
        /\ Short(stack[k].path) => stack[k].path = PathOf[stack[k].dir]
  BY DEF CallsOwn
<1>3. n \in c.left /\ n \in Entries(c.dir) /\ c.dir \in DOMAIN tree
  BY <1>1, <1>2
<1>4. n \in DOMAIN tree /\ n \in Below /\ tree[n].dir = c.dir
  BY <1>3 DEF Entries, Below
<1>5. Short(c.path) =>
        /\ Cardinality(Above[n]) = T /\ (~Hidden(n) => Visible(n))
        /\ \A m \in DOMAIN tree : Under(m, n) => Fresh(m, stack, printed)
        /\ \A k \in 1 .. T : Short(stack[k].path) =>
             \A e \in stack[k].left : (k = T => e # n) => ~Under(n, e)
  BY <1>3, AtHand
<1>6. /\ f \in Seq(Letters) /\ Size(f) <= PathMax
      /\ Short(f) => Short(c.path) /\ f = PathOf[n]
      /\ Short(c.path) => (Short(f) <=> Size(PathOf[n]) < PathMax)
  <2>. DEFINE p == c.path
              d == c.dir
  <2>1. p \in Seq(Letters) /\ Size(p) <= PathMax /\ (Short(p) => p = PathOf[d]) /\ d \in DOMAIN tree
        /\ n \in Entries(d)
    BY <1>1, <1>2, <1>3
  <2>2. f = Path(p, tree[n].name)
    OBVIOUS
  <2>. HIDE DEF p, d
  <2>3. /\ f \in Seq(Letters) /\ Size(f) <= PathMax
        /\ Short(f) => Short(p) /\ f = PathOf[n]
        /\ Short(p) => (Short(f) <=> Size(PathOf[n]) < PathMax)
    BY <2>1, <2>2, PathMade
  <2>. QED BY <2>3 DEF p
<1>. DEFINE new == ~Hidden(n) /\ tree[n].name = Target
<1>7. /\ PathsOf(pr)
      /\ WereIn(pr) = WereIn(printed) \cup (IF new /\ Short(f) THEN {f} ELSE {})
      /\ OneEach(printed) /\ (new => f \notin WereIn(printed)) => OneEach(pr)
  <2>1. CASE new
    <3>. HIDE DEF new
    <3>1. OnePathMore(pr, printed, f)
      BY <2>1 DEF OnePathMore, Noted, new
    <3>2. /\ PathsOf(pr)
          /\ WereIn(pr) = WereIn(printed) \cup (IF Short(f) THEN {f} ELSE {})
          /\ OneEach(printed) /\ f \notin WereIn(printed) => OneEach(pr)
      BY <1>6, <3>1, OnePrinted
    <3>. QED BY <2>1, <3>2, Zenon
  <2>2. CASE ~new
    BY <2>2 DEF Noted
  <2>. QED BY <2>1, <2>2
<1>8. f \notin WereIn(printed)
  <2>1. ASSUME f \in WereIn(printed) PROVE FALSE
    <3>1. Short(f)
      BY <2>1 DEF WereIn
    <3>2. Fresh(n, stack, printed)
      BY <1>4, <1>5, <1>6, <3>1 DEF Under
    <3>. QED BY <1>6, <2>1, <3>1, <3>2 DEF Fresh
  <2>. QED BY <2>1
<1>9. new /\ Short(f) => n \in Matches /\ f = PathOf[n]
  BY <1>4, <1>5, <1>6 DEF Matches, Visible
<1>10. PrintedOnce(pr)
  <2>1. CASE new /\ Short(f)
    BY <1>7, <1>8, <1>9, <2>1 DEF PrintedOnce
  <2>2. CASE ~(new /\ Short(f))
    <3>1. WereIn(pr) = WereIn(printed)
      BY <1>7, <2>2
    <3>. QED BY <1>7, <1>8, <3>1 DEF PrintedOnce
  <2>. QED BY <2>1, <2>2
<1>11. CallsOwn(rest)
  <2>1. \A k \in 1 .. T : rest[k].left \subseteq stack[k].left
    BY <1>1
  <2>. QED BY <1>1, <2>1 DEF CallsOwn
<1>12. ASSUME NEW m \in DOMAIN tree, Fresh(m, stack, printed), Short(f) => m # n
       PROVE  Fresh(m, rest, pr)
  <2>1. PathOf[m] \notin WereIn(pr)
    <3>1. CASE new /\ Short(f)
      <4>1. PathOf[m] # PathOf[n]
        BY <1>4, <1>12, <3>1, PathsDiffer
      <4>. QED BY <1>7, <1>9, <1>12, <3>1, <4>1 DEF Fresh
    <3>2. CASE ~(new /\ Short(f))
      BY <1>7, <1>12, <3>2 DEF Fresh
    <3>. QED BY <3>1, <3>2
  <2>. QED BY <1>1, <1>12, <2>1 DEF Fresh
<1>13. Short(c.path) => \A k \in 1 .. T : Short(rest[k].path) => \A e \in rest[k].left : ~Under(n, e)
  <2>. SUFFICES ASSUME Short(c.path), NEW k \in 1 .. T, Short(rest[k].path), NEW e \in rest[k].left
                PROVE  ~Under(n, e)
    OBVIOUS
  <2>1. /\ rest[k].path = stack[k].path
        /\ k = T => rest[k].left = stack[k].left \ {n}
        /\ k # T => rest[k].left = stack[k].left
    BY <1>1
  <2>2. e \in stack[k].left /\ (k = T => e # n) /\ Short(stack[k].path)
    BY <2>1, Zenon
  <2>. QED BY <1>5, <2>2, Zenon
<1>14. FreshBelow(rest, pr)
  <2>. SUFFICES ASSUME NEW k \in 1 .. T, Short(rest[k].path),
                       NEW e \in rest[k].left, NEW m \in DOMAIN tree, Under(m, e)
                PROVE  Fresh(m, rest, pr)
    BY <1>1 DEF FreshBelow
  <2>1. e \in stack[k].left /\ Short(stack[k].path)
    BY <1>1
  <2>2. Fresh(m, stack, printed)
    BY <2>1 DEF FreshBelow
  <2>3. Short(f) => m # n
    BY <1>6, <1>13
  <2>. QED BY <1>12, <2>2, <2>3
<1>15. Short(f) => \A m \in DOMAIN tree : Under(m, n) /\ m # n => Fresh(m, rest, pr)
  BY <1>5, <1>6, <1>12
<1>16. ASSUME NEW x, Pending(x, stack)
       PROVE  Pending(x, rest) \/ (Under(x, n) /\ Short(c.path))
  <2>1. PICK k \in 1 .. T : Short(stack[k].path) /\ \E m \in stack[k].left : Under(x, m)
    BY <1>16 DEF Pending
  <2>2. PICK m \in stack[k].left : Under(x, m)
    BY <2>1
  <2>3. CASE k = T /\ m = n
    BY <2>1, <2>2, <2>3
  <2>4. CASE ~(k = T /\ m = n)
    <3>0. /\ rest[k].path = stack[k].path
          /\ k = T => rest[k].left = stack[k].left \ {n}
          /\ k # T => rest[k].left = stack[k].left
      BY <1>1
    <3>1. m \in rest[k].left
      BY <2>2, <2>4, <3>0, Zenon
    <3>2. Short(rest[k].path) /\ k \in 1 .. Size(rest)
      BY <1>1, <2>1, <3>0
    <3>. QED BY <2>2, <3>1, <3>2 DEF Pending
  <2>. QED BY <2>3, <2>4
<1>17. Short(c.path) /\ n \in Matches /\ Size(PathOf[n]) < PathMax => PathOf[n] \in WereIn(pr)
  <2>. SUFFICES ASSUME Short(c.path), n \in Matches, Size(PathOf[n]) < PathMax
                PROVE  PathOf[n] \in WereIn(pr)
    OBVIOUS
  <2>1. new
    BY <1>4 DEF Matches, Below
  <2>2. Short(f) /\ f = PathOf[n]
    BY <1>6
  <2>. QED BY <1>7, <2>1, <2>2
<1>18. WereIn(printed) \subseteq WereIn(pr)
  BY <1>7
<1>. HIDE DEF new
<1>19. Short(f) =>
         /\ f = PathOf[n] /\ (~Hidden(n) => Visible(n)) /\ Cardinality(Above[n]) = Size(rest)
         /\ \A m \in DOMAIN tree : Under(m, n) /\ m # n => Fresh(m, rest, pr)
         /\ \A k \in 1 .. Size(rest) : Short(rest[k].path) => \A e \in rest[k].left : ~Under(n, e)
  BY <1>1, <1>5, <1>6, <1>13, <1>15
<1>20. \A x : Pending(x, stack) => Pending(x, rest) \/ (Under(x, n) /\ Short(c.path))
  BY <1>16
<1>21. Short(c.path) =>
         /\ Cardinality(Above[n]) = T
         /\ Short(f) <=> Size(PathOf[n]) < PathMax
         /\ n \in Matches /\ Size(PathOf[n]) < PathMax => PathOf[n] \in WereIn(pr)
  BY <1>5, <1>6, <1>17
<1>22. StackOf(rest) /\ Size(rest) = Size(stack) /\ PathsOf(pr) /\ f \in Seq(Letters) /\ Size(f) <= PathMax
  BY <1>1, <1>6, <1>7
<1>. QED BY <1>4, <1>10, <1>11, <1>14, <1>18, <1>19, <1>20, <1>21, <1>22

\* What a step leads to can be said without primes on the tree.
LEMMA SearchSame ==
  ASSUME TreeInit, UNCHANGED treeVars, Holds(search', stack', dirs', printed', failed')
  PROVE  SearchInv'
<1>1. tree' = tree /\ root' = root /\ Below' = Below /\ PathOf' = PathOf /\ Above' = Above
      /\ \A d : Entries(d)' = Entries(d)
  BY SameTree
<1>2. TreeInit'
  BY <1>1 DEF TreeInit
<1>3. \A n : Hidden(n)' <=> Hidden(n)
  BY <1>1 DEF Hidden
<1>4. \A n : Visible(n)' <=> Visible(n)
  BY <1>1, <1>3 DEF Visible
<1>5. Matches' = Matches
  BY <1>1, <1>3 DEF Matches
<1>6. \A m, n : Under(m, n)' <=> Under(m, n)
  BY <1>1 DEF Under
<1>7. StackOf(stack') <=> StackOf(stack)'
  BY <1>1 DEF StackOf, Calls
<1>8. CallsOwn(stack') <=> CallsOwn(stack)'
  BY <1>1, <1>4 DEF CallsOwn
<1>9. FreshBelow(stack', printed') <=> FreshBelow(stack, printed)'
  BY <1>1, <1>6 DEF FreshBelow, Fresh
<1>10. PrintedOnce(printed') <=> PrintedOnce(printed)'
  BY <1>1, <1>5 DEF PrintedOnce
<1>11. NoneMissed(stack', printed', failed') <=> NoneMissed(stack, printed, failed)'
  BY <1>1, <1>5, <1>6 DEF NoneMissed, Excused, Pending
<1>. QED BY <1>2, <1>7, <1>8, <1>9, <1>10, <1>11 DEF SearchInv, Holds

\* The first call of search(), or none.
LEMMA BeginKeeps == SearchInv /\ Begin /\ UNCHANGED treeVars => SearchInv'
<1>. SUFFICES ASSUME SearchInv, Begin, UNCHANGED treeVars PROVE SearchInv'
  OBVIOUS
<1>1. /\ TreeInit /\ stack = <<>> /\ printed = <<>> /\ printed' = <<>> /\ dirs = 0
      /\ Holds(search, stack, dirs, printed, failed)
  BY NothingDone DEF SearchInv, Holds, Begin
<1>2. /\ StackOf(<<>>) /\ PathsOf(<<>>) /\ CallsOwn(<<>>) /\ FreshBelow(<<>>, <<>>)
      /\ PrintedOnce(<<>>) /\ Size(<<>>) = 0
  BY NothingDone DEF CallsOwn, FreshBelow, PrintedOnce
<1>3. Top \in DOMAIN tree /\ IsDir(Top) /\ root \in Seq(Letters) /\ Size(root) = 1
      /\ PathOf[Top] = root /\ Above[Top] = {} /\ Lookup(root) = {Top}
  BY <1>1, TreeIs, PathIs, AboveIs, Found
<1>4. ASSUME NEW n \in Matches
      PROVE  /\ n \in DOMAIN tree /\ Top \in Above[n] /\ Size(PathOf[n]) \in Nat
             /\ Size(PathOf[n]) >= 1 /\ Cardinality(Above[n]) \in Nat /\ Cardinality(Above[n]) > 0
  <2>1. n \in DOMAIN tree /\ Top \in Above[n]
    BY <1>1, AboveForm DEF Matches, Below
  <2>2. /\ Size(PathOf[Top]) \in Nat /\ Size(PathOf[n]) \in Nat /\ Size(PathOf[n]) > Size(PathOf[Top])
        /\ Cardinality(Above[Top]) \in Nat /\ Cardinality(Above[n]) \in Nat
        /\ Cardinality(Above[n]) > Cardinality(Above[Top])
    BY <1>1, <2>1, DownGrows
  <2>. QED BY <1>3, <2>1, <2>2
<1>5. CASE search' = "over" /\ UNCHANGED <<stack, dirs, failed>>
  <2>1. search' = "over" /\ stack' = <<>> /\ dirs' = 0
    BY <1>1, <1>5
  <2>2. Holds(search', stack', dirs', printed', failed')
    BY <1>1, <1>2, <2>1 DEF Holds
  <2>. QED BY <1>1, <2>2, SearchSame
<1>6. CASE search' = "running" /\ Opened(<<>>, root)
  <2>1. PICK d \in Lookup(root) :
          /\ IsDir(d) /\ dirs < MaxOpen
          /\ stack' = Append(<<>>, Call(d, root))
          /\ dirs' = dirs + 1 /\ UNCHANGED failed
    BY <1>6 DEF Opened, Call
  <2>2. d = Top /\ dirs' = 1
    BY <1>1, <1>3, <2>1
  <2>3. Added(stack', <<>>, Top, root)
    BY <2>1, <2>2 DEF Added
  <2>4. PathMax \in Nat /\ PathMax >= 1
    BY FileTreeAssumption
  <2>5. Size(root) <= PathMax
    BY <1>3, <2>4
  <2>6. /\ Visible(Top) /\ Cardinality(Above[Top]) = Size(<<>>)
        /\ \A m \in DOMAIN tree : Under(m, Top) /\ m # Top => Fresh(m, <<>>, <<>>)
        /\ \A k \in 1 .. Size(<<>>) : FALSE
    <3>1. Cardinality(Above[Top]) = 0
      BY <1>3, FS_EmptySet
    <3>. QED BY <1>2, <1>3, <3>1, NothingDone DEF Visible, Fresh
  <2>. DEFINE e == <<>>
  <2>7. /\ StackOf(e) /\ CallsOwn(e) /\ FreshBelow(e, e) /\ Added(stack', e, Top, root)
        /\ Size(e) = 0 /\ PathsOf(e) /\ PrintedOnce(e)
        /\ Short(root) =>
             /\ root = PathOf[Top] /\ Visible(Top) /\ Cardinality(Above[Top]) = Size(e)
             /\ \A m \in DOMAIN tree : Under(m, Top) /\ m # Top => Fresh(m, e, e)
             /\ \A k \in 1 .. Size(e) : Short(e[k].path) => \A x \in e[k].left : ~Under(Top, x)
    BY <1>2, <1>3, <2>3, <2>6
  <2>8. printed' = e
    BY <1>1
  <2>. HIDE DEF e
  <2>9. /\ StackOf(stack') /\ Size(stack') = Size(e) + 1 /\ CallsOwn(stack') /\ FreshBelow(stack', e)
        /\ Short(root) => \A x \in DOMAIN tree : Top \in Above[x] => Pending(x, stack')
    BY <1>1, <1>3, <2>5, <2>7, CallKeeps
  <2>10. NoneMissed(stack', printed', failed')
    <3>. SUFFICES ASSUME NEW n \in Matches
                  PROVE  Size(PathOf[n]) >= PathMax \/ Pending(n, stack')
      BY DEF NoneMissed, Excused
    <3>1. Size(PathOf[n]) \in Nat /\ Size(PathOf[n]) >= 1 /\ n \in DOMAIN tree /\ Top \in Above[n]
      BY <1>4
    <3>2. CASE Short(root)
      BY <2>9, <3>1, <3>2
    <3>3. CASE ~Short(root)
      BY <1>3, <2>4, <3>1, <3>3 DEF Short
    <3>. QED BY <3>2, <3>3
  <2>11. dirs' = Size(stack') /\ search' # "start"
    BY <1>6, <2>2, <2>7, <2>9
  <2>12. Holds(search', stack', dirs', printed', failed')
    BY <2>7, <2>8, <2>9, <2>10, <2>11 DEF Holds
  <2>. QED BY <1>1, <2>12, SearchSame
<1>7. CASE search' = "running" /\ NotOpened(<<>>, root)
  <2>1. stack' = <<>> /\ dirs' = 0 /\ search' # "start"
    BY <1>1, <1>7 DEF NotOpened
  <2>2. Top \in failed' \/ 0 >= MaxOpen
    BY <1>1, <1>3, <1>7 DEF NotOpened
  <2>3. NoneMissed(stack', printed', failed')
    <3>. SUFFICES ASSUME NEW n \in Matches PROVE Excused(n, failed')
      BY DEF NoneMissed
    <3>1. MaxOpen \in Nat
      BY FileTreeAssumption
    <3>. QED BY <1>4, <2>2, <3>1 DEF Excused
  <2>4. Holds(search', stack', dirs', printed', failed')
    BY <1>1, <1>2, <2>1, <2>3 DEF Holds
  <2>. QED BY <1>1, <2>4, SearchSame
<1>. QED BY <1>5, <1>6, <1>7 DEF Begin

\* One turn of the loop.
LEMMA EntryKeeps == SearchInv /\ Entry /\ UNCHANGED treeVars => SearchInv'
<1>. SUFFICES ASSUME SearchInv, Entry, UNCHANGED treeVars PROVE SearchInv'
  OBVIOUS
<1>1. /\ TreeInit /\ StackOf(stack) /\ PathsOf(printed) /\ dirs = Size(stack)
      /\ CallsOwn(stack) /\ FreshBelow(stack, printed) /\ PrintedOnce(printed)
      /\ search = "running" => NoneMissed(stack, printed, failed)
      /\ search = "start" => stack = <<>>
  BY DEF SearchInv, Holds
<1>2. stack # <<>> /\ UNCHANGED search
  BY DEF Entry
<1>3. Last(stack) = stack[Size(stack)]
  BY DEF Last, Size
<1>. DEFINE c == stack[Size(stack)]
<1>4. PICK n \in c.left :
        LET full_path == Path(c.path, tree[n].name)
            rest == [stack EXCEPT ![Len(stack)].left = @ \ {n}]
        IN
        /\ printed' = IF ~Hidden(n) /\ tree[n].name = Target
                      THEN Append(printed, full_path) ELSE printed
        /\ \/ /\ ~Hidden(n) /\ DT_DIR(n)
              /\ Opened(rest, full_path) \/ NotOpened(rest, full_path)
           \/ /\ Hidden(n) \/ ~DT_DIR(n)
              /\ stack' = rest
              /\ UNCHANGED <<dirs, failed>>
  BY <1>3 DEF Entry
<1>. DEFINE f == Path(c.path, tree[n].name)
            rest == [stack EXCEPT ![Len(stack)].left = @ \ {n}]
<1>5. /\ f = Path(stack[Size(stack)].path, tree[n].name) /\ Taken(rest, stack, n)
      /\ n \in stack[Size(stack)].left
      /\ Noted(printed', printed, n, f)
  BY <1>4 DEF Taken, Noted
<1>6. \/ ~Hidden(n) /\ DT_DIR(n) /\ Opened(rest, f)
      \/ ~Hidden(n) /\ DT_DIR(n) /\ NotOpened(rest, f)
      \/ (Hidden(n) \/ ~DT_DIR(n)) /\ stack' = rest /\ UNCHANGED <<dirs, failed>>
  BY <1>4
<1>. HIDE DEF f, rest
<1>7. /\ StackOf(rest) /\ Size(rest) = Size(stack) /\ PathsOf(printed')
      /\ CallsOwn(rest) /\ FreshBelow(rest, printed') /\ PrintedOnce(printed')
      /\ WereIn(printed) \subseteq WereIn(printed')
      /\ f \in Seq(Letters) /\ Size(f) <= PathMax /\ n \in DOMAIN tree /\ n \in Below
      /\ Short(f) =>
           /\ f = PathOf[n] /\ (~Hidden(n) => Visible(n)) /\ Cardinality(Above[n]) = Size(rest)
           /\ \A m \in DOMAIN tree : Under(m, n) /\ m # n => Fresh(m, rest, printed')
           /\ \A k \in 1 .. Size(rest) : Short(rest[k].path) => \A e \in rest[k].left : ~Under(n, e)
      /\ \A x : Pending(x, stack) =>
           Pending(x, rest) \/ (Under(x, n) /\ Short(stack[Size(stack)].path))
      /\ Short(stack[Size(stack)].path) =>
           /\ Cardinality(Above[n]) = Size(stack)
           /\ Short(f) <=> Size(PathOf[n]) < PathMax
           /\ n \in Matches /\ Size(PathOf[n]) < PathMax => PathOf[n] \in WereIn(printed')
  BY <1>1, <1>2, <1>5, TakenKeeps
<1>. HIDE DEF c
<1>8. Short(f) => Lookup(f) = {n}
  BY <1>1, <1>7, Found
<1>9. PathMax \in Nat /\ MaxOpen \in Nat
  BY FileTreeAssumption
<1>. DEFINE Kept(q, fl) ==
              \A x \in DOMAIN tree : n \in Above[x] /\ Short(c.path) /\ Short(f) => Excused(x, fl) \/ Pending(x, q)
<1>10. ASSUME NEW q, NEW fl, search = "running", failed \subseteq fl,
              \A x : Pending(x, rest) => Pending(x, q),
              Hidden(n) \/ ~DT_DIR(n) \/ Kept(q, fl)
       PROVE  NoneMissed(q, printed', fl)
  <2>. SUFFICES ASSUME NEW x \in Matches, ~Excused(x, fl), PathOf[x] \notin WereIn(printed')
                PROVE  Pending(x, q)
    BY DEF NoneMissed
  <2>1. ~Excused(x, failed) /\ PathOf[x] \notin WereIn(printed)
    BY <1>7, <1>10 DEF Excused
  <2>2. Pending(x, rest) \/ (Under(x, n) /\ Short(c.path))
    BY <1>1, <1>7, <1>10, <2>1 DEF NoneMissed, c
  <2>3. x \in DOMAIN tree /\ Size(PathOf[x]) \in Nat
    BY <1>1, PathForm, Sizes DEF Matches, Below
  <2>4. Size(PathOf[x]) < PathMax
    BY <1>9, <2>3 DEF Excused
  <2>5. CASE x = n /\ Short(c.path)
    BY <1>7, <2>4, <2>5 DEF c
  <2>6. CASE n \in Above[x] /\ Short(c.path)
    <3>1. Size(PathOf[n]) < PathMax
      <4>1. Size(PathOf[n]) \in Nat /\ Size(PathOf[x]) > Size(PathOf[n])
        BY <1>1, <2>3, <2>6, DownGrows
      <4>. QED BY <1>9, <2>3, <2>4, <4>1
    <3>2. Short(f)
      BY <1>7, <2>6, <3>1 DEF c
    <3>3. IsDir(n)
      BY <1>1, <2>3, <2>6, AboveForm
    <3>4. tree[n].told
      BY <2>6 DEF Excused
    <3>5. ~Hidden(n)
      BY <1>7, <2>6 DEF Matches, Below
    <3>6. Kept(q, fl)
      BY <1>10, <3>3, <3>4, <3>5 DEF DT_DIR
    <3>. QED BY <2>3, <2>6, <3>2, <3>6
  <2>. QED BY <1>10, <2>2, <2>5, <2>6 DEF Under
<1>11. search # "start" /\ search' = search
  BY <1>1, <1>2
<1>12. CASE ~Hidden(n) /\ DT_DIR(n) /\ Opened(rest, f)
  <2>1. PICK d \in Lookup(f) :
          /\ stack' = Append(rest, Call(d, f))
          /\ dirs' = dirs + 1 /\ UNCHANGED failed
    BY <1>12 DEF Opened, Call
  <2>2. d \in DOMAIN tree /\ (Short(f) => d = n)
    BY <1>8, <2>1 DEF Lookup
  <2>3. Added(stack', rest, d, f)
    BY <2>1 DEF Added
  <2>4. Short(f) =>
          /\ f = PathOf[d] /\ Visible(d) /\ Cardinality(Above[d]) = Size(rest)
          /\ \A m \in DOMAIN tree : Under(m, d) /\ m # d => Fresh(m, rest, printed')
          /\ \A k \in 1 .. Size(rest) : Short(rest[k].path) => \A e \in rest[k].left : ~Under(d, e)
    BY <1>7, <1>12, <2>2
  <2>5. /\ StackOf(stack') /\ Size(stack') = Size(rest) + 1
        /\ CallsOwn(stack') /\ FreshBelow(stack', printed')
        /\ \A x : Pending(x, rest) => Pending(x, stack')
        /\ Short(f) => \A x \in DOMAIN tree : d \in Above[x] => Pending(x, stack')
    BY <1>1, <1>7, <2>2, <2>3, <2>4, CallKeeps
  <2>6. Kept(stack', failed')
    BY <2>2, <2>5
  <2>7. failed \subseteq failed'
    BY <2>1
  <2>8. search = "running" => NoneMissed(stack', printed', failed')
    BY <1>10, <2>5, <2>6, <2>7
  <2>9. dirs' = Size(stack')
    BY <1>1, <1>7, <2>1, <2>5
  <2>10. Holds(search', stack', dirs', printed', failed')
    BY <1>7, <1>11, <2>5, <2>8, <2>9 DEF Holds
  <2>. QED BY <1>1, <2>10, SearchSame
<1>13. ASSUME stack' = rest, dirs' = dirs, search = "running" => NoneMissed(rest, printed', failed')
       PROVE  SearchInv'
  <2>1. Holds(search', stack', dirs', printed', failed')
    BY <1>1, <1>7, <1>11, <1>13 DEF Holds
  <2>. QED BY <1>1, <2>1, SearchSame
<1>14. CASE ~Hidden(n) /\ DT_DIR(n) /\ NotOpened(rest, f)
  <2>1. stack' = rest /\ dirs' = dirs /\ failed \subseteq failed'
    BY <1>14 DEF NotOpened
  <2>2. Lookup(f) \subseteq failed' \/ \A d \in Lookup(f) : ~IsDir(d) \/ dirs >= MaxOpen
    BY <1>14 DEF NotOpened
  <2>3. ASSUME NEW x \in DOMAIN tree, n \in Above[x], Short(c.path), Short(f)
        PROVE  Excused(x, failed')
    <3>1. n \in failed' \/ dirs >= MaxOpen
      BY <1>8, <1>14, <2>2, <2>3 DEF DT_DIR
    <3>2. /\ Cardinality(Above[n]) = dirs /\ Cardinality(Above[n]) \in Nat
          /\ Cardinality(Above[x]) \in Nat /\ Cardinality(Above[x]) > Cardinality(Above[n])
      BY <1>1, <1>7, <2>3, DownGrows DEF c
    <3>3. n \in failed' \/ Cardinality(Above[x]) > MaxOpen
      BY <1>9, <3>1, <3>2
    <3>. QED BY <2>3, <3>3 DEF Excused
  <2>4. Kept(rest, failed')
    BY <2>3
  <2>5. search = "running" => NoneMissed(rest, printed', failed')
    BY <1>10, <2>1, <2>4
  <2>. QED BY <1>13, <2>1, <2>5
<1>15. CASE (Hidden(n) \/ ~DT_DIR(n)) /\ stack' = rest /\ UNCHANGED <<dirs, failed>>
  <2>1. dirs' = dirs /\ failed' = failed
    BY <1>15
  <2>2. search = "running" => NoneMissed(rest, printed', failed')
    BY <1>10, <1>15, <2>1
  <2>. QED BY <1>13, <1>15, <2>1, <2>2
<1>. QED BY <1>6, <1>12, <1>14, <1>15

\* Everything keeps it.
LEMMA NextSearch == SearchInv /\ [SearchNext]_<<treeVars, searchVars>> => SearchInv'
<1>. SUFFICES ASSUME SearchInv, [SearchNext]_<<treeVars, searchVars>> PROVE SearchInv'
  OBVIOUS
<1>1. UNCHANGED treeVars
  BY DEF SearchNext, treeVars
<1>2. TreeInit /\ Holds(search, stack, dirs, printed, failed)
  BY DEF SearchInv
<1>3. CASE Begin
  BY <1>1, <1>3, BeginKeeps
<1>4. CASE Entry
  BY <1>1, <1>4, EntryKeeps
<1>5. CASE ReturnFrom
  <2>1. /\ stack # <<>> /\ Last(stack).left = {} /\ stack' = Front(stack) /\ dirs' = dirs - 1
        /\ UNCHANGED <<search, printed, failed>>
    BY <1>5 DEF ReturnFrom
  <2>2. /\ StackOf(stack) /\ PathsOf(printed) /\ dirs = Size(stack) /\ CallsOwn(stack)
        /\ FreshBelow(stack, printed) /\ PrintedOnce(printed)
        /\ search = "running" => NoneMissed(stack, printed, failed)
        /\ search # "start"
    BY <1>2, <2>1 DEF Holds
  <2>3. /\ StackOf(stack') /\ Size(stack) \in Nat /\ Size(stack') = Size(stack) - 1
        /\ CallsOwn(stack') /\ FreshBelow(stack', printed)
        /\ \A x : Pending(x, stack) => Pending(x, stack')
    BY <2>1, <2>2, ReturnKeeps
  <2>4. search = "running" => NoneMissed(stack', printed, failed)
    BY <2>2, <2>3 DEF NoneMissed
  <2>5. Holds(search', stack', dirs', printed', failed')
    BY <2>1, <2>2, <2>3, <2>4 DEF Holds
  <2>. QED BY <1>1, <1>2, <2>5, SearchSame
<1>6. CASE End
  <2>1. search' = "over" /\ UNCHANGED <<stack, dirs, printed, failed>>
    BY <1>6 DEF End
  <2>2. Holds(search', stack', dirs', printed', failed')
    BY <1>2, <2>1 DEF Holds
  <2>. QED BY <1>1, <1>2, <2>2, SearchSame
<1>7. CASE UNCHANGED <<treeVars, searchVars>>
  <2>1. UNCHANGED <<search, stack, dirs, printed, failed>>
    BY <1>7 DEF searchVars
  <2>2. Holds(search', stack', dirs', printed', failed')
    BY <1>2, <2>1
  <2>. QED BY <1>1, <1>2, <2>2, SearchSame
<1>. QED BY <1>3, <1>4, <1>5, <1>6, <1>7 DEF SearchNext

\* What was printed and not cut off is the path of a match, and printed once; and when
\* the calls have all returned every match was printed, unless a directory above it could
\* not be opened or told to be one, there are more directories above it than can be open,
\* or its path is too long: for any trees.
THEOREM SearchFinds == SearchSpec => []FindsExactly
<1>1. SearchInv => FindsExactly
  <2>. SUFFICES ASSUME SearchInv PROVE FindsExactly
    OBVIOUS
  <2>1. /\ StackOf(stack) /\ PathsOf(printed) /\ PrintedOnce(printed)
        /\ search = "running" => NoneMissed(stack, printed, failed)
    BY DEF SearchInv, Holds
  <2>. DEFINE short == {k \in DOMAIN printed : Short(printed[k])}
              were == {printed[k] : k \in short}
  <2>2. were = WereIn(printed)
    BY DEF WereIn
  <2>3. were \subseteq {PathOf[n] : n \in Matches}
    BY <2>1, <2>2 DEF PrintedOnce
  <2>4. Cardinality(were) = Cardinality(short)
    <3>1. IsFiniteSet(short)
      <4>1. DOMAIN printed = 1 .. Len(printed) /\ Len(printed) \in Nat
        BY <2>1, LenProperties DEF PathsOf
      <4>. DEFINE D == DOMAIN printed
      <4>2. IsFiniteSet(D) /\ short \subseteq D
        BY <4>1, FS_Interval
      <4>. HIDE DEF D, short
      <4>. QED BY <4>2, FS_Subset
    <3>. DEFINE g == [k \in short |-> printed[k]]
    <3>2. g \in Bijection(short, were)
      <4>1. g \in [short -> were] /\ \A y \in were : \E k \in short : g[k] = y
        OBVIOUS
      <4>2. \A j, k \in short : g[j] = g[k] => j = k
        BY <2>1 DEF PrintedOnce, OneEach
      <4>. QED BY <4>1, <4>2 DEF Bijection, Injection, Surjection, IsInjective
    <3>3. \E h : h \in Bijection(short, were)
      BY <3>2
    <3>. HIDE DEF short, were
    <3>. QED BY <3>1, <3>3, FS_Bijection DEF ExistsBijection
  <2>5. ASSUME stack = <<>>, search = "running", NEW n \in Matches
        PROVE  Excused(n, failed) \/ PathOf[n] \in were
    <3>1. ~Pending(n, stack)
      BY <2>5, NothingDone DEF Pending
    <3>. QED BY <2>1, <2>2, <2>5, <3>1 DEF NoneMissed
  <2>6. short = {k \in DOMAIN printed : Len(printed[k]) < PathMax}
    BY DEF Short, Size
  <2>. QED BY <2>3, <2>4, <2>5, <2>6 DEF FindsExactly, Excused, Size
<1>2. SearchSpec => []SearchInv
  BY InitSearch, NextSearch, PTL DEF SearchSpec
<1>. QED BY <1>1, <1>2, PTL
=============================================================================
