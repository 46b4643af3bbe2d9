------------------------------- MODULE FileTree -------------------------------
(***************************************************************************)
(* What the programs of hw2 see of the file system: a tree of named        *)
(* entries, which does not change while they run, and paths, which         *)
(* snprintf cuts off at the size of a buffer.  A path cut off is the path  *)
(* of something else, or of nothing, so paths are sequences of letters.    *)
(***************************************************************************)
EXTENDS Naturals, Sequences, FiniteSets

CONSTANTS
  Trees,     \* the trees: functions from nodes to their name, type, directory and
             \* whether readdir() tells the type (d_type), which some file systems
             \* do not
  Top,       \* the node that is in no directory of the tree
  PathMax,   \* longest path a buffer holds (1023)
  MaxOpen,   \* directories a process can have open
  Faults     \* a subset of {"opendir", "lstat"}: a directory cannot be opened, an
             \* entry has vanished

\* What is in a directory has a name of its own in it, without a slash, and from
\* every node one comes up to Top.
WellFormed(t) ==
  /\ Top \in DOMAIN t /\ t[Top].type = "dir"
  /\ \A n \in DOMAIN t \ {Top} :
       /\ t[n].dir \in DOMAIN t /\ t[t[n].dir].type = "dir"
       /\ t[n].name \in Seq(STRING) \ {<<>>}
       /\ \A i \in DOMAIN t[n].name : t[n].name[i] # "/"
       /\ \A m \in DOMAIN t \ {Top} : t[m].dir = t[n].dir /\ t[m].name = t[n].name => m = n
  /\ \A S \in SUBSET (DOMAIN t \ {Top}) : S # {} => \E n \in S : t[n].dir \notin S

ASSUME FileTreeAssumption ==
  /\ PathMax \in Nat \ {0} /\ MaxOpen \in Nat
  /\ Faults \subseteq {"opendir", "lstat"}
  /\ \A t \in Trees : WellFormed(t)

VARIABLES
  tree,   \* the tree of this run
  root    \* the path of Top

treeVars == <<tree, root>>

Slash == <<"/">>

TreeInit == tree \in Trees /\ root \in {<<".">>, Slash}

-----------------------------------------------------------------------------
Below == DOMAIN tree \ {Top}

Entries(d) == {n \in Below : tree[n].dir = d}

\* "." and "..", which every directory has, are hidden like all names with a dot
Hidden(n) == Head(tree[n].name) = "."

IsDir(n) == tree[n].type = "dir"

\* snprintf(full_path, sizeof(full_path), "%s/%s", p, name)
Joined(p, name) == p \o Slash \o name
Cut(p) == SubSeq(p, 1, IF Len(p) < PathMax THEN Len(p) ELSE PathMax)

\* the directories from Top down to the one n is in
Above ==
  LET above[n \in DOMAIN tree] ==
        IF n = Top THEN {} ELSE above[tree[n].dir] \cup {tree[n].dir}
  IN above

\* the path by which each node is reached from Top
PathOf ==
  LET path[n \in DOMAIN tree] ==
        IF n = Top THEN root
        ELSE IF path[tree[n].dir] = Slash THEN Slash \o tree[n].name
        ELSE Joined(path[tree[n].dir], tree[n].name)
  IN path

\* the nodes the kernel finds by the path p, in which it takes two slashes for one
Lookup(p) ==
  {n \in DOMAIN tree :
     \/ p = PathOf[n] \/ (IsDir(n) /\ p = PathOf[n] \o Slash)
     \/ root = Slash /\ p = Slash \o PathOf[n]}
=============================================================================
