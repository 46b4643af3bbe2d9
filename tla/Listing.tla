------------------------------- MODULE Listing -------------------------------
(***************************************************************************)
(* The three stages of ls in hw2: HW2_1_1 ("long": one line of metadata    *)
(* for each entry), HW2_1_2 ("names": names in columns) and HW2_1_3, which *)
(* does the one or the other ("-l", ""), and names the entries by path.    *)
(* HW2_1_1 looks the names up in the current directory, here Top.  What a  *)
(* line shows of an entry is the node the metadata are of.                 *)
(***************************************************************************)
EXTENDS FileTree, SequencesExt

VARIABLES
  ls,        \* "start", "running" or "over"
  program,   \* "long", "names", "-l" or ""
  target,    \* target_path, as the node it is
  left,      \* entries readdir() has not returned
  rows,      \* the lines printed: which entry, and whose metadata
  count,     \* place in the row
  errors     \* entries for which an error was printed

listVars == <<ls, program, target, left, rows, count, errors>>

\* Which program is started, and with which directory: the last argument that is
\* not "-l", or the current one.
ListInit ==
  /\ ls = "start"
  /\ program \in {"long", "names", "-l", ""}
  /\ target \in {n \in DOMAIN tree : IsDir(n)}
  /\ left = {} /\ rows = <<<<>>>> /\ count = 1 /\ errors = {}

-----------------------------------------------------------------------------
\* opendir(), without which the program ends
OpenDir ==
  /\ ls = "start"
  /\ \/ ls' = "running" /\ left' = Entries(target)
     \/ "opendir" \in Faults /\ ls' = "over" /\ UNCHANGED left
  /\ UNCHANGED <<program, target, rows, count, errors>>

\* a line or a name is added to the last row, and perhaps a row begun
Printed(n, m, newline) ==
  LET row == Append(Last(rows), [entry |-> n, of |-> m])
  IN rows' = Front(rows) \o <<row>> \o IF newline THEN <<<<>>>> ELSE <<>>

\* a new row begins after the third name
Name(n) ==
  /\ Printed(n, n, count = 3)
  /\ count' = IF count # 3 THEN count + 1 ELSE 1
  /\ UNCHANGED errors

\* mutant: the path is made from the name alone, as in HW2_1_1
StatByName(n) == {m \in Entries(Top) : tree[m].name = tree[n].name}

\* the node whose metadata lstat() returns for the entry n
Stat(n) ==
  IF program = "long"
  THEN {m \in Entries(Top) : tree[m].name = tree[n].name}
  ELSE Lookup(Cut(Joined(PathOf[target], tree[n].name)))

Long(n) ==
  \/ /\ \E m \in Stat(n) : Printed(n, m, TRUE)
     /\ UNCHANGED <<count, errors>>
  \/ /\ Stat(n) = {} \/ "lstat" \in Faults
     /\ errors' = errors \cup {n}
     /\ UNCHANGED <<rows, count>>

ListEntry ==
  /\ ls = "running"
  /\ \E n \in left :
       /\ left' = left \ {n}
       /\ \/ Hidden(n) /\ UNCHANGED <<rows, count, errors>>
          \/ ~Hidden(n) /\ program \in {"names", ""} /\ Name(n)
          \/ ~Hidden(n) /\ program \in {"long", "-l"} /\ Long(n)
  /\ UNCHANGED <<ls, program, target>>

CloseDir ==
  /\ ls = "running" /\ left = {}
  /\ ls' = "over"
  /\ UNCHANGED <<program, target, left, rows, count, errors>>

ListNext == (OpenDir \/ ListEntry \/ CloseDir) /\ UNCHANGED treeVars

ListSpec == TreeInit /\ ListInit /\ [][ListNext]_<<treeVars, listVars>>

-----------------------------------------------------------------------------
Lines == UNION {{rows[i][k] : k \in DOMAIN rows[i]} : i \in DOMAIN rows}

\* What is printed of an entry is its own: HW2_1_1 in another directory than the
\* current one shows the metadata of what has the same name there, and a path may
\* be too long for its buffer, but otherwise never.  Nothing hidden is printed;
\* every other entry is printed or complained about; rows have three names or one
\* line.
ListsItsOwn ==
  /\ \A l \in Lines :
       \/ l.of = l.entry
       \/ program = "long" /\ tree[l.of].dir = Top /\ target # Top
       \/ Len(Joined(PathOf[target], tree[l.entry].name)) > PathMax
  /\ ls = "running" =>
       {n \in Entries(target) : ~Hidden(n)} =
         {l.entry : l \in Lines} \cup errors \cup {n \in left : ~Hidden(n)}
  /\ \A i \in DOMAIN rows :
       Len(rows[i]) = (IF program \in {"names", ""} THEN 3 ELSE 1) \/ i = Len(rows)
=============================================================================
