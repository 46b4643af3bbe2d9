------------------------------ MODULE FileSearch ------------------------------
(***************************************************************************)
(* HW2_2_4112056004.c: search() visits a directory and, from within the    *)
(* loop over its entries, the directories in it, each with a directory     *)
(* stream that stays open meanwhile.  stack holds the calls that have not  *)
(* returned.  What cannot be opened is passed over without a word.         *)
(***************************************************************************)
EXTENDS FileTree, SequencesExt

CONSTANT Target   \* target_file

VARIABLES
  search,    \* "start", "running" or "over"
  stack,     \* current_path, directory and unread entries of each call
  dirs,      \* how many directory streams are open
  printed,   \* the paths that were printed
  failed     \* history: directories that could not be opened

searchVars == <<search, stack, dirs, printed, failed>>

SearchInit ==
  /\ search = "start" /\ stack = <<>> /\ dirs = 0
  /\ printed = <<>> /\ failed = {}

-----------------------------------------------------------------------------
\* opendir(p) in a call of search(), with s the calls below it
Opened(s, p) ==
  \E d \in Lookup(p) :
    /\ IsDir(d) /\ dirs < MaxOpen
    /\ stack' = Append(s, [dir |-> d, path |-> p, left |-> Entries(d)])
    /\ dirs' = dirs + 1
    /\ UNCHANGED failed

\* mutant: the call is repeated until it succeeds
OpenedAgain(s, p) ==
  /\ \A d \in Lookup(p) : ~IsDir(d) \/ dirs >= MaxOpen
  /\ UNCHANGED <<stack, dirs, failed>>

\* it returns NULL, and search() returns
NotOpened(s, p) ==
  /\ \/ (\A d \in Lookup(p) : ~IsDir(d) \/ dirs >= MaxOpen) /\ UNCHANGED failed
     \/ "opendir" \in Faults /\ failed' = failed \cup Lookup(p)
  /\ stack' = s
  /\ UNCHANGED dirs

\* the call in main, or a complaint about the number of arguments
Begin ==
  /\ search = "start"
  /\ \/ search' = "running" /\ (Opened(<<>>, root) \/ NotOpened(<<>>, root))
     \/ search' = "over" /\ UNCHANGED <<stack, dirs, failed>>
  /\ UNCHANGED printed

Path(p, name) == Cut(IF p = Slash THEN Slash \o name ELSE Joined(p, name))

DT_DIR(n) == IsDir(n) /\ tree[n].told

\* one turn of the loop, up to the loop of the next call; readdir() returns the
\* entries in any order
Entry ==
  /\ stack # <<>>
  /\ \E n \in Last(stack).left :
       LET call == Last(stack)
           full_path == Path(call.path, tree[n].name)
           rest == [stack EXCEPT ![Len(stack)].left = @ \ {n}]
       IN
       /\ printed' = IF ~Hidden(n) /\ tree[n].name = Target
                     THEN Append(printed, full_path) ELSE printed
       /\ \/ /\ ~Hidden(n) /\ DT_DIR(n)
             /\ Opened(rest, full_path) \/ NotOpened(rest, full_path)
          \/ /\ Hidden(n) \/ ~DT_DIR(n)
             /\ stack' = rest
             /\ UNCHANGED <<dirs, failed>>
  /\ UNCHANGED search

\* mutant: the stream is not closed
ReturnOpen ==
  /\ stack # <<>> /\ Last(stack).left = {}
  /\ stack' = Front(stack)
  /\ UNCHANGED <<search, dirs, printed, failed>>

\* closedir() and the return of a call
ReturnFrom ==
  /\ stack # <<>> /\ Last(stack).left = {}
  /\ stack' = Front(stack) /\ dirs' = dirs - 1
  /\ UNCHANGED <<search, printed, failed>>

\* main says so when nothing was found
End ==
  /\ search = "running" /\ stack = <<>>
  /\ search' = "over"
  /\ UNCHANGED <<stack, dirs, printed, failed>>

SearchNext == (Begin \/ Entry \/ ReturnFrom \/ End) /\ UNCHANGED treeVars

SearchSpec == TreeInit /\ SearchInit /\ [][SearchNext]_<<treeVars, searchVars>>

-----------------------------------------------------------------------------
\* What is to be found: the entries with the name that are not in or under
\* anything hidden.
Matches ==
  {n \in Below : tree[n].name = Target
                 /\ \A m \in (Above[n] \cup {n}) \ {Top} : ~Hidden(m)}

\* Every match is printed by its path and no path is printed twice, nothing else
\* is printed, and "cannot find" is said of a file that is there (HW2_2:30-32)
\* for one reason only each time: a directory above it could not be opened or
\* told to be one, or there are MaxOpen of them.  Paths that fill the buffer,
\* which may have been cut off, are excepted.
FindsExactly ==
  LET short == {k \in DOMAIN printed : Len(printed[k]) < PathMax}
      were == {printed[k] : k \in short}
  IN
  /\ were \subseteq {PathOf[n] : n \in Matches}
  /\ Cardinality(were) = Cardinality(short)
  /\ stack = <<>> /\ search = "running" =>
       \A n \in Matches :
         \/ PathOf[n] \in were \/ Len(PathOf[n]) >= PathMax
         \/ \E d \in Above[n] : d \in failed \/ ~tree[d].told
         \/ Cardinality(Above[n]) > MaxOpen

\* The search ends, also when a path that was cut off leads back to a directory
\* that is being searched.
SearchEnds == search = "running" ~> search = "over"
=============================================================================
