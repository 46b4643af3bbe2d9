---------------------------- MODULE MCDirectories ----------------------------
(* The programs of hw2 for TLC: in each run one of them, on one of the trees. *)
EXTENDS FileSearch, Listing

Dir(d, name) == [dir |-> d, name |-> name, type |-> "dir", told |-> TRUE]
File(d, name) == [Dir(d, name) EXCEPT !.type = "file"]
Link(d, name) == [Dir(d, name) EXCEPT !.type = "link"]

A == <<"a">>
B == <<"b">>
C == <<"c">>
AB == <<"a", "b">>
AAA == <<"a", "a", "a">>

\* hidden entries, a directory and a link with the name, names that come twice
Ordinary ==
  <<Dir(1, <<".">>), Dir(1, A), File(1, B), Dir(1, <<".", "a">>), File(4, B),
    Dir(2, B), Link(6, B)>>
\* more directories in each other than can be open, and one after them
Deep == <<Dir(1, <<".">>), Dir(1, A), Dir(2, A), Dir(3, A), File(4, B), Dir(1, B), File(6, B)>>
\* "./ab/ab" is cut off to "./ab/a", and "./aaa/a" and "./aaa/c" to "./aaa/"
CutName == <<Dir(1, <<".">>), Dir(1, AB), Dir(2, A), Dir(2, AB), File(3, B), File(4, B)>>
CutSlash == <<Dir(1, <<".">>), Dir(1, AAA), Dir(2, C), Dir(2, A), File(4, B)>>
\* a directory whose type is not told, and one in it whose type is
Untold == <<Dir(1, <<".">>), [Dir(1, A) EXCEPT !.told = FALSE], Dir(2, A), File(2, B), File(3, B),
            File(1, B)>>
SomeTrees == {Ordinary, Untold, Deep, CutName, CutSlash}

vars == <<treeVars, searchVars, listVars>>

Init == TreeInit /\ SearchInit /\ ListInit

Search == ls = "start" /\ SearchNext /\ UNCHANGED listVars
List == search = "start" /\ ListNext /\ UNCHANGED searchVars

Next == Search \/ List

FairSpec == Init /\ [][Next]_vars /\ WF_vars(Search)
=============================================================================
