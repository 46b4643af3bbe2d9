\* One of the programs of hw2 on a tree, entries in any order, and every call may
\* fail.  A buffer holds a path of 6 letters.
SPECIFICATION FairSpec
CONSTANTS
  Trees <- SomeTrees
  Top = 1
  PathMax = 6
  MaxOpen = 3
  Faults = {"opendir", "lstat"}
  Target <- B
\* The programs end.
CHECK_DEADLOCK FALSE
INVARIANTS
  FindsExactly
  ListsItsOwn
PROPERTIES
  SearchEnds
