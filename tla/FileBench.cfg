\* The three programs.
SPECIFICATION Spec
CONSTANTS
  IO = {"stdio", "fd", "mmap"}
  NUM_OF_BLOCK = 3
  RAND_OP_TIMES = 3
  Faults = {"open"}
\* The programs end.
CHECK_DEADLOCK FALSE
INVARIANTS
  WritesAreDurable
  ReadsWhole
