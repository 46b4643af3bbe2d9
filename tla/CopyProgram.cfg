\* Blocks of two units, the last one short, two buffers, and everything may fail.
SPECIFICATION ProgramFairSpec
CONSTANTS
  SIZE = 2
  ENTRY = 2
  file_size = 5
  Faults = {"open", "read", "write", "short", "fail", "submit", "wait"}
\* The copy ends, or waits for a request that was never submitted.
CHECK_DEADLOCK FALSE
INVARIANTS
  BlockingInOrder
  EachInOneHand
  BytesCounted
PROPERTIES
  CopyEnds
  IsFileCopy
