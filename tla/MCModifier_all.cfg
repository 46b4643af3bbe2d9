\* Two modifiers, frames with every kind of length, and everything may fail; and
\* checksum() over all buffers of up to 9 bytes.
SPECIFICATION RelaySpec
CONSTANTS
  eth0 = eth0
  eth1 = eth1
  p1 = p1
  p2 = p2
  Proc = {p1, p2}
  Device = eth0
  Frames <- All
  MaxFrames = 1
  Faults = {"ioctl", "bind", "recv", "send", "restore", "kill"}
  Loopback = FALSE
  MaxLog = 2
  BYTE = 3
  MaxLen = 9
SYMMETRY Symmetry
\* The programs end, or wait for frames that never come.
CHECK_DEADLOCK FALSE
INVARIANTS
  TypeOK
  InBounds
  ModifiedOnce
  Relayed
  ChecksumsVerify
