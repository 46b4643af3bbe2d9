\* Two sniffers in any modes on one interface; what every header can be cut off at.
SPECIFICATION MCSpec
CONSTANTS
  eth0 = eth0
  eth1 = eth1
  p1 = p1
  p2 = p2
  Proc = {p1, p2}
  Device = eth0
  Traffic <- All
  Modes = {"mode1", "mode2", "mode3", "none"}
  MaxFrames = 3
  FewFrames = 1
  PACKET_NUM = 2
  SHOWN = 2
  Faults = {"ioctl", "bind", "recv", "kill"}
SYMMETRY Symmetry
\* The sniffers end.
CHECK_DEADLOCK FALSE
INVARIANTS
  FlagsRestoredAlone
  ListensWhileRunning
  CountsAreOfFrames
  ShownInOrder
