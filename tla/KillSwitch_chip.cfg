SPECIFICATION Spec
CONSTANTS
  p1 = p1
  p2 = p2
  p3 = p3
  Procs <- TwoProcs
  NoHolder = NoHolder
  Platforms <- OnLinux
  MaxFail = 0
CHECK_DEADLOCK FALSE
INVARIANT HonestChip
