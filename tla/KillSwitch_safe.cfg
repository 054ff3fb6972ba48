SPECIFICATION Spec
CONSTANTS
  p1 = p1
  p2 = p2
  p3 = p3
  Procs <- ThreeProcs
  NoHolder = NoHolder
  Platforms <- BothPlatforms
  MaxFail = 1
CHECK_DEADLOCK FALSE
SYMMETRY Symmetry
INVARIANT TypeOK
INVARIANT HonestUnlessOverlap
INVARIANT CrashRecovered
INVARIANT NeverLockedOut
PROPERTY TeardownIsComplete
