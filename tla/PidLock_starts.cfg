SPECIFICATION Spec
CONSTANTS
  p1 = p1
  p2 = p2
  p3 = p3
  Procs <- ThreeProcs
  NoFile = NoFile
  maxAttempts = 5
CHECK_DEADLOCK FALSE
INVARIANT TypeOK
INVARIANT SingleUnlessRaced
