SPECIFICATION Spec
CONSTANTS
  p1 = p1
  p2 = p2
  Procs <- MCProcs
  maxSize = 2
  keep = 2
  Lengths <- MCLengths
  MaxRecords = 4
  MaxFail = 1
CHECK_DEADLOCK FALSE
INVARIANT TypeOK
INVARIANT Bounded
INVARIANT Chronological
INVARIANT KeepsTheLatest
INVARIANT OnLiveFile
PROPERTY WriteReturns
