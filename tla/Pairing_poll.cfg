SPECIFICATION Spec
CONSTANTS
  pollIntervalDefault = 2
  pollPerRequestTO = 2
  pollWallClockMax = 40
  pollNetMaxFailures = 4
  pollNetMaxBackoff = 5
  httpClientTimeout = 3
  Durations <- Brief
  ReadyTimes <- Soon
  CancelTimes <- Soon
  Never = 100000
CHECK_DEADLOCK FALSE
INVARIANT TypeOK
INVARIANT PollIsBounded
INVARIANT ClaimIsSeen
INVARIANT BudgetIsPatient
