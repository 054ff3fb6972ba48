SPECIFICATION Spec
CONSTANTS
  MaxSessions = 2
  Workloads <- MCWorkloads
CHECK_DEADLOCK FALSE
INVARIANT TypeOK
INVARIANT OneWriter
INVARIANT StaleLosesOne
INVARIANT ReasonKnown
INVARIANT PeerAtHand
PROPERTY BrokenSessionEnds
PROPERTY ShutdownIsComplete
