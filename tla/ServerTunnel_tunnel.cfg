SPECIFICATION Spec
CONSTANTS
  t1 = t1
  Tunnels <- OneTunnel
  Tokened <- OneTunnel
  MaxFrames = 2
  MaxTraffic = 3
  MaxControl = 1
CHECK_DEADLOCK FALSE
INVARIANT TypeOK
INVARIANT HealthExact
INVARIANT ClosedForAReason
INVARIANT DisconnectedIsLast
PROPERTY TunnelDrains
PROPERTY BridgesInOrder
