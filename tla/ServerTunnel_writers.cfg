SPECIFICATION Spec
CONSTANTS
  t1 = t1
  Tunnels <- OneTunnel
  Tokened = {}
  MaxFrames = 1
  MaxTraffic = 2
  MaxControl = 0
CHECK_DEADLOCK FALSE
INVARIANT SingleWriter
