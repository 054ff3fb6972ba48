SPECIFICATION Spec
CONSTANTS
  p1 = p1
  p2 = p2
  p3 = p3
  Procs <- MCProcs
  NoHolder = NoHolder
  MaxPeers = 3
  Stored <- MCStored
  Legacy <- MCLegacy
  Homeless <- MCHomeless
  Partial <- MCPartial
  MaxFail = 1
CHECK_DEADLOCK FALSE
SYMMETRY Symmetry
INVARIANT TypeOK
INVARIANT ClaimNotLost
INVARIANT SaveSucceeds
PROPERTY LogoutIsComplete
PROPERTY StoredPairing
