----------------------------- MODULE MCPidLock -----------------------------
(* Model-checking instances of PidLock. *)
EXTENDS PidLock

CONSTANTS p1, p2, p3

TwoProcs   == {p1, p2}
ThreeProcs == {p1, p2, p3}
=============================================================================
