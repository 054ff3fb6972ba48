---------------------------- MODULE MCKillSwitch ----------------------------
(* Model-checking instances of KillSwitch. *)
EXTENDS KillSwitch, TLC

CONSTANTS p1, p2, p3

TwoProcs   == {p1, p2}
ThreeProcs == {p1, p2, p3}
OnLinux       == {"linux"}
BothPlatforms == {"linux", "windows"}
Symmetry   == Permutations(Procs)
=============================================================================
