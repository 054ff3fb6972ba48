---------------------------- MODULE MCBootstrap ----------------------------
(* Model-checking instance of Bootstrap: three invocations. *)
EXTENDS Bootstrap, TLC

CONSTANTS p1, p2, p3

MCProcs  == {p1, p2, p3}
Symmetry == Permutations(MCProcs)
MCStored   == {1, 2}
MCLegacy   == {1}
MCHomeless == {2}
MCPartial  == {3}
=============================================================================
