----------------------------- MODULE MCPairing -----------------------------
(* Model-checking instance of Pairing. *)
EXTENDS Pairing

Brief   == {0, 1, 2}
Soon    == {3, 20, 34, 38, 41}
=============================================================================
