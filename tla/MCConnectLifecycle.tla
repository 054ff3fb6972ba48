------------------------- MODULE MCConnectLifecycle -------------------------
(* Model-checking instances of ConnectLifecycle. *)
EXTENDS ConnectLifecycle

CONSTANTS a, b

TwoRoutes == {a, b}
OnLinux == {"linux"}
BothPlatforms == {"linux", "windows"}
=============================================================================
