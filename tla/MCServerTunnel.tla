--------------------------- MODULE MCServerTunnel ---------------------------
(* Model-checking instances of ServerTunnel. *)
EXTENDS ServerTunnel

CONSTANT t1

OneTunnel == {t1}
=============================================================================
