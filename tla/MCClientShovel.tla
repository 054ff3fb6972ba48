--------------------------- MODULE MCClientShovel ---------------------------
(* Model-checking instance of ClientShovel: one session with traffic both  *)
(* ways, one that receives two datagrams around the arrival of the peer,   *)
(* one with two outbound datagrams, one with PINGs and PONGs, two sessions *)
(* that share an outbound datagram, two with keepalives only.              *)
EXTENDS ClientShovel

MCWorkloads ==
  {[sessions |-> 1, up |-> 1, down |-> 1, control |-> 1, ticks |-> FALSE],
   [sessions |-> 1, up |-> 1, down |-> 2, control |-> 0, ticks |-> FALSE],
   [sessions |-> 1, up |-> 2, down |-> 0, control |-> 0, ticks |-> FALSE],
   [sessions |-> 1, up |-> 0, down |-> 0, control |-> 1, ticks |-> TRUE],
   [sessions |-> 2, up |-> 1, down |-> 0, control |-> 0, ticks |-> FALSE],
   [sessions |-> 2, up |-> 0, down |-> 0, control |-> 0, ticks |-> TRUE]}
=============================================================================
