----------------------------- MODULE MCLogSink -----------------------------
(* Model-checking instance of LogSink: two invocations. *)
EXTENDS LogSink

CONSTANTS p1, p2

MCProcs   == {p1, p2}
MCLengths == {1, 2}
=============================================================================
