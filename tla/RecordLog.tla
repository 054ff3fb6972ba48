------------------------------ MODULE RecordLog ------------------------------
(***************************************************************************)
(* What the durable log of the client promises as long as invocations do   *)
(* not overlap: a list of records that grows at its end, by the record     *)
(* accepted last and by each record once at most, and that shrinks at its  *)
(* ends only.  LogSink implements it with a live file and its archives.    *)
(*                                                                         *)
(* Records are numbered as they are accepted; a record stands in the list  *)
(* as its number, once per unit of its length.                             *)
(***************************************************************************)
EXTENDS Naturals, Sequences

VARIABLES log,    \* what the files read as, from the oldest to the live one
          last,   \* the number of the record accepted last
          owed,   \* that record is not stored yet
          shared  \* two invocations have had the log open at a time

vars == <<log, last, owed, shared>>

Init == log = <<>> /\ last = 0 /\ owed = FALSE /\ shared = FALSE

Begins(s, t) == /\ Len(s) <= Len(t)
                /\ \A i \in 1..Len(s) : s[i] = t[i]
Ends(s, t)   == /\ Len(s) <= Len(t)
                /\ \A i \in 1..Len(s) : s[i] = t[Len(t) - Len(s) + i]

Accept == /\ ~owed /\ owed' = TRUE
          /\ last' = last + 1
          /\ UNCHANGED <<log, shared>>

Store == /\ owed /\ owed' = FALSE
         /\ Begins(log, log') /\ Len(log) < Len(log')
         /\ \A i \in Len(log) + 1..Len(log') : log'[i] = last
         /\ UNCHANGED <<last, shared>>

(* An archive goes, or the live file is truncated; a record is given up.   *)
Drop == /\ Begins(log', log) \/ Ends(log', log)
        /\ owed' => owed
        /\ UNCHANGED <<last, shared>>

(* Two sinks of one file promise nothing of the kind.                      *)
Share == shared' = TRUE

Next == Accept \/ Store \/ Drop \/ Share

Spec == Init /\ [][Next]_vars
=============================================================================
