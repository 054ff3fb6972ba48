----------------------------- MODULE ConfigCell -----------------------------
(***************************************************************************)
(* What the config file of the client promises: one cell that holds the    *)
(* stored pairing or nothing and changes in a single step, whatever        *)
(* crashes, fails or overlaps underneath.  Bootstrap implements it.        *)
(*                                                                         *)
(* Pairings are numbered in the order in which the control plane issues    *)
(* them; 0 is no pairing.                                                  *)
(***************************************************************************)
EXTENDS Naturals

CONSTANT Peers

VARIABLES cell,   \* the pairing the next start will load
          status, \* what the control plane says of each pairing
          asked,  \* a logout is under way
          unsaved \* a fresh pairing could not be stored

vars == <<cell, status, asked, unsaved>>

Init == /\ cell \in Peers \union {0} /\ asked = FALSE /\ unsaved = FALSE
        /\ \A q \in Peers : q > cell => status[q] = "none"

(* A pairing replaces an older one, never the other way round.             *)
Store == /\ \E q \in Peers : q > cell /\ status[q] # "none" /\ cell' = q
         /\ UNCHANGED <<status, asked, unsaved>>

(* A pairing is forgotten because a logout asks for it or because it is    *)
(* dead, or (the client cannot tell) because a younger one is dead that    *)
(* could not be stored.                                                    *)
Forget == /\ asked \/ unsaved \/ (cell # 0 /\ status[cell] # "active")
          /\ cell' = 0
          /\ UNCHANGED <<status, unsaved>>

Outside == /\ UNCHANGED cell
           /\ unsaved => unsaved'
           /\ \A q \in Peers : status[q] # "none" => status'[q] # "none"

Next == Store \/ Forget \/ Outside

Spec == Init /\ [][Next]_vars
=============================================================================
