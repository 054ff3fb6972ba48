------------------------------- MODULE Bridge -------------------------------
(***************************************************************************)
(* What the tunnel server promises: each request either is refused or      *)
(* becomes a channel that carries datagrams both ways, in order and        *)
(* without holes, until it ends for good; toward the client it may damage  *)
(* what it carries once two of its writers have met.  Whoever watches is   *)
(* told of the opening, and of the end only when nothing of the channel is *)
(* left.  ServerTunnel implements it.                                      *)
(***************************************************************************)
EXTENDS Naturals, Sequences

CONSTANTS Channels, Watched  \* Watched: the channels that are reported

VARIABLES
  phase,        \* "new", "open", "closing" or "closed"
  told,         \* told[t]: the events reported of t
  mixed,        \* two writers have met on the channel
  sent, wgSent, \* how many datagrams the two sides have offered
  toWG, toWS    \* what each side got

traffic == <<sent, wgSent, toWG, toWS>>
vars == <<phase, told, mixed, traffic>>

Damaged == 0

Init ==
  /\ phase = [t \in Channels |-> "new"]
  /\ told = [t \in Channels |-> {}] /\ mixed = [t \in Channels |-> FALSE]
  /\ sent = [t \in Channels |-> 0] /\ wgSent = [t \in Channels |-> 0]
  /\ toWG = [t \in Channels |-> <<>>] /\ toWS = [t \in Channels |-> <<>>]

Turn(t, from, to) == phase[t] = from /\ phase' = [phase EXCEPT ![t] = to]

Tell(t, e) == told' = [told EXCEPT ![t] = IF t \in Watched THEN @ \union {e} ELSE @]

Refuse(t) == Turn(t, "new", "closed") /\ UNCHANGED <<told, mixed, traffic>>

Open(t) == Turn(t, "new", "open") /\ Tell(t, "connected")
           /\ UNCHANGED <<mixed, traffic>>

OfferUp(t) == sent' = [sent EXCEPT ![t] = @ + 1]
              /\ UNCHANGED <<phase, told, mixed, wgSent, toWG, toWS>>

OfferDown(t) == phase[t] \in {"new", "open"} /\ wgSent' = [wgSent EXCEPT ![t] = @ + 1]
                /\ UNCHANGED <<phase, told, mixed, sent, toWG, toWS>>

(* The next datagram in turn, and only one that was offered.               *)
CarryUp(t) ==
  /\ phase[t] = "open" /\ Len(toWG[t]) < sent[t]
  /\ toWG' = [toWG EXCEPT ![t] = Append(@, Len(@) + 1)]
  /\ UNCHANGED <<phase, told, mixed, sent, wgSent, toWS>>

(* Two writers meet; nobody keeps them apart.                              *)
Meet(t) == /\ phase[t] # "new"
           /\ mixed' = [mixed EXCEPT ![t] = TRUE]
           /\ UNCHANGED <<phase, told, traffic>>

(* One datagram may still be on its way while the channel closes.          *)
CarryDown(t) ==
  /\ phase[t] \in {"open", "closing"} /\ Len(toWS[t]) < wgSent[t]
  /\ \E f \in {Len(toWS[t]) + 1} \union (IF mixed[t] THEN {Damaged} ELSE {}) :
       toWS' = [toWS EXCEPT ![t] = Append(@, f)]
  /\ UNCHANGED <<phase, told, mixed, sent, wgSent, toWG>>

End(t) == Turn(t, "open", "closing") \/ Turn(t, "closing", "closed")
Close(t) == End(t) /\ UNCHANGED <<told, mixed, traffic>>

Report(t) == phase[t] = "closed" /\ "connected" \in told[t] /\ Tell(t, "disconnected")
             /\ UNCHANGED <<phase, mixed, traffic>>

(* All channels end at once, and requests that came too early are refused. *)
Crash ==
  /\ \E S \in SUBSET {t \in Channels : phase[t] = "new"} :
       phase' = [t \in Channels |-> IF phase[t] = "new" /\ t \notin S THEN "new" ELSE "closed"]
  /\ UNCHANGED <<told, mixed, traffic>>

Next == Crash \/ \E t \in Channels :
  \/ Refuse(t) \/ Open(t) \/ OfferUp(t) \/ OfferDown(t)
  \/ CarryUp(t) \/ Meet(t) \/ CarryDown(t) \/ Close(t) \/ Report(t)

(* What the channels may do.                                               *)
Safety == Init /\ [][Next]_vars

(* Every channel that was opened ends, whatever its two sides do.          *)
Spec == Safety /\ \A t \in Channels : WF_vars(Close(t))
=============================================================================
