------------------------- MODULE ServerTunnelProofs -------------------------
(***************************************************************************)
(* Proofs about ServerTunnel, for any set of tunnels and any traffic: the  *)
(* gauge behind /healthz is off by the tunnels being opened or closed at   *)
(* most, a tunnel is reported disconnected only after everything of it has *)
(* been released, no tunnel is torn down without a reason, and the server  *)
(* implements Bridge (its safety part): datagrams keep their order.        *)
(***************************************************************************)
EXTENDS ServerTunnel, FiniteSetTheorems, TLAPS

(* The type invariant of the variables that close() and its callers share. *)
Types ==
  /\ handler \in [Tunnels -> {"idle", "upgraded", "dialed", "counted", "wait", "returned"}]
  /\ pc \in [Tunnels -> [Roles -> PCs]]
  /\ once \in [Tunnels -> {"fresh", "running", "finished"}]
  /\ done \in [Tunnels -> BOOLEAN]
  /\ wsOpen \in [Tunnels -> BOOLEAN]
  /\ udpOpen \in [Tunnels -> BOOLEAN]
  /\ callback \in [Tunnels -> [Events -> {"none", "started"}]]

Body == {"closeUDP", "closeWS", "decrement", "notify"}
Calm == PCs \ (Body \union {"off"})

Started(t) == pc[t]["statsLoop"] # "off"

Early(t) == handler[t] \in {"idle", "upgraded", "dialed", "counted"}

(* Of the goroutines of a tunnel at most one is inside the body of close() *)
(* and it is there exactly while the Once runs; how far it has come says   *)
(* what is released.                                                       *)
OneInside(t) ==
  /\ \A r, s \in Closers : pc[t][r] \in Body /\ pc[t][s] \in Body => r = s
  /\ \A r \in Closers : pc[t][r] \in Body => once[t] = "running"
  /\ once[t] = "running" /\ Started(t) => \E r \in Closers : pc[t][r] \in Body

Released(t) ==
  /\ \A r \in Closers : pc[t][r] = "closeUDP" => udpOpen[t]
  /\ \A r \in Closers : pc[t][r] \in Body \ {"closeUDP"} => ~udpOpen[t]
  /\ \A r \in Closers : pc[t][r] \in {"decrement", "notify"} => ~wsOpen[t]
  /\ once[t] = "finished" => ~udpOpen[t] /\ ~wsOpen[t]
  /\ ~Started(t) => (udpOpen[t] <=> handler[t] \in {"dialed", "counted"})
  /\ Started(t) /\ once[t] = "fresh" => udpOpen[t]

Lifecycle(t) ==
  /\ \A r \in Roles : pc[t][r] = "off" <=> ~Started(t)
  /\ pc[t]["statsLoop"] \notin Body
  /\ Early(t) =>
       /\ once[t] = "fresh" /\ ~Started(t)
       /\ callback[t]["disconnected"] = "none"
  /\ once[t] # "fresh" => done[t]

Reported(t) ==
  /\ t \in Tokened /\ Started(t) => callback[t]["connected"] # "none"
  /\ callback[t]["disconnected"] # "none" =>
       once[t] = "finished" /\ callback[t]["connected"] # "none"

CloseInv == \A t \in Tunnels :
  OneInside(t) /\ Released(t) /\ Lifecycle(t) /\ Reported(t)

(* The tunnels the gauge counts: from the increment to the decrement.      *)
Counted == {t \in Tunnels : /\ handler[t] = "counted" \/ Started(t)
                            /\ once[t] # "finished"
                            /\ \A r \in Closers : pc[t][r] # "notify"}

GaugeInv == activeConns = Cardinality(Counted)

Inv == Types /\ CloseInv /\ GaugeInv

-----------------------------------------------------------------------------
(* The invariant holds before the first request.                           *)
LEMMA InitInv == Init => Inv
<1> SUFFICES ASSUME Init PROVE Inv
    OBVIOUS
<1>1. Types
    BY DEF Init, Types, PCs, Events
<1>2. CloseInv
    BY DEF Init, CloseInv, OneInside, Released, Lifecycle, Reported, Started, Early,
           Body, Roles, Closers, Events
<1>3. Counted = {}
    BY DEF Init, Counted, Started, Roles, Closers
<1>4. QED
    BY <1>1, <1>2, <1>3, FS_EmptySet DEF Init, Inv, GaugeInv

(* Whatever moves one goroutine between two points outside close() leaves  *)
(* the invariant alone.                                                    *)
LEMMA MoveInv ==
  ASSUME Inv, NEW t \in Tunnels, NEW r \in Roles,
         NEW from \in Calm, NEW to \in Calm,
         Move(t, r, from, to), UNCHANGED closeVars
  PROVE  Inv'
<1> USE DEF Inv, Types, Calm, Body, PCs, Move, closeVars
<1>1. pc' = [pc EXCEPT ![t] = [pc[t] EXCEPT ![r] = to]] /\ pc[t][r] = from
    OBVIOUS
<1>2. Types'
    BY <1>1
<1>3. \A u \in Tunnels : \A s \in Roles :
        \/ pc'[u][s] = pc[u][s]
        \/ pc'[u][s] \in Calm /\ pc[u][s] \in Calm
    BY <1>1
<1>4. \A u \in Tunnels : Started(u)' <=> Started(u)
    BY <1>3 DEF Started, Roles
<1>5. CloseInv'
    BY <1>2, <1>3, <1>4
    DEF CloseInv, OneInside, Released, Lifecycle, Reported, Roles, Early
<1>6. Counted' = Counted
    BY <1>3, <1>4 DEF Counted, Roles
<1>7. QED
    BY <1>2, <1>5, <1>6 DEF GaugeInv

(* A step that touches neither the program points nor close()'s state.     *)
LEMMA StillInv ==
  ASSUME Inv, UNCHANGED <<handler, pc, closeVars>>
  PROVE  Inv'
BY DEF Inv, Types, CloseInv, OneInside, Released, Lifecycle, Reported, Started,
       Early, GaugeInv, Counted, closeVars

-----------------------------------------------------------------------------
(* handleTunnel *)

(* A request whose goroutines do not run yet is not counted.               *)
LEMMA UpgradeInv == ASSUME Inv, NEW t \in Tunnels, Upgrade(t) PROVE Inv'
<1>1. Types'
    BY DEF Inv, Types, Upgrade
<1>2. CloseInv'
    BY DEF Inv, Types, CloseInv, OneInside, Released, Lifecycle, Reported, Started,
           Early, Upgrade, Body, Roles, Closers
<1>3. Counted' = Counted /\ activeConns' = activeConns
    BY DEF Inv, Types, Upgrade, Counted, Started
<1>4. QED
    BY <1>1, <1>2, <1>3 DEF Inv, GaugeInv

(* Giving the request up closes the only socket it had.                    *)
LEMMA DialFailsInv == ASSUME Inv, NEW t \in Tunnels, DialFails(t) PROVE Inv'
<1>1. Types'
    BY DEF Inv, Types, DialFails
<1>2. CloseInv'
    BY DEF Inv, Types, CloseInv, OneInside, Released, Lifecycle, Reported, Started,
           Early, DialFails, Body, Roles, Closers
<1>3. Counted' = Counted /\ activeConns' = activeConns
    BY DEF Inv, Types, DialFails, Counted, Started
<1>4. QED
    BY <1>1, <1>2, <1>3 DEF Inv, GaugeInv

(* The dialed socket is not counted yet.                                   *)
LEMMA DialUDPInv == ASSUME Inv, NEW t \in Tunnels, DialUDP(t) PROVE Inv'
<1>1. Types'
    BY DEF Inv, Types, DialUDP
<1>2. CloseInv'
    BY DEF Inv, Types, CloseInv, OneInside, Released, Lifecycle, Reported, Started,
           Early, DialUDP, Body, Roles, Closers
<1>3. Counted' = Counted /\ activeConns' = activeConns
    BY DEF Inv, Types, DialUDP, Counted, Started
<1>4. QED
    BY <1>1, <1>2, <1>3 DEF Inv, GaugeInv

(* The gauge grows by the tunnel that is counted.                          *)
LEMMA CountTunnelInv == ASSUME Inv, NEW t \in Tunnels, CountTunnel(t) PROVE Inv'
<1>1. Types'
    BY DEF Inv, Types, CountTunnel
<1>2. CloseInv'
    BY DEF Inv, Types, CloseInv, OneInside, Released, Lifecycle, Reported, Started,
           Early, CountTunnel, Body, Roles, Closers
<1>3. /\ handler[t] = "dialed" /\ handler'[t] = "counted" /\ once[t] = "fresh"
      /\ ~Started(t) /\ \A r \in Closers : pc[t][r] # "notify"
    BY DEF Inv, Types, CloseInv, Lifecycle, Early, CountTunnel, Roles
<1>4. \A u \in Tunnels \ {t} : handler'[u] = handler[u]
    BY DEF Inv, Types, CountTunnel
<1>5. Counted' = Counted \union {t} /\ t \notin Counted
    BY <1>3, <1>4 DEF CountTunnel, Counted, Started
<1>6. IsFiniteSet(Counted)
    BY TunnelsAssumption, FS_Subset DEF Counted
<1>7. GaugeInv'
    BY <1>5, <1>6, FS_AddElement DEF GaugeInv, Inv, CountTunnel
<1>8. QED
    BY <1>1, <1>2, <1>7 DEF Inv

(* The goroutines start, and change nothing yet.                           *)
LEMMA StartTunnelInv == ASSUME Inv, NEW t \in Tunnels, StartTunnel(t) PROVE Inv'
<1> USE DEF Inv, Types, StartTunnel, notifyManager
<1>1. /\ pc' \in [Tunnels -> [Roles -> PCs]]
      /\ \A u \in Tunnels \ {t} : pc'[u] = pc[u]
      /\ \A r \in Roles : pc'[t][r] \in {"check", "read", "select"}
    BY DEF Roles, Closers, PCs
<1>2. /\ callback' \in [Tunnels -> [Events -> {"none", "started"}]]
      /\ \A u \in Tunnels \ {t} : callback'[u] = callback[u]
      /\ callback'[t]["disconnected"] = callback[t]["disconnected"]
      /\ t \in Tokened => callback'[t]["connected"] = "started"
    BY DEF Events
<1>3. Types'
    BY <1>1, <1>2
<1>4. /\ once[t] = "fresh" /\ ~Started(t) /\ callback[t]["disconnected"] = "none"
      /\ udpOpen[t] /\ \A r \in Roles : pc[t][r] = "off"
    BY DEF CloseInv, Lifecycle, Released, Early
<1>5. \A u \in Tunnels : Started(u)' <=> (Started(u) \/ u = t)
    BY <1>1 DEF Started, Roles
<1>h. handler[t] = "counted" /\ handler'[t] = "wait"
      /\ \A u \in Tunnels \ {t} : handler'[u] = handler[u]
    OBVIOUS
<1>6. ASSUME NEW u \in Tunnels \ {t}
      PROVE  (OneInside(u) /\ Released(u) /\ Lifecycle(u) /\ Reported(u))'
    BY <1>1, <1>2, <1>5, <1>h
    DEF CloseInv, OneInside, Released, Lifecycle, Reported, Started, Early
<1>7. (OneInside(t) /\ Released(t) /\ Lifecycle(t) /\ Reported(t))'
    BY <1>1, <1>2, <1>4, <1>5, <1>h
    DEF OneInside, Released, Lifecycle, Reported, Body, Roles, Early
<1>8. CloseInv'
    BY <1>6, <1>7 DEF CloseInv
<1>9. t \in Counted /\ t \in Counted'
    BY <1>1, <1>4, <1>5, <1>h DEF Counted, Roles
<1>10. \A u \in Tunnels \ {t} : u \in Counted' <=> u \in Counted
    BY <1>1, <1>5, <1>h DEF Counted
<1>11. Counted' = Counted
    BY <1>9, <1>10 DEF Counted
<1>12. QED
    BY <1>3, <1>8, <1>11 DEF GaugeInv

(* The handler's return changes nothing the goroutines use.                *)
LEMMA HandlerReturnsInv ==
  ASSUME Inv, NEW t \in Tunnels, HandlerReturns(t) PROVE Inv'
<1>1. Types'
    BY DEF Inv, Types, HandlerReturns, closeVars
<1>2. CloseInv'
    BY DEF Inv, Types, CloseInv, OneInside, Released, Lifecycle, Reported, Started,
           Early, HandlerReturns, closeVars
<1>3. Counted' = Counted /\ activeConns' = activeConns
    BY DEF Inv, Types, HandlerReturns, Counted, Started, closeVars
<1>4. QED
    BY <1>1, <1>2, <1>3 DEF Inv, GaugeInv

-----------------------------------------------------------------------------
(* close *)

(* What any step of goroutine r of t does to the program points.           *)
LEMMA MovePoints ==
  ASSUME Types, NEW t \in Tunnels, NEW r \in Roles, NEW from, NEW to \in PCs,
         Move(t, r, from, to)
  PROVE  /\ pc' \in [Tunnels -> [Roles -> PCs]]
         /\ handler' = handler /\ up /\ up' = up
         /\ pc[t][r] = from /\ pc'[t][r] = to
         /\ \A s \in Roles \ {r} : pc'[t][s] = pc[t][s]
         /\ \A u \in Tunnels \ {t} : pc'[u] = pc[u]
BY DEF Types, Move

(* A tunnel a step does not touch keeps its part of the invariant.         *)
LEMMA Untouched ==
  ASSUME CloseInv, NEW u \in Tunnels,
         handler'[u] = handler[u], pc'[u] = pc[u], once'[u] = once[u],
         done'[u] = done[u], wsOpen'[u] = wsOpen[u], udpOpen'[u] = udpOpen[u],
         callback'[u] = callback[u]
  PROVE  (OneInside(u) /\ Released(u) /\ Lifecycle(u) /\ Reported(u))'
BY DEF CloseInv, OneInside, Released, Lifecycle, Reported, Started, Early

(* The first goroutine goes in; a later one waits and finds all done.      *)
LEMMA EnterCloseInv ==
  ASSUME Inv, NEW t \in Tunnels, NEW r \in Closers, EnterClose(t, r) PROVE Inv'
<1> USE DEF Inv
<1>r. r \in Roles /\ Closers \subseteq Roles /\ "statsLoop" \in Roles \ Closers
    BY DEF Roles, Closers
<1>1. CASE once[t] = "fresh"
  <2>1. /\ Move(t, r, "close", "closeUDP")
        /\ once' = [once EXCEPT ![t] = "running"]
        /\ done' = [done EXCEPT ![t] = TRUE]
        /\ UNCHANGED <<wsOpen, udpOpen, activeConns, callback>>
      BY <1>1 DEF EnterClose
  <2>2. /\ pc' \in [Tunnels -> [Roles -> PCs]] /\ handler' = handler
        /\ pc[t][r] = "close" /\ pc'[t][r] = "closeUDP"
        /\ \A s \in Roles \ {r} : pc'[t][s] = pc[t][s]
        /\ \A u \in Tunnels \ {t} : pc'[u] = pc[u]
      BY <1>r, <2>1, MovePoints DEF PCs
  <2>3. callback' = callback
      BY <2>1
  <2>4. Types'
      BY <2>1, <2>2, <2>3 DEF Types
  <2>5. OneInside(t) /\ Released(t) /\ Lifecycle(t) /\ Reported(t)
      BY DEF CloseInv
  <2>6. /\ Started(t) /\ Started(t)' /\ ~Early(t)
        /\ \A u \in Tunnels : Started(u)' <=> Started(u)
      BY <1>r, <2>2, <2>5 DEF Started, Lifecycle
  <2>7. /\ once'[t] = "running" /\ done'[t]
        /\ wsOpen'[t] = wsOpen[t] /\ udpOpen'[t] = udpOpen[t]
        /\ callback'[t] = callback[t]
        /\ handler'[t] = handler[t]
      BY <2>1, <2>2, <2>3 DEF Types
  <2>8. OneInside(t)'
      BY <1>r, <1>1, <2>2, <2>5, <2>6, <2>7 DEF OneInside, Body
  <2>9. Released(t)'
      BY <1>r, <1>1, <2>2, <2>5, <2>6, <2>7 DEF OneInside, Released, Body
  <2>10. Lifecycle(t)'
      BY <1>r, <1>1, <2>2, <2>5, <2>6, <2>7 DEF Lifecycle, Body, Early
  <2>11. Reported(t)'
      BY <1>1, <2>2, <2>3, <2>5, <2>6, <2>7 DEF OneInside, Reported, Body
  <2>12. ASSUME NEW u \in Tunnels \ {t}
         PROVE  (OneInside(u) /\ Released(u) /\ Lifecycle(u) /\ Reported(u))'
      BY <2>1, <2>2, <2>3, Untouched DEF Types
  <2>13. CloseInv'
      BY <2>8, <2>9, <2>10, <2>11, <2>12 DEF CloseInv
  <2>14. \A u \in Tunnels : u \in Counted' <=> u \in Counted
    <3>1. ASSUME NEW u \in Tunnels \ {t} PROVE u \in Counted' <=> u \in Counted
        BY <2>1, <2>2, <2>6 DEF Types, Counted
    <3>2. \A s \in Closers : s # r => pc'[t][s] = pc[t][s]
        BY <1>r, <2>2
    <3>3. t \in Counted' <=> t \in Counted
        BY <1>1, <2>2, <2>5, <2>6, <2>7, <3>2 DEF Counted, OneInside, Body
    <3>4. QED
        BY <3>1, <3>3
  <2>15. Counted' = Counted
      BY <2>14 DEF Counted
  <2>16. QED
      BY <2>1, <2>4, <2>13, <2>15 DEF GaugeInv
<1>2. CASE once[t] # "fresh"
  <2>1. Move(t, r, "close", "exit") /\ UNCHANGED closeVars
      BY <1>2 DEF EnterClose, closeVars
  <2>2. QED
      BY <1>r, <2>1, MoveInv DEF Calm, PCs, Body
<1>3. QED
    BY <1>1, <1>2

(* The steps of the body: each leaves one stage of close() for the next.   *)
LEMMA CloseUDPInv ==
  ASSUME Inv, NEW t \in Tunnels, NEW r \in Closers, CloseUDP(t, r) PROVE Inv'
<1> USE DEF Inv
<1>r. r \in Roles /\ Closers \subseteq Roles /\ "statsLoop" \in Roles \ Closers
    BY DEF Roles, Closers
<1>1. /\ Move(t, r, "closeUDP", "closeWS")
      /\ udpOpen' = [udpOpen EXCEPT ![t] = FALSE]
      /\ UNCHANGED <<once, done, wsOpen, activeConns, callback>>
    BY DEF CloseUDP
<1>2. /\ pc' \in [Tunnels -> [Roles -> PCs]] /\ handler' = handler
      /\ pc[t][r] = "closeUDP" /\ pc'[t][r] = "closeWS"
      /\ \A s \in Roles \ {r} : pc'[t][s] = pc[t][s]
      /\ \A u \in Tunnels \ {t} : pc'[u] = pc[u]
    BY <1>r, <1>1, MovePoints DEF PCs
<1>3. callback' = callback
    BY <1>1
<1>4. Types'
    BY <1>1, <1>2, <1>3 DEF Types
<1>5. OneInside(t) /\ Released(t) /\ Lifecycle(t) /\ Reported(t)
    BY DEF CloseInv
<1>6. /\ Started(t) /\ Started(t)' /\ ~Early(t)
      /\ \A u \in Tunnels : Started(u)' <=> Started(u)
    BY <1>r, <1>2, <1>5 DEF Started, Lifecycle
<1>7. /\ once'[t] = once[t] /\ done'[t] = done[t]
      /\ wsOpen'[t] = wsOpen[t] /\ ~udpOpen'[t]
      /\ callback'[t] = callback[t]
      /\ handler'[t] = handler[t]
    BY <1>1, <1>2, <1>3 DEF Types
<1>8. OneInside(t)'
    BY <1>r, <1>2, <1>5, <1>6, <1>7 DEF OneInside, Body
<1>9. Released(t)'
    BY <1>r, <1>2, <1>5, <1>6, <1>7 DEF OneInside, Released, Body
<1>10. Lifecycle(t)'
    BY <1>r, <1>2, <1>5, <1>6, <1>7 DEF Lifecycle, Body, Early
<1>11. Reported(t)'
    BY <1>2, <1>3, <1>5, <1>6, <1>7 DEF OneInside, Reported, Body
<1>12. ASSUME NEW u \in Tunnels \ {t}
       PROVE  (OneInside(u) /\ Released(u) /\ Lifecycle(u) /\ Reported(u))'
    BY <1>1, <1>2, <1>3, Untouched DEF Types
<1>13. CloseInv'
    BY <1>8, <1>9, <1>10, <1>11, <1>12 DEF CloseInv
<1>14. \A u \in Tunnels : u \in Counted' <=> u \in Counted
  <2>1. ASSUME NEW u \in Tunnels \ {t} PROVE u \in Counted' <=> u \in Counted
      BY <1>1, <1>2, <1>6 DEF Types, Counted
  <2>2. \A s \in Closers : s # r => pc'[t][s] = pc[t][s]
      BY <1>r, <1>2
  <2>3. t \in Counted' <=> t \in Counted
      BY <1>2, <1>5, <1>6, <1>7, <2>2 DEF Counted, OneInside, Body
  <2>4. QED
      BY <2>1, <2>3
<1>15. Counted' = Counted
    BY <1>14 DEF Counted
<1>16. QED
    BY <1>1, <1>4, <1>13, <1>15 DEF GaugeInv

(* Closing the WebSocket.                                                  *)
LEMMA CloseWSInv ==
  ASSUME Inv, NEW t \in Tunnels, NEW r \in Closers, CloseWS(t, r) PROVE Inv'
<1> USE DEF Inv
<1>r. r \in Roles /\ Closers \subseteq Roles /\ "statsLoop" \in Roles \ Closers
    BY DEF Roles, Closers
<1>1. /\ Move(t, r, "closeWS", "decrement")
      /\ wsOpen' = [wsOpen EXCEPT ![t] = FALSE]
      /\ UNCHANGED <<once, done, udpOpen, activeConns, callback>>
    BY DEF CloseWS
<1>2. /\ pc' \in [Tunnels -> [Roles -> PCs]] /\ handler' = handler
      /\ pc[t][r] = "closeWS" /\ pc'[t][r] = "decrement"
      /\ \A s \in Roles \ {r} : pc'[t][s] = pc[t][s]
      /\ \A u \in Tunnels \ {t} : pc'[u] = pc[u]
    BY <1>r, <1>1, MovePoints DEF PCs
<1>3. callback' = callback
    BY <1>1
<1>4. Types'
    BY <1>1, <1>2, <1>3 DEF Types
<1>5. OneInside(t) /\ Released(t) /\ Lifecycle(t) /\ Reported(t)
    BY DEF CloseInv
<1>6. /\ Started(t) /\ Started(t)' /\ ~Early(t)
      /\ \A u \in Tunnels : Started(u)' <=> Started(u)
    BY <1>r, <1>2, <1>5 DEF Started, Lifecycle
<1>7. /\ once'[t] = once[t] /\ done'[t] = done[t]
      /\ ~wsOpen'[t] /\ udpOpen'[t] = udpOpen[t]
      /\ callback'[t] = callback[t]
      /\ handler'[t] = handler[t]
    BY <1>1, <1>2, <1>3 DEF Types
<1>8. OneInside(t)'
    BY <1>r, <1>2, <1>5, <1>6, <1>7 DEF OneInside, Body
<1>9. Released(t)'
    BY <1>r, <1>2, <1>5, <1>6, <1>7 DEF OneInside, Released, Body
<1>10. Lifecycle(t)'
    BY <1>r, <1>2, <1>5, <1>6, <1>7 DEF Lifecycle, Body, Early
<1>11. Reported(t)'
    BY <1>2, <1>3, <1>5, <1>6, <1>7 DEF OneInside, Reported, Body
<1>12. ASSUME NEW u \in Tunnels \ {t}
       PROVE  (OneInside(u) /\ Released(u) /\ Lifecycle(u) /\ Reported(u))'
    BY <1>1, <1>2, <1>3, Untouched DEF Types
<1>13. CloseInv'
    BY <1>8, <1>9, <1>10, <1>11, <1>12 DEF CloseInv
<1>14. \A u \in Tunnels : u \in Counted' <=> u \in Counted
  <2>1. ASSUME NEW u \in Tunnels \ {t} PROVE u \in Counted' <=> u \in Counted
      BY <1>1, <1>2, <1>6 DEF Types, Counted
  <2>2. \A s \in Closers : s # r => pc'[t][s] = pc[t][s]
      BY <1>r, <1>2
  <2>3. t \in Counted' <=> t \in Counted
      BY <1>2, <1>5, <1>6, <1>7, <2>2 DEF Counted, OneInside, Body
  <2>4. QED
      BY <2>1, <2>3
<1>15. Counted' = Counted
    BY <1>14 DEF Counted
<1>16. QED
    BY <1>1, <1>4, <1>13, <1>15 DEF GaugeInv

(* The gauge shrinks by this tunnel, which was counted until now: the Once *)
(* lets nobody else decrement for it.                                      *)
LEMMA DecrementInv ==
  ASSUME Inv, NEW t \in Tunnels, NEW r \in Closers, Decrement(t, r) PROVE Inv'
<1> USE DEF Inv
<1>r. r \in Roles /\ Closers \subseteq Roles /\ "statsLoop" \in Roles \ Closers
    BY DEF Roles, Closers
<1>1. /\ Move(t, r, "decrement", "notify")
      /\ activeConns' = activeConns - 1
      /\ UNCHANGED <<once, done, wsOpen, udpOpen, callback>>
    BY DEF Decrement
<1>2. /\ pc' \in [Tunnels -> [Roles -> PCs]] /\ handler' = handler
      /\ pc[t][r] = "decrement" /\ pc'[t][r] = "notify"
      /\ \A s \in Roles \ {r} : pc'[t][s] = pc[t][s]
      /\ \A u \in Tunnels \ {t} : pc'[u] = pc[u]
    BY <1>r, <1>1, MovePoints DEF PCs
<1>3. callback' = callback
    BY <1>1
<1>4. Types'
    BY <1>1, <1>2, <1>3 DEF Types
<1>5. OneInside(t) /\ Released(t) /\ Lifecycle(t) /\ Reported(t)
    BY DEF CloseInv
<1>6. /\ Started(t) /\ Started(t)' /\ ~Early(t)
      /\ \A u \in Tunnels : Started(u)' <=> Started(u)
    BY <1>r, <1>2, <1>5 DEF Started, Lifecycle
<1>7. /\ once'[t] = once[t] /\ done'[t] = done[t]
      /\ wsOpen'[t] = wsOpen[t] /\ udpOpen'[t] = udpOpen[t]
      /\ callback'[t] = callback[t]
      /\ handler'[t] = handler[t]
    BY <1>1, <1>2, <1>3 DEF Types
<1>8. OneInside(t)'
    BY <1>r, <1>2, <1>5, <1>6, <1>7 DEF OneInside, Body
<1>9. Released(t)'
    BY <1>r, <1>2, <1>5, <1>6, <1>7 DEF OneInside, Released, Body
<1>10. Lifecycle(t)'
    BY <1>r, <1>2, <1>5, <1>6, <1>7 DEF Lifecycle, Body, Early
<1>11. Reported(t)'
    BY <1>2, <1>3, <1>5, <1>6, <1>7 DEF OneInside, Reported, Body
<1>12. ASSUME NEW u \in Tunnels \ {t}
       PROVE  (OneInside(u) /\ Released(u) /\ Lifecycle(u) /\ Reported(u))'
    BY <1>1, <1>2, <1>3, Untouched DEF Types
<1>13. CloseInv'
    BY <1>8, <1>9, <1>10, <1>11, <1>12 DEF CloseInv
<1>14. once[t] = "running" /\ \A s \in Closers : pc[t][s] # "notify"
    BY <1>2, <1>5 DEF OneInside, Body
<1>15. t \in Counted /\ Counted' = Counted \ {t}
    BY <1>r, <1>1, <1>2, <1>6, <1>7, <1>14 DEF Counted
<1>16. IsFiniteSet(Counted)
    BY TunnelsAssumption, FS_Subset DEF Counted
<1>17. GaugeInv'
    BY <1>1, <1>15, <1>16, FS_RemoveElement DEF GaugeInv
<1>18. QED
    BY <1>4, <1>13, <1>17

(* The last step of the body completes the Once.                           *)
LEMMA NotifyInv ==
  ASSUME Inv, NEW t \in Tunnels, NEW r \in Closers, Notify(t, r) PROVE Inv'
<1> USE DEF Inv
<1>r. r \in Roles /\ Closers \subseteq Roles /\ "statsLoop" \in Roles \ Closers
    BY DEF Roles, Closers
<1>1. /\ Move(t, r, "notify", "exit")
      /\ notifyManager(t, "disconnected")
      /\ once' = [once EXCEPT ![t] = "finished"]
      /\ UNCHANGED <<done, wsOpen, udpOpen, activeConns>>
    BY DEF Notify
<1>2. /\ pc' \in [Tunnels -> [Roles -> PCs]] /\ handler' = handler
      /\ pc[t][r] = "notify" /\ pc'[t][r] = "exit"
      /\ \A s \in Roles \ {r} : pc'[t][s] = pc[t][s]
      /\ \A u \in Tunnels \ {t} : pc'[u] = pc[u]
    BY <1>r, <1>1, MovePoints DEF PCs
<1>3. /\ callback' \in [Tunnels -> [Events -> {"none", "started"}]]
      /\ \A u \in Tunnels \ {t} : callback'[u] = callback[u]
      /\ callback'[t]["connected"] = callback[t]["connected"]
      /\ t \notin Tokened => callback'[t]["disconnected"] = callback[t]["disconnected"]
    BY <1>1 DEF Types, notifyManager, Events
<1>4. Types'
    BY <1>1, <1>2, <1>3 DEF Types
<1>5. OneInside(t) /\ Released(t) /\ Lifecycle(t) /\ Reported(t)
    BY DEF CloseInv
<1>6. /\ Started(t) /\ Started(t)' /\ ~Early(t)
      /\ \A u \in Tunnels : Started(u)' <=> Started(u)
    BY <1>r, <1>2, <1>5 DEF Started, Lifecycle
<1>7. /\ once'[t] = "finished" /\ done'[t] = done[t]
      /\ wsOpen'[t] = wsOpen[t] /\ udpOpen'[t] = udpOpen[t]
      /\ handler'[t] = handler[t]
    BY <1>1, <1>2, <1>3 DEF Types
<1>8. OneInside(t)'
    BY <1>r, <1>2, <1>5, <1>6, <1>7 DEF OneInside, Body
<1>9. Released(t)'
    BY <1>r, <1>2, <1>5, <1>6, <1>7 DEF OneInside, Released, Body
<1>10. Lifecycle(t)'
    BY <1>r, <1>2, <1>5, <1>6, <1>7 DEF OneInside, Lifecycle, Body, Early
<1>11. Reported(t)'
    BY <1>2, <1>3, <1>5, <1>6, <1>7 DEF OneInside, Reported, Body
<1>12. ASSUME NEW u \in Tunnels \ {t}
       PROVE  (OneInside(u) /\ Released(u) /\ Lifecycle(u) /\ Reported(u))'
    BY <1>1, <1>2, <1>3, Untouched DEF Types
<1>13. CloseInv'
    BY <1>8, <1>9, <1>10, <1>11, <1>12 DEF CloseInv
<1>14. \A u \in Tunnels : u \in Counted' <=> u \in Counted
  <2>1. ASSUME NEW u \in Tunnels \ {t} PROVE u \in Counted' <=> u \in Counted
      BY <1>1, <1>2, <1>6 DEF Types, Counted
  <2>2. \A s \in Closers : s # r => pc'[t][s] = pc[t][s]
      BY <1>r, <1>2
  <2>3. t \in Counted' <=> t \in Counted
      BY <1>2, <1>5, <1>6, <1>7, <2>2 DEF Counted, OneInside, Body
  <2>4. QED
      BY <2>1, <2>3
<1>15. Counted' = Counted
    BY <1>14 DEF Counted
<1>16. QED
    BY <1>1, <1>4, <1>13, <1>15 DEF GaugeInv

(* Every step of close().                                                  *)
LEMMA CloseStepInv ==
  ASSUME Inv, NEW t \in Tunnels, NEW r \in Closers, close(t, r) PROVE Inv'
BY EnterCloseInv, CloseUDPInv, CloseWSInv, DecrementInv, NotifyInv DEF close

-----------------------------------------------------------------------------
(* The goroutines outside close(), the crash, and the whole step *)

(* pingLoop moves between points outside close(), or to its call.          *)
LEMMA pingLoopInv == ASSUME Inv, NEW t \in Tunnels, pingLoop(t) PROVE Inv'
<1>1. {"select", "write", "close"} \subseteq Calm /\ "pingLoop" \in Roles
    BY DEF Calm, PCs, Body, Roles, Closers
<1>2. UNCHANGED closeVars
    BY DEF Go, pingLoop, PingTick, PingWritten, PingFails, PingDone
<1>3. \E from, to \in Calm : Move(t, "pingLoop", from, to)
    BY <1>1 DEF Go, pingLoop, PingTick, PingWritten, PingFails, PingDone
<1>4. QED
    BY <1>1, <1>2, <1>3, MoveInv

(* So does wsToUDP.                                                        *)
LEMMA wsToUDPInv == ASSUME Inv, NEW t \in Tunnels, wsToUDP(t) PROVE Inv'
<1>1. {"read", "close"} \subseteq Calm /\ "wsToUDP" \in Roles
    BY DEF Calm, PCs, Body, Roles, Closers
<1>2. UNCHANGED closeVars
    BY DEF Go, wsToUDP, Forward, SkipControl, ReadFails
<1>3. \E from, to \in Calm : Move(t, "wsToUDP", from, to)
    BY <1>1 DEF Go, wsToUDP, Forward, SkipControl, ReadFails
<1>4. QED
    BY <1>1, <1>2, <1>3, MoveInv

(* So does udpToWS.                                                        *)
LEMMA udpToWSInv == ASSUME Inv, NEW t \in Tunnels, udpToWS(t) PROVE Inv'
<1>1. {"check", "read", "write", "close"} \subseteq Calm /\ "udpToWS" \in Roles
    BY DEF Calm, PCs, Body, Roles, Closers
<1>2. UNCHANGED closeVars
    BY DEF Go, udpToWS, CheckDone, UDPRead, UDPTimeout, UDPReadFails, WSWritten, WSWriteFails
<1>3. \E from, to \in Calm : Move(t, "udpToWS", from, to)
    BY <1>1
    DEF Go, udpToWS, CheckDone, UDPRead, UDPTimeout, UDPReadFails, WSWritten, WSWriteFails
<1>4. QED
    BY <1>1, <1>2, <1>3, MoveInv

(* statsLoop ends without calling close().                                 *)
LEMMA StatsDoneInv == ASSUME Inv, NEW t \in Tunnels, StatsDone(t) PROVE Inv'
<1>1. {"select", "exit"} \subseteq Calm /\ "statsLoop" \in Roles
    BY DEF Calm, PCs, Body, Roles, Closers
<1>2. QED
    BY <1>1, MoveInv DEF Go, StatsDone

(* A panic takes all goroutines, sockets and the gauge with it.            *)
LEMMA PanicInv == ASSUME Inv, Panic PROVE Inv'
<1> USE DEF Inv
<1>1. /\ \A t \in Tunnels, r \in Roles : pc'[t][r] = "off"
      /\ \A t \in Tunnels : ~wsOpen'[t] /\ ~udpOpen'[t]
      /\ \A t \in Tunnels : /\ handler'[t] \in {"idle", "returned"}
                            /\ handler'[t] = "idle" => handler[t] = "idle"
      /\ UNCHANGED <<once, done, callback>> /\ activeConns' = 0
    BY DEF Panic, Types, Roles, Closers, Events
<1>2. Types'
    BY DEF Panic, Types, PCs, Events
<1>3. \A t \in Tunnels : ~Started(t)'
    BY <1>1 DEF Started, Roles
<1>h. \A t \in Tunnels : handler'[t] \notin {"dialed", "counted"}
    BY <1>1
<1>e. \A t \in Tunnels : Early(t)' =>
        once[t] = "fresh" /\ callback[t]["disconnected"] = "none"
    BY <1>1 DEF CloseInv, Lifecycle, Early
<1>4. CloseInv'
  <2> SUFFICES ASSUME NEW t \in Tunnels
               PROVE  (OneInside(t) /\ Released(t) /\ Lifecycle(t) /\ Reported(t))'
      BY DEF CloseInv
  <2>1. OneInside(t) /\ Released(t) /\ Lifecycle(t) /\ Reported(t)
      BY DEF CloseInv
  <2>2. \A r \in Closers : pc'[t][r] = "off"
      BY <1>1 DEF Roles
  <2>3. OneInside(t)'
      BY <1>3, <2>2 DEF OneInside, Body
  <2>4. Released(t)'
      BY <1>1, <1>3, <1>h, <2>2 DEF Released, Body
  <2>5. Lifecycle(t)'
      BY <1>1, <1>3, <1>e, <2>1 DEF Lifecycle, Started, Body, Roles
  <2>6. Reported(t)'
      BY <1>1, <1>3, <2>1 DEF Reported
  <2>7. QED
      BY <2>3, <2>4, <2>5, <2>6
<1>5. Counted' = {}
    BY <1>h, <1>3 DEF Counted
<1>6. QED
    BY <1>1, <1>2, <1>4, <1>5, FS_EmptySet DEF GaugeInv

(* Every step of the server and of its environment.                        *)
LEMMA NextInv == Inv /\ [Next]_vars => Inv'
<1> SUFFICES ASSUME Inv, [Next]_vars PROVE Inv'
    OBVIOUS
<1>1. CASE UNCHANGED vars
    BY <1>1, StillInv DEF vars
<1>2. CASE Restart
    BY <1>2, StillInv DEF Restart
<1>3. CASE Environment
  <2>1. UNCHANGED <<handler, pc, closeVars>>
      BY <1>3 DEF Environment, ClientSends, ClientControl, WGSends, WireBreaks, MaxAge
  <2>2. QED
      BY <2>1, StillInv
<1>4. ASSUME NEW t \in Tunnels, handleTunnel(t) PROVE Inv'
    BY <1>4, UpgradeInv, DialFailsInv, DialUDPInv, CountTunnelInv, StartTunnelInv,
       HandlerReturnsInv
    DEF handleTunnel
<1>5. QED
    BY <1>1, <1>2, <1>3, <1>4, PanicInv, pingLoopInv, wsToUDPInv, udpToWSInv,
       StatsDoneInv, CloseStepInv
    DEF Next, Server

(* The inductive invariant: one goroutine at most inside close(), and the  *)
(* stage it has reached says what has been released and reported.          *)
THEOREM ServerInvariant == Spec => []Inv
BY InitInv, NextInv, PTL DEF Spec

-----------------------------------------------------------------------------
(* /healthz never drifts: for any number of tunnels, whichever of their    *)
(* goroutines run into close() (server/main.go:183) and however the steps  *)
(* interleave, the gauge differs from the number of UDP sockets held by at *)
(* most the tunnels between dial and increment or half way through close().*)
THEOREM GaugeIsExact == Spec => []HealthExact
<1> DEFINE held     == {t \in Tunnels : udpOpen[t] /\ ~Changing(t)}
           changing == {t \in Tunnels : Changing(t)}
<1>1. Inv => HealthExact
  <2> SUFFICES ASSUME Inv
               PROVE  activeConns - Cardinality(held) \in 0..Cardinality(changing)
      BY DEF HealthExact
  <2>1. ASSUME NEW t \in Tunnels, Started(t), once[t] = "running" PROVE Changing(t)
    <3>1. PICK r \in Closers : pc[t][r] \in Body
        BY <2>1 DEF Inv, CloseInv, OneInside
    <3>2. QED
        BY <2>1, <3>1 DEF Changing, Running, Body, Roles
  <2>2. ASSUME NEW t \in Tunnels, udpOpen[t], ~Changing(t) PROVE t \in Counted
    <3>1. OneInside(t) /\ Released(t) /\ Lifecycle(t)
        BY DEF Inv, CloseInv
    <3>2. once[t] # "finished" /\ (Started(t) => once[t] # "running")
        BY <2>1, <2>2, <3>1 DEF Released
    <3>3. handler[t] = "counted" \/ Started(t)
        BY <2>2, <3>1 DEF Released, Changing
    <3>4. \A r \in Closers : pc[t][r] # "notify"
        BY <3>1, <3>2 DEF OneInside, Lifecycle, Body, Roles
    <3>5. QED
        BY <3>2, <3>3, <3>4 DEF Counted
  <2>3. ASSUME NEW t \in Counted, ~udpOpen[t] PROVE Changing(t)
    <3>1. Released(t) /\ Lifecycle(t) /\ once[t] \in {"fresh", "running", "finished"}
        BY DEF Inv, Types, CloseInv, Counted
    <3>2. Started(t) /\ once[t] = "running"
        BY <2>3, <3>1 DEF Released, Counted
    <3>3. QED
        BY <2>1, <3>2 DEF Counted
  <2>4. /\ held \subseteq Counted /\ Counted \ held \subseteq changing
        /\ Counted \subseteq Tunnels /\ changing \subseteq Tunnels
      BY <2>2, <2>3 DEF Counted
  <2> HIDE DEF held, changing
  <2>5. IsFiniteSet(Counted) /\ IsFiniteSet(changing)
      BY <2>4, TunnelsAssumption, FS_Subset
  <2>6. /\ IsFiniteSet(held) /\ Counted \cap held = held
        /\ Cardinality(Counted \ held) = Cardinality(Counted) - Cardinality(held)
    <3>1. IsFiniteSet(held) /\ Counted \cap held = held
        BY <2>4, <2>5, FS_Subset
    <3>2. QED
        BY <2>5, <3>1, FS_Difference
  <2>7. Cardinality(Counted \ held) <= Cardinality(changing)
      BY <2>4, <2>5, FS_Subset
  <2>8. /\ Cardinality(Counted \ held) \in Nat /\ Cardinality(changing) \in Nat
        /\ Cardinality(Counted) \in Nat /\ Cardinality(held) \in Nat
    <3>1. IsFiniteSet(Counted \ held)
        BY <2>5, FS_Difference
    <3>2. QED
        BY <2>5, <2>6, <3>1, FS_CardinalityType
  <2>9. QED
      BY <2>6, <2>7, <2>8 DEF Inv, GaugeInv
<1>2. QED
    BY <1>1, ServerInvariant, PTL

(* The manager hears "disconnected" (server/main.go:190) only of a tunnel  *)
(* whose sockets are both closed, and only after "connected".              *)
THEOREM DisconnectComesLast == Spec => []DisconnectedIsLast
<1>1. Inv => DisconnectedIsLast
    BY DEF Inv, CloseInv, Released, Lifecycle, Reported, DisconnectedIsLast
<1>2. QED
    BY <1>1, ServerInvariant, PTL

-----------------------------------------------------------------------------
(* The rest of the type invariant: the environment and the datagrams.      *)
DataTypes ==
  /\ up \in BOOLEAN
  /\ wire \in [Tunnels -> {"up", "broken"}]
  /\ udpErr \in [Tunnels -> BOOLEAN]
  /\ aged \in [Tunnels -> BOOLEAN]
  /\ c2s \in [Tunnels -> Seq(Nat)]
  /\ fromWG \in [Tunnels -> Seq(Nat)]
  /\ buf \in [Tunnels -> Nat]
  /\ sent \in [Tunnels -> Nat]
  /\ wgSent \in [Tunnels -> Nat]
  /\ clash \in [Tunnels -> {"none", "now", "past"}]
  /\ toWG \in [Tunnels -> Seq(Nat)]
  /\ toWS \in [Tunnels -> Seq(Nat)]

(* A step that changes none of these variables.                            *)
LEMMA StillTypes ==
  ASSUME DataTypes, UNCHANGED <<up, envVars, dataVars>> PROVE DataTypes'
BY DEF DataTypes, envVars, dataVars, upData, downData

(* The ends of a queue of datagrams.                                       *)
LEMMA Queues ==
  ASSUME NEW q \in Seq(Nat)
  PROVE  /\ q # <<>> => Head(q) \in Nat /\ Tail(q) \in Seq(Nat)
         /\ \A n \in Nat : Append(q, n) \in Seq(Nat)
OBVIOUS

(* Entering and leaving WriteMessage.                                      *)
LEMMA WriteTypes ==
  ASSUME DataTypes, NEW t \in Tunnels, NEW r
  PROVE  EnterWrite(t, r) \/ LeaveWrite(t, r) =>
           clash' \in [Tunnels -> {"none", "now", "past"}]
BY DEF DataTypes, EnterWrite, LeaveWrite

(* The steps of the server that move a datagram, write or see an error.    *)
LEMMA ServerTypes ==
  ASSUME DataTypes, NEW t \in Tunnels
  PROVE  /\ Forward(t) \/ SkipControl(t) => DataTypes'
         /\ UDPRead(t) \/ UDPReadFails(t) \/ WSWritten(t) \/ WSWriteFails(t) => DataTypes'
         /\ PingTick(t) \/ PingWritten(t) \/ PingFails(t) => DataTypes'
         /\ \A r \in Closers : CloseUDP(t, r) => DataTypes'
<1> USE DEF DataTypes, envVars, upData, downData, dataVars, Control, None
<1>w. /\ PingTick(t) \/ PingWritten(t) \/ PingFails(t) \/ UDPRead(t)
           \/ WSWritten(t) \/ WSWriteFails(t) =>
                clash' \in [Tunnels -> {"none", "now", "past"}]
    BY WriteTypes DEF PingTick, PingWritten, PingFails, UDPRead, WSWritten, WSWriteFails
<1>1. CASE Forward(t)
  <2>1. Head(c2s[t]) \in Nat /\ Tail(c2s[t]) \in Seq(Nat)
      BY <1>1, Queues DEF Forward
  <2>2. c2s' \in [Tunnels -> Seq(Nat)]
      BY <1>1, <2>1 DEF Forward
  <2>3. toWG' \in [Tunnels -> Seq(Nat)]
    <3>1. Append(toWG[t], Head(c2s[t])) \in Seq(Nat)
        BY <2>1, Queues
    <3>2. toWG' \in {toWG, [toWG EXCEPT ![t] = Append(@, Head(c2s[t]))]}
        BY <1>1 DEF Forward
    <3>3. QED
        BY <3>1, <3>2
  <2>4. udpErr' \in [Tunnels -> BOOLEAN]
      BY <1>1 DEF Forward
  <2>5. UNCHANGED <<up, wire, aged, sent, downData>>
      BY <1>1 DEF Forward, Move
  <2>6. QED
      BY <2>2, <2>3, <2>4, <2>5
<1>2. CASE SkipControl(t)
  <2>1. c2s' \in [Tunnels -> Seq(Nat)]
      BY <1>2, Queues DEF SkipControl
  <2>2. UNCHANGED <<up, envVars, sent, toWG, downData>>
      BY <1>2 DEF SkipControl, Move
  <2>3. QED
      BY <2>1, <2>2
<1>3. CASE UDPRead(t)
  <2>1. Head(fromWG[t]) \in Nat /\ Tail(fromWG[t]) \in Seq(Nat)
      BY <1>3, Queues DEF UDPRead
  <2>2. buf' \in [Tunnels -> Nat] /\ fromWG' \in [Tunnels -> Seq(Nat)]
      BY <1>3, <2>1 DEF UDPRead
  <2>3. UNCHANGED <<up, envVars, upData, wgSent, toWS>>
      BY <1>3 DEF UDPRead, Move
  <2>4. QED
      BY <1>3, <1>w, <2>2, <2>3
<1>4. CASE UDPReadFails(t)
    BY <1>4 DEF UDPReadFails, Move
<1>5. CASE WSWritten(t)
  <2>1. PICK f \in Nat : toWS' = [toWS EXCEPT ![t] = Append(@, f)]
      BY <1>5 DEF WSWritten, Damaged
  <2>2. toWS' \in [Tunnels -> Seq(Nat)] /\ buf' \in [Tunnels -> Nat]
      BY <1>5, <2>1, Queues DEF WSWritten
  <2>3. UNCHANGED <<up, envVars, upData, fromWG, wgSent>>
      BY <1>5 DEF WSWritten, Move
  <2>4. QED
      BY <1>5, <1>w, <2>2, <2>3
<1>6. CASE WSWriteFails(t)
    BY <1>6, <1>w DEF WSWriteFails, Move
<1>p. CASE PingTick(t) \/ PingWritten(t) \/ PingFails(t)
  <2>1. UNCHANGED <<up, envVars, upData, fromWG, buf, wgSent, toWS>>
      BY <1>p DEF PingTick, PingWritten, PingFails, Move
  <2>2. QED
      BY <1>p, <1>w, <2>1
<1>7. ASSUME NEW r \in Closers, CloseUDP(t, r) PROVE DataTypes'
    BY <1>7 DEF CloseUDP, Move
<1>8. QED
    BY <1>1, <1>2, <1>3, <1>4, <1>5, <1>6, <1>p, <1>7

(* The steps of the environment.                                           *)
LEMMA EnvironmentTypes == ASSUME DataTypes, Environment PROVE DataTypes'
<1> USE DEF DataTypes, envVars, upData, downData, dataVars, Control
<1>1. ASSUME NEW t \in Tunnels, ClientSends(t) PROVE DataTypes'
    BY <1>1 DEF ClientSends
<1>2. ASSUME NEW t \in Tunnels, ClientControl(t) PROVE DataTypes'
    BY <1>2 DEF ClientControl
<1>3. ASSUME NEW t \in Tunnels, WGSends(t) PROVE DataTypes'
    BY <1>3 DEF WGSends
<1>4. ASSUME NEW t \in Tunnels, WireBreaks(t) PROVE DataTypes'
    BY <1>4 DEF WireBreaks
<1>5. ASSUME NEW t \in Tunnels, MaxAge(t) PROVE DataTypes'
    BY <1>5 DEF MaxAge
<1>6. QED
    BY <1>1, <1>2, <1>3, <1>4, <1>5 DEF Environment

(* Every step keeps the types.                                             *)
LEMMA NextDataTypes == DataTypes /\ [Next]_vars => DataTypes'
<1> SUFFICES ASSUME DataTypes, [Next]_vars PROVE DataTypes'
    OBVIOUS
<1>1. CASE UNCHANGED vars
    BY <1>1, StillTypes DEF vars
<1>2. CASE Restart
    BY <1>2 DEF Restart, DataTypes, envVars, dataVars, upData, downData
<1>3. CASE Environment
    BY <1>3, EnvironmentTypes
<1>4. CASE Panic
  <2>1. wire' \in [Tunnels -> {"up", "broken"}]
      BY <1>4 DEF Panic, DataTypes
  <2>2. up' = FALSE /\ fromWG' \in [Tunnels -> Seq(Nat)] /\ buf' \in [Tunnels -> Nat]
      BY <1>4 DEF Panic, None
  <2>3. UNCHANGED <<udpErr, aged, upData, wgSent, toWS>>
      BY <1>4 DEF Panic
  <2>4. clash' \in [Tunnels -> {"none", "now", "past"}]
      BY <1>4 DEF Panic, DataTypes
  <2>5. QED
      BY <2>1, <2>2, <2>3, <2>4 DEF DataTypes, upData
<1>5. ASSUME NEW t \in Tunnels, handleTunnel(t) \/ StatsDone(t) PROVE DataTypes'
  <2>1. UNCHANGED <<up, envVars, dataVars>>
      BY <1>5 DEF handleTunnel, Upgrade, DialFails, DialUDP, CountTunnel, StartTunnel,
                  HandlerReturns, StatsDone, Go, Move
  <2>2. QED
      BY <2>1, StillTypes
<1>6. ASSUME NEW t \in Tunnels, pingLoop(t) PROVE DataTypes'
  <2>1. \/ PingTick(t) \/ PingWritten(t) \/ PingFails(t)
        \/ UNCHANGED <<up, envVars, dataVars>>
      BY <1>6 DEF pingLoop, PingDone, Go, Move
  <2>2. QED
      BY <2>1, StillTypes, ServerTypes
<1>7. ASSUME NEW t \in Tunnels, wsToUDP(t) PROVE DataTypes'
  <2>1. Forward(t) \/ SkipControl(t) \/ UNCHANGED <<up, envVars, dataVars>>
      BY <1>7 DEF wsToUDP, ReadFails, Go, Move
  <2>2. QED
      BY <2>1, StillTypes, ServerTypes
<1>8. ASSUME NEW t \in Tunnels, udpToWS(t) PROVE DataTypes'
  <2>1. \/ UDPRead(t) \/ UDPReadFails(t) \/ WSWritten(t) \/ WSWriteFails(t)
        \/ UNCHANGED <<up, envVars, dataVars>>
      BY <1>8 DEF udpToWS, CheckDone, UDPTimeout, Go, Move
  <2>2. QED
      BY <2>1, StillTypes, ServerTypes
<1>9. ASSUME NEW t \in Tunnels, NEW r \in Closers, close(t, r) PROVE DataTypes'
  <2>1. CloseUDP(t, r) \/ UNCHANGED <<up, envVars, dataVars>>
      BY <1>9 DEF close, EnterClose, CloseWS, Decrement, Notify, Move
  <2>2. QED
      BY <2>1, StillTypes, ServerTypes
<1>10. QED
    BY <1>1, <1>2, <1>3, <1>4, <1>5, <1>6, <1>7, <1>8, <1>9 DEF Next, Server

(* The variables of the server keep their types; that activeConns stays a  *)
(* natural number (server/main.go:188) needs the exactness of the gauge.   *)
THEOREM ServerTypeCorrect == Spec => []TypeOK
<1>1. Init => DataTypes
    BY DEF Init, DataTypes, None
<1>2. Inv /\ DataTypes => TypeOK
  <2> SUFFICES ASSUME Inv, DataTypes PROVE TypeOK
      OBVIOUS
  <2>1. IsFiniteSet(Counted)
      BY TunnelsAssumption, FS_Subset DEF Counted
  <2>2. activeConns \in Nat
      BY <2>1, FS_CardinalityType DEF Inv, GaugeInv
  <2>3. QED
      BY <2>2 DEF Inv, Types, DataTypes, TypeOK
<1>3. QED
    BY <1>1, <1>2, InitInv, NextInv, NextDataTypes, PTL DEF Spec

-----------------------------------------------------------------------------
(* Why a tunnel is closed *)

Reason(t) == wire[t] = "broken" \/ udpErr[t] \/ aged[t]

(* Whoever calls close() has a reason, and the WebSocket is open until the *)
(* body of close() reaches it.                                             *)
Aware(t) ==
  /\ done[t] => Reason(t)
  /\ \A r \in Closers : pc[t][r] = "close" => Reason(t)
  /\ \A r \in Closers : pc[t][r] \in {"closeUDP", "closeWS"} => wsOpen[t]
  /\ Started(t) /\ once[t] = "fresh" => wsOpen[t]
  /\ Early(t) /\ handler[t] # "idle" => wsOpen[t]
  /\ handler[t] = "idle" => ~wsOpen[t]

(* The step leaves every tunnel but t alone.                               *)
Only(t) == \A u \in Tunnels \ {t} :
  /\ handler'[u] = handler[u] /\ pc'[u] = pc[u] /\ once'[u] = once[u]
  /\ done'[u] = done[u] /\ wsOpen'[u] = wsOpen[u] /\ udpOpen'[u] = udpOpen[u]
  /\ callback'[u] = callback[u] /\ wire'[u] = wire[u]
  /\ udpErr'[u] = udpErr[u] /\ aged'[u] = aged[u]
  /\ c2s'[u] = c2s[u] /\ sent'[u] = sent[u] /\ toWG'[u] = toWG[u]
  /\ fromWG'[u] = fromWG[u] /\ buf'[u] = buf[u]
  /\ wgSent'[u] = wgSent[u] /\ clash'[u] = clash[u] /\ toWS'[u] = toWS[u]

(* What t and its environment do.                                          *)
Acts(t) == \/ handleTunnel(t) \/ pingLoop(t) \/ wsToUDP(t) \/ udpToWS(t)
           \/ StatsDone(t) \/ \E r \in Closers : close(t, r)
           \/ ClientSends(t) \/ ClientControl(t) \/ WGSends(t)
           \/ WireBreaks(t) \/ MaxAge(t)

(* The tunnels have nothing but activeConns in common.                     *)
LEMMA ActsAlone ==
  ASSUME Types, DataTypes, NEW t \in Tunnels, Acts(t) PROVE Only(t)
<1> USE DEF Types, DataTypes, Only, Move, Go, closeVars, envVars, upData, downData,
            dataVars, notifyManager, EnterWrite, LeaveWrite
<1>1. CASE handleTunnel(t)
    BY <1>1 DEF handleTunnel, Upgrade, DialFails, DialUDP, CountTunnel, StartTunnel,
                HandlerReturns
<1>2. CASE pingLoop(t)
  <2>1. CASE PingTick(t) \/ PingDone(t)
      BY <2>1 DEF PingTick, PingDone
  <2>2. CASE PingWritten(t)
      BY <2>2 DEF PingWritten
  <2>3. CASE PingFails(t)
      BY <2>3 DEF PingFails
  <2>4. QED
      BY <1>2, <2>1, <2>2, <2>3 DEF pingLoop
<1>3. CASE wsToUDP(t)
  <2>1. CASE Forward(t)
      BY <2>1 DEF Forward
  <2>2. CASE SkipControl(t)
      BY <2>2 DEF SkipControl
  <2>3. CASE ReadFails(t)
      BY <2>3 DEF ReadFails
  <2>4. QED
      BY <1>3, <2>1, <2>2, <2>3 DEF wsToUDP
<1>4. CASE udpToWS(t)
  <2>1. CASE CheckDone(t) \/ UDPTimeout(t) \/ UDPReadFails(t)
      BY <2>1 DEF CheckDone, UDPTimeout, UDPReadFails
  <2>2. CASE UDPRead(t)
      BY <2>2 DEF UDPRead
  <2>3. CASE WSWritten(t) \/ WSWriteFails(t)
      BY <2>3 DEF WSWritten, WSWriteFails
  <2>4. QED
      BY <1>4, <2>1, <2>2, <2>3 DEF udpToWS
<1>5. CASE StatsDone(t)
    BY <1>5 DEF StatsDone
<1>6. ASSUME NEW r \in Closers, close(t, r) PROVE Only(t)
    BY <1>6 DEF close, EnterClose, CloseUDP, CloseWS, Decrement, Notify
<1>7. CASE ClientSends(t) \/ ClientControl(t)
    BY <1>7 DEF ClientSends, ClientControl
<1>8. CASE WGSends(t) \/ WireBreaks(t) \/ MaxAge(t)
    BY <1>8 DEF WGSends, WireBreaks, MaxAge
<1>9. QED
    BY <1>1, <1>2, <1>3, <1>4, <1>5, <1>6, <1>7, <1>8 DEF Acts

(* Reasons do not go away.                                                 *)
LEMMA ReasonStays ==
  ASSUME DataTypes, NEW t \in Tunnels, [Next]_vars, Reason(t) PROVE Reason(t)'
<1> USE DEF DataTypes
<1>1. wire[t] = "broken" => wire'[t] = "broken"
  <2>1. CASE Panic
      BY <2>1 DEF Panic
  <2>2. \/ Panic \/ wire' = wire
        \/ \E u \in Tunnels : wire' = [wire EXCEPT ![u] = "broken"]
      BY DEF Next, Server, Environment, Restart, handleTunnel, Upgrade, DialFails,
         DialUDP, CountTunnel, StartTunnel, HandlerReturns, pingLoop, PingTick,
         PingWritten, PingFails, PingDone, wsToUDP, Forward, SkipControl, ReadFails, udpToWS, CheckDone,
         UDPRead, UDPTimeout, UDPReadFails, WSWritten, WSWriteFails, StatsDone,
         close, EnterClose, CloseUDP, CloseWS, Decrement, Notify, ClientSends,
         ClientControl, WGSends, WireBreaks, MaxAge, Go, envVars, vars
  <2>3. QED
      BY <2>1, <2>2
<1>2. udpErr[t] => udpErr'[t]
  <2>1. \/ udpErr' = udpErr
        \/ \E u \in Tunnels : udpErr' = [udpErr EXCEPT ![u] = @ \/ udpOpen[u]]
      BY DEF Next, Server, Environment, Panic, Restart, handleTunnel, Upgrade,
         DialFails, DialUDP, CountTunnel, StartTunnel, HandlerReturns, pingLoop,
         PingTick, PingWritten, PingFails, PingDone, wsToUDP, Forward, SkipControl, ReadFails, udpToWS,
         CheckDone, UDPRead, UDPTimeout, UDPReadFails, WSWritten, WSWriteFails,
         StatsDone, close, EnterClose, CloseUDP, CloseWS, Decrement, Notify,
         ClientSends, ClientControl, WGSends, WireBreaks, MaxAge, Go, envVars, vars
  <2>2. QED
      BY <2>1, Zenon
<1>3. aged[t] => aged'[t]
  <2>1. aged' = aged \/ \E u \in Tunnels : aged' = [aged EXCEPT ![u] = TRUE]
      BY DEF Next, Server, Environment, Panic, Restart, handleTunnel, Upgrade,
         DialFails, DialUDP, CountTunnel, StartTunnel, HandlerReturns, pingLoop,
         PingTick, PingWritten, PingFails, PingDone, wsToUDP, Forward, SkipControl, ReadFails, udpToWS,
         CheckDone, UDPRead, UDPTimeout, UDPReadFails, WSWritten, WSWriteFails,
         StatsDone, close, EnterClose, CloseUDP, CloseWS, Decrement, Notify,
         ClientSends, ClientControl, WGSends, WireBreaks, MaxAge, Go, envVars, vars
  <2>2. QED
      BY <2>1, Zenon
<1>4. QED
    BY <1>1, <1>2, <1>3 DEF Reason

(* A goroutine that finds a socket closed was preceded by a close().       *)
LEMMA Explained ==
  ASSUME Inv, NEW t \in Tunnels, Aware(t), NEW r \in Roles, pc[t][r] # "off",
         ~wsOpen[t] \/ ~udpOpen[t]
  PROVE  Reason(t)
BY DEF Inv, CloseInv, Released, Lifecycle, Aware

(* A goroutine that moves outside close() needs a reason to go there.      *)
LEMMA MoveAware ==
  ASSUME Inv, NEW t \in Tunnels, Aware(t), Reason(t) => Reason(t)',
         NEW r \in Roles, NEW from \in Calm, NEW to \in Calm,
         Move(t, r, from, to), UNCHANGED closeVars, to = "close" => Reason(t)'
  PROVE  Aware(t)'
<1>1. to \in PCs /\ from # "off" /\ to # "off"
    BY DEF Calm
<1>2. /\ pc'[t][r] = to /\ \A s \in Roles \ {r} : pc'[t][s] = pc[t][s]
      /\ pc[t][r] # "off" /\ handler' = handler
    BY <1>1, MovePoints DEF Inv
<1>3. Started(t)' => Started(t)
    BY <1>1, <1>2 DEF Started, Roles
<1>4. to \notin {"closeUDP", "closeWS"}
    BY DEF Calm, Body
<1>5. QED
    BY <1>2, <1>3, <1>4 DEF Aware, closeVars, Roles, Early

(* The goroutines know why they end a tunnel.                              *)
LEMMA GoroutineAware ==
  ASSUME Inv, DataTypes, NEW t \in Tunnels, Aware(t), [Next]_vars,
         pingLoop(t) \/ wsToUDP(t) \/ udpToWS(t) \/ StatsDone(t)
  PROVE  Aware(t)'
<1> USE DEF Go
<1>1. Reason(t) => Reason(t)'
    BY ReasonStays
<1>2. /\ {"select", "check", "read", "write", "close", "exit"} \subseteq Calm
      /\ Roles = {"pingLoop", "wsToUDP", "udpToWS", "statsLoop"}
    BY DEF Calm, PCs, Body, Roles, Closers
<1>3. \A r \in Roles : pc[t][r] # "off" /\ (~wsOpen[t] \/ ~udpOpen[t]) => Reason(t)
    BY Explained
<1>4. ASSUME NEW r \in Roles, NEW from \in Calm, NEW to \in Calm \ {"close"},
             Move(t, r, from, to), UNCHANGED closeVars
      PROVE  Aware(t)'
    BY <1>1, <1>4, MoveAware
<1>5. ASSUME NEW r \in Roles, NEW from \in Calm,
             Move(t, r, from, "close"), UNCHANGED closeVars, Reason(t)'
      PROVE  Aware(t)'
    BY <1>1, <1>2, <1>5, MoveAware
<1>6. CASE PingTick(t) \/ PingWritten(t)
    BY <1>2, <1>4, <1>6 DEF PingTick, PingWritten
<1>7. CASE PingFails(t)
  <2>1. Move(t, "pingLoop", "write", "close") /\ UNCHANGED closeVars
      BY <1>7 DEF PingFails
  <2>2. Reason(t)
      BY <1>2, <1>3, <1>7, <2>1 DEF PingFails, Move, Reason
  <2>3. QED
      BY <1>1, <1>2, <1>5, <2>1, <2>2
<1>8. CASE PingDone(t)
  <2>1. Move(t, "pingLoop", "select", "close") /\ UNCHANGED closeVars
      BY <1>8 DEF PingDone
  <2>2. Reason(t)
      BY <1>8 DEF PingDone, Reason, Aware
  <2>3. QED
      BY <1>1, <1>2, <1>5, <2>1, <2>2
<1>9. CASE SkipControl(t)
    BY <1>2, <1>4, <1>9 DEF SkipControl
<1>10. CASE ReadFails(t)
  <2>1. Move(t, "wsToUDP", "read", "close") /\ UNCHANGED closeVars
      BY <1>10 DEF ReadFails
  <2>2. Reason(t)
      BY <1>2, <1>3, <1>10, <2>1 DEF ReadFails, Move, Reason
  <2>3. QED
      BY <1>1, <1>2, <1>5, <2>1, <2>2
<1>11. CASE Forward(t)
  <2>1. CASE Move(t, "wsToUDP", "read", "read")
      BY <1>2, <1>4, <1>11, <2>1 DEF Forward
  <2>2. CASE /\ Move(t, "wsToUDP", "read", "close")
             /\ udpErr' = [udpErr EXCEPT ![t] = @ \/ udpOpen[t]]
    <3>1. udpOpen[t] => udpErr'[t]
        BY <2>2, Zenon DEF DataTypes
    <3>2. Reason(t)'
        BY <1>1, <1>2, <1>3, <2>2, <3>1 DEF Move, Reason
    <3>3. QED
        BY <1>2, <1>5, <1>11, <2>2, <3>2 DEF Forward
  <2>3. QED
      BY <1>11, <2>1, <2>2 DEF Forward
<1>12. CASE CheckDone(t)
  <2>1. UNCHANGED closeVars
      BY <1>12 DEF CheckDone
  <2>2. CASE done[t]
    <3>1. Reason(t)
        BY <2>2 DEF Aware
    <3>2. QED
        BY <1>1, <1>2, <1>5, <1>12, <2>1, <2>2, <3>1 DEF CheckDone
  <2>3. CASE ~done[t]
      BY <1>2, <1>4, <1>12, <2>1, <2>3 DEF CheckDone
  <2>4. QED
      BY <2>2, <2>3
<1>13. CASE UDPRead(t) \/ UDPTimeout(t) \/ WSWritten(t)
    BY <1>2, <1>4, <1>13 DEF UDPRead, UDPTimeout, WSWritten
<1>14. CASE UDPReadFails(t)
  <2>1. Move(t, "udpToWS", "read", "close") /\ UNCHANGED closeVars
      BY <1>14 DEF UDPReadFails
  <2>2. udpErr' = [udpErr EXCEPT ![t] = @ \/ udpOpen[t]]
      BY <1>14 DEF UDPReadFails
  <2>3. udpOpen[t] => udpErr'[t]
      BY <2>2, Zenon DEF DataTypes
  <2>4. Reason(t)'
      BY <1>1, <1>2, <1>3, <2>1, <2>3 DEF Move, Reason
  <2>5. QED
      BY <1>2, <1>5, <2>1, <2>4
<1>15. CASE WSWriteFails(t)
  <2>1. Move(t, "udpToWS", "write", "close") /\ UNCHANGED closeVars
      BY <1>15 DEF WSWriteFails
  <2>2. Reason(t)
      BY <1>2, <1>3, <1>15, <2>1 DEF WSWriteFails, Move, Reason
  <2>3. QED
      BY <1>1, <1>2, <1>5, <2>1, <2>2
<1>16. CASE StatsDone(t)
    BY <1>2, <1>4, <1>16 DEF StatsDone
<1>17. QED
    BY <1>6, <1>7, <1>8, <1>9, <1>10, <1>11, <1>12, <1>13, <1>14, <1>15, <1>16
    DEF pingLoop, wsToUDP, udpToWS

(* So do handleTunnel, the steps of close() and the environment.           *)
LEMMA OthersAware ==
  ASSUME Inv, DataTypes, NEW t \in Tunnels, Aware(t), [Next]_vars,
         handleTunnel(t) \/ (\E r \in Closers : close(t, r)) \/ Environment
  PROVE  Aware(t)'
<1> USE DEF Inv, Types
<1>1. Reason(t) => Reason(t)'
    BY ReasonStays
<1>2. OneInside(t) /\ Released(t) /\ Lifecycle(t)
    BY DEF CloseInv
<1>3. Closers \subseteq Roles /\ "statsLoop" \in Roles \ Closers
    BY DEF Roles, Closers
<1>4. CASE \/ Upgrade(t) \/ DialFails(t) \/ DialUDP(t) \/ CountTunnel(t)
           \/ HandlerReturns(t)
    BY <1>1, <1>2, <1>3, <1>4
    DEF Upgrade, DialFails, DialUDP, CountTunnel, HandlerReturns, Aware, Lifecycle,
        Started, Early, closeVars
<1>5. CASE StartTunnel(t)
  <2>1. \A r \in Roles : pc'[t][r] \in {"check", "read", "select"}
      BY <1>5 DEF StartTunnel, Roles, Closers
  <2>2. UNCHANGED <<done, wsOpen>> /\ handler[t] = "counted" /\ handler'[t] = "wait"
      BY <1>5 DEF StartTunnel
  <2>3. QED
      BY <1>1, <1>3, <2>1, <2>2 DEF Aware, Early
<1>6. ASSUME NEW r \in Closers, close(t, r) PROVE Aware(t)'
  <2>1. PICK from \in PCs, to \in PCs \ {"close"} : Move(t, r, from, to) /\ from # "off"
      BY <1>6 DEF close, EnterClose, CloseUDP, CloseWS, Decrement, Notify, PCs
  <2>2. /\ pc'[t][r] = to /\ \A s \in Roles \ {r} : pc'[t][s] = pc[t][s]
        /\ pc[t][r] = from /\ handler' = handler
      BY <1>3, <2>1, MovePoints
  <2>3. Started(t)' <=> Started(t)
      BY <1>3, <2>2 DEF Started
  <2>4. Started(t) /\ ~Early(t)
      BY <1>2, <1>3, <2>1, <2>2 DEF Lifecycle
  <2>5. CASE EnterClose(t, r) /\ once[t] = "fresh"
    <3>1. /\ done'[t] /\ once'[t] = "running" /\ wsOpen' = wsOpen
          /\ pc[t][r] = "close"
        BY <2>5 DEF EnterClose, Move
    <3>2. Reason(t)' /\ wsOpen[t]
        BY <1>1, <2>4, <2>5, <3>1 DEF Aware
    <3>3. QED
        BY <1>1, <1>3, <2>2, <2>3, <2>4, <3>1, <3>2 DEF Aware, Early
  <2>6. CASE EnterClose(t, r) /\ once[t] # "fresh"
    <3>1. pc'[t][r] = "exit" /\ UNCHANGED <<once, done, wsOpen>>
        BY <1>3, <2>6 DEF EnterClose, Move
    <3>2. QED
        BY <1>1, <1>3, <2>2, <2>3, <2>4, <3>1 DEF Aware, Early
  <2>7. CASE CloseUDP(t, r)
    <3>1. /\ pc[t][r] = "closeUDP" /\ pc'[t][r] = "closeWS"
          /\ UNCHANGED <<once, done, wsOpen>>
        BY <1>3, <2>7 DEF CloseUDP, Move
    <3>2. QED
        BY <1>1, <1>3, <2>2, <2>3, <2>4, <3>1 DEF Aware, Early
  <2>8. CASE CloseWS(t, r)
    <3>1. /\ pc[t][r] = "closeWS" /\ pc'[t][r] = "decrement"
          /\ UNCHANGED <<once, done>> /\ wsOpen'[t] = FALSE
        BY <1>3, <2>8 DEF CloseWS, Move
    <3>2. once[t] = "running" /\ \A s \in Closers : s # r => pc[t][s] \notin Body
        BY <1>2, <3>1 DEF OneInside, Body
    <3>3. QED
        BY <1>1, <1>3, <2>2, <2>3, <2>4, <3>1, <3>2 DEF Aware, Early, Body
  <2>9. CASE Decrement(t, r) \/ Notify(t, r)
    <3>1. /\ pc'[t][r] \in {"notify", "exit"} /\ UNCHANGED <<done, wsOpen>>
          /\ once'[t] = "fresh" => once[t] = "fresh"
        BY <1>3, <2>9 DEF Decrement, Notify, Move
    <3>2. QED
        BY <1>1, <1>3, <2>2, <2>3, <2>4, <3>1 DEF Aware, Early
  <2>10. QED
      BY <1>6, <2>5, <2>6, <2>7, <2>8, <2>9 DEF close
<1>7. CASE Environment
  <2>1. UNCHANGED <<handler, pc, closeVars>>
      BY <1>7 DEF Environment, ClientSends, ClientControl, WGSends, WireBreaks, MaxAge
  <2>2. QED
      BY <1>1, <2>1 DEF Aware, Started, Early, closeVars
<1>8. QED
    BY <1>4, <1>5, <1>6, <1>7 DEF handleTunnel

(* A tunnel that a step leaves alone.                                      *)
LEMMA AloneAware ==
  ASSUME NEW t \in Tunnels, NEW u \in Tunnels \ {t}, Only(t), Aware(u) PROVE Aware(u)'
BY DEF Only, Aware, Started, Early, Reason

(* Every step keeps every tunnel aware.                                    *)
LEMMA NextAware ==
  ASSUME Inv, Inv', DataTypes, \A t \in Tunnels : Aware(t), [Next]_vars
  PROVE  \A t \in Tunnels : Aware(t)'
<1>1. CASE UNCHANGED vars
    BY <1>1 DEF vars, closeVars, envVars, Aware, Started, Early, Reason
<1>2. CASE Restart
    BY <1>2 DEF Restart, closeVars, envVars, Aware, Started, Early, Reason
<1>3. CASE Panic
  <2>1. \A t \in Tunnels :
          /\ pc'[t]["statsLoop"] = "off" /\ \A r \in Closers : pc'[t][r] = "off"
          /\ ~wsOpen'[t] /\ handler'[t] \in {"idle", "returned"}
          /\ done'[t] = done[t]
      BY <1>3 DEF Panic, Roles, Closers
  <2>2. QED
      BY <2>1, ReasonStays DEF Aware, Started, Early
<1>4. ASSUME NEW t \in Tunnels, Acts(t) PROVE \A u \in Tunnels : Aware(u)'
  <2>1. Only(t)
      BY <1>4, ActsAlone DEF Inv
  <2>2. CASE pingLoop(t) \/ wsToUDP(t) \/ udpToWS(t) \/ StatsDone(t)
    <3>1. Aware(t)'
        BY <2>2, GoroutineAware
    <3>2. QED
        BY <2>1, <3>1, AloneAware
  <2>3. CASE handleTunnel(t) \/ (\E r \in Closers : close(t, r)) \/ Environment
    <3>1. Aware(t)'
        BY <2>3, OthersAware
    <3>2. QED
        BY <2>1, <3>1, AloneAware
  <2>4. QED
      BY <1>4, <2>2, <2>3 DEF Acts, Environment
<1>5. QED
    BY <1>1, <1>2, <1>3, <1>4 DEF Next, Server, Environment, Acts

(* A healthy tunnel stays up: close() (server/main.go:183) is only run     *)
(* after the wire broke, the UDP socket failed, or -max-age, for any       *)
(* number of tunnels and whichever goroutine comes first.                  *)
THEOREM ClosingHasAReason == Spec => []ClosedForAReason
<1> DEFINE AllAware == \A t \in Tunnels : Aware(t)
<1>1. Init => DataTypes /\ AllAware
    BY DEF Init, DataTypes, None, Aware, Started, Early, Roles, Closers
<1>2. AllAware => ClosedForAReason
    BY DEF Aware, Reason, ClosedForAReason
<1>3. Inv /\ Inv' /\ DataTypes /\ AllAware /\ [Next]_vars => AllAware'
    BY NextAware
<1>4. QED
  <2> HIDE DEF AllAware
  <2> QED
      BY <1>1, <1>2, <1>3, InitInv, NextInv, NextDataTypes, PTL DEF Spec

-----------------------------------------------------------------------------
(* Datagrams keep their order *)

(* q carries the datagrams a + 1 .. b in order, among control frames.      *)
InOrder(q, a, b) ==
  /\ a <= b
  /\ \A i \in 1..Len(q) : q[i] # Control => q[i] \in a + 1..b
  /\ \A i, j \in 1..Len(q) :
       i < j /\ q[i] # Control /\ q[j] # Control => q[i] < q[j]
  /\ \A n \in a + 1..b : \E i \in 1..Len(q) : q[i] = n

(* The element at the front, and what is behind it.                        *)
LEMMA Front ==
  ASSUME NEW q \in Seq(Nat), q # <<>>
  PROVE  /\ Len(q) \in Nat /\ Len(q) >= 1 /\ Head(q) = q[1]
         /\ Tail(q) \in Seq(Nat) /\ Len(Tail(q)) = Len(q) - 1
         /\ \A i \in 1..Len(q) - 1 : Tail(q)[i] = q[i + 1]
OBVIOUS

(* A datagram that is taken is the next one in turn.                       *)
LEMMA TakeInOrder ==
  ASSUME NEW q \in Seq(Nat), q # <<>>, NEW a \in Nat, NEW b \in Nat, InOrder(q, a, b)
  PROVE  /\ Head(q) = Control => InOrder(Tail(q), a, b)
         /\ Head(q) # Control =>
              Head(q) = a + 1 /\ a < b /\ InOrder(Tail(q), a + 1, b)
<1> USE DEF Control
<1>f. /\ Len(q) \in Nat /\ Len(q) >= 1 /\ Head(q) = q[1]
      /\ Len(Tail(q)) = Len(q) - 1
      /\ \A i \in 1..Len(q) - 1 : Tail(q)[i] = q[i + 1]
    BY Front
<1>1. ASSUME NEW i \in 1..Len(Tail(q))
      PROVE  i + 1 \in 1..Len(q) /\ i + 1 # 1 /\ Tail(q)[i] = q[i + 1]
    BY <1>f
<1>2. ASSUME NEW i \in 1..Len(q), i # 1
      PROVE  i - 1 \in 1..Len(Tail(q)) /\ Tail(q)[i - 1] = q[i]
  <2>1. i - 1 \in 1..Len(q) - 1 /\ (i - 1) + 1 = i
      BY <1>2, <1>f
  <2>2. QED
      BY <1>f, <2>1
<1>3. \A i \in 1..Len(q) : q[i] \in Nat
    BY <1>f
<1>4. ASSUME Head(q) = Control PROVE InOrder(Tail(q), a, b)
  <2>1. \A i \in 1..Len(Tail(q)) : Tail(q)[i] # Control => Tail(q)[i] \in a + 1..b
      BY <1>1 DEF InOrder
  <2>2. \A i, j \in 1..Len(Tail(q)) :
          i < j /\ Tail(q)[i] # Control /\ Tail(q)[j] # Control => Tail(q)[i] < Tail(q)[j]
      BY <1>1 DEF InOrder
  <2>3. ASSUME NEW n \in a + 1..b PROVE \E i \in 1..Len(Tail(q)) : Tail(q)[i] = n
    <3>1. PICK i \in 1..Len(q) : q[i] = n
        BY DEF InOrder
    <3>2. i # 1
        BY <1>4, <1>f, <3>1
    <3>3. QED
        BY <1>2, <3>1, <3>2
  <2>4. QED
      BY <2>1, <2>2, <2>3 DEF InOrder
<1>5. ASSUME Head(q) # Control
      PROVE  Head(q) = a + 1 /\ a < b /\ InOrder(Tail(q), a + 1, b)
  <2>1. q[1] \in a + 1..b /\ a < b
      BY <1>5, <1>f DEF InOrder
  <2>2. PICK k \in 1..Len(q) : q[k] = a + 1
    <3>1. \A n \in a + 1..b : \E i \in 1..Len(q) : q[i] = n
        BY DEF InOrder
    <3>2. a + 1 \in a + 1..b
        BY <2>1
    <3>3. QED
        BY <3>1, <3>2, Zenon
  <2>3. q[1] = a + 1
    <3>1. 1 \in 1..Len(q) /\ q[1] # Control /\ q[k] # Control
        BY <1>5, <1>f, <2>2
    <3>2. 1 < k => q[1] < q[k]
        BY <3>1 DEF InOrder
    <3>3. QED
        BY <2>1, <2>2, <3>2
  <2>4. ASSUME NEW i \in 1..Len(Tail(q)), Tail(q)[i] # Control
        PROVE  Tail(q)[i] \in a + 2..b
    <3>1. q[i + 1] # Control /\ q[1] # Control /\ 1 < i + 1 /\ 1 \in 1..Len(q)
        BY <1>1, <1>5, <1>f, <2>4
    <3>2. q[i + 1] > a + 1 /\ q[i + 1] \in a + 1..b
        BY <1>1, <2>3, <3>1 DEF InOrder
    <3>3. QED
        BY <1>1, <3>2
  <2>5. \A i, j \in 1..Len(Tail(q)) :
          i < j /\ Tail(q)[i] # Control /\ Tail(q)[j] # Control => Tail(q)[i] < Tail(q)[j]
    <3>1. \A i, j \in 1..Len(q) :
            i < j /\ q[i] # Control /\ q[j] # Control => q[i] < q[j]
        BY DEF InOrder
    <3>2. QED
        BY <1>1, <3>1
  <2>6. ASSUME NEW n \in a + 2..b PROVE \E i \in 1..Len(Tail(q)) : Tail(q)[i] = n
    <3>1. PICK i \in 1..Len(q) : q[i] = n
        BY DEF InOrder
    <3>2. i # 1
        BY <2>3, <3>1
    <3>3. QED
        BY <1>2, <3>1, <3>2
  <2>7. (a + 1) + 1 = a + 2
      OBVIOUS
  <2>8. QED
      BY <1>f, <2>1, <2>3, <2>4, <2>5, <2>6, <2>7 DEF InOrder
<1>6. QED
    BY <1>4, <1>5

(* A frame that is added comes last.                                       *)
LEMMA AddInOrder ==
  ASSUME NEW q \in Seq(Nat), NEW a \in Nat, NEW b \in Nat, InOrder(q, a, b)
  PROVE  InOrder(Append(q, Control), a, b) /\ InOrder(Append(q, b + 1), a, b + 1)
<1> USE DEF Control
<1>1. ASSUME NEW x \in Nat
      PROVE  /\ Len(Append(q, x)) = Len(q) + 1 /\ Append(q, x)[Len(q) + 1] = x
             /\ \A i \in 1..Len(q) : Append(q, x)[i] = q[i] /\ i \in 1..Len(q) + 1
    OBVIOUS
<1>2. \A i \in 1..Len(q) + 1 : i \in 1..Len(q) \/ i = Len(q) + 1
    OBVIOUS
<1>3. InOrder(Append(q, Control), a, b)
    BY <1>1, <1>2 DEF InOrder
<1>4. InOrder(Append(q, b + 1), a, b + 1)
  <2> DEFINE e == Append(q, b + 1)
  <2>1. \A i \in 1..Len(e) : e[i] # Control => e[i] \in a + 1..b + 1
      BY <1>1, <1>2 DEF InOrder
  <2>2. \A i, j \in 1..Len(e) : i < j /\ e[i] # Control /\ e[j] # Control => e[i] < e[j]
      BY <1>1, <1>2 DEF InOrder
  <2>3. ASSUME NEW n \in a + 1..b + 1 PROVE \E i \in 1..Len(e) : e[i] = n
    <3>1. CASE n = b + 1
        BY <1>1, <3>1
    <3>2. CASE n # b + 1
      <4>1. PICK i \in 1..Len(q) : q[i] = n
          BY <3>2 DEF InOrder
      <4>2. QED
          BY <1>1, <4>1
    <3>3. QED
        BY <3>1, <3>2
  <2>4. a <= b + 1
      BY DEF InOrder
  <2>5. QED
      BY <2>1, <2>2, <2>3, <2>4 DEF InOrder
<1>5. QED
    BY <1>3, <1>4

(* q carries the datagrams from a + 1 on.                                  *)
From(q, a) == \A i \in 1..Len(q) : q[i] = a + i

(* Taking the first and adding one at the end.                             *)
LEMMA FromSteps ==
  ASSUME NEW q \in Seq(Nat), NEW a \in Nat, From(q, a)
  PROVE  /\ q # <<>> => /\ Head(q) = a + 1 /\ From(Tail(q), a + 1)
                        /\ Len(Tail(q)) = Len(q) - 1
         /\ From(Append(q, a + Len(q) + 1), a)
         /\ \A n : Len(Append(q, n)) = Len(q) + 1
<1>1. ASSUME q # <<>> PROVE Head(q) = a + 1 /\ From(Tail(q), a + 1)
    BY <1>1, Front DEF From
<1>2. From(Append(q, a + Len(q) + 1), a)
    BY DEF From
<1>3. QED
    BY <1>1, <1>2

-----------------------------------------------------------------------------
(* What is in transit *)

(* While wsToUDP reads, the client's frames continue what WireGuard got.   *)
Upward(t) == Early(t) \/ pc[t]["wsToUDP"] = "read" =>
                InOrder(c2s[t], Len(toWG[t]), sent[t])

(* How many datagrams udpToWS has taken off the UDP socket.                *)
Taken(t) == Len(toWS[t]) + IF pc[t]["udpToWS"] = "write" THEN 1 ELSE 0

(* Until udpToWS runs the socket queues what arrives; while it runs, the   *)
(* queue continues what it has taken.                                      *)
Downward(t) ==
  /\ handler[t] = "idle" => wgSent[t] = 0
  /\ Early(t) => toWS[t] = <<>> /\ From(fromWG[t], 0) /\ Len(fromWG[t]) = wgSent[t]
  /\ pc[t]["udpToWS"] \in {"check", "read", "write"} =>
       /\ From(fromWG[t], Taken(t))
       /\ Taken(t) + Len(fromWG[t]) <= wgSent[t]
       /\ udpOpen[t] => Taken(t) + Len(fromWG[t]) = wgSent[t]
       /\ pc[t]["udpToWS"] = "write" => buf[t] = Len(toWS[t]) + 1

InTransit == \A t \in Tunnels : Upward(t) /\ Downward(t)

(* Nothing happens to the frames of a goroutine that does not start to     *)
(* read.                                                                   *)
LEMMA StillTransit ==
  ASSUME NEW t \in Tunnels, Upward(t), Downward(t),
         Early(t)' => Early(t), handler'[t] = "idle" => handler[t] = "idle",
         pc'[t]["wsToUDP"] = "read" => pc[t]["wsToUDP"] = "read",
         pc'[t]["udpToWS"] \in {"check", "read", "write"} =>
           /\ pc[t]["udpToWS"] \in {"check", "read", "write"}
           /\ pc'[t]["udpToWS"] = "write" <=> pc[t]["udpToWS"] = "write",
         udpOpen'[t] = udpOpen[t],
         c2s'[t] = c2s[t], sent'[t] = sent[t], toWG'[t] = toWG[t],
         fromWG'[t] = fromWG[t], wgSent'[t] = wgSent[t], toWS'[t] = toWS[t],
         buf'[t] = buf[t] \/ pc'[t]["udpToWS"] # "write"
  PROVE  Upward(t)' /\ Downward(t)'
BY DEF Upward, Downward, Early, Taken, From

(* Goroutine r moves on without a datagram, or stops.                      *)
Harmless(r, from, to) ==
  \/ to \notin {"check", "read", "write"} \/ r \in {"pingLoop", "statsLoop"}
  \/ r = "udpToWS" /\ {from, to} \subseteq {"check", "read"}

(* So it is when a goroutine moves on like that.                           *)
LEMMA MoveTransit ==
  ASSUME Types, NEW t \in Tunnels, Upward(t), Downward(t), NEW r \in Roles,
         NEW from \in PCs, NEW to \in PCs, Move(t, r, from, to), Harmless(r, from, to),
         udpOpen' = udpOpen, UNCHANGED <<upData, fromWG, wgSent, toWS>>,
         buf' = buf \/ (r = "udpToWS" /\ to # "write")
  PROVE  Upward(t)' /\ Downward(t)'
<1>1. /\ pc'[t][r] = to /\ pc[t][r] = from /\ handler' = handler
      /\ \A s \in Roles \ {r} : pc'[t][s] = pc[t][s]
    BY MovePoints
<1>2. {"wsToUDP", "udpToWS"} \subseteq Roles
    BY DEF Roles, Closers
<1>3. pc'[t]["wsToUDP"] = "read" => pc[t]["wsToUDP"] = "read"
    BY <1>1, <1>2 DEF Harmless
<1>4. pc'[t]["udpToWS"] \in {"check", "read", "write"} =>
        /\ pc[t]["udpToWS"] \in {"check", "read", "write"}
        /\ pc'[t]["udpToWS"] = "write" <=> pc[t]["udpToWS"] = "write"
    BY <1>1, <1>2 DEF Harmless
<1>5. buf'[t] = buf[t] \/ pc'[t]["udpToWS"] # "write"
    BY <1>1
<1>6. QED
    BY <1>1, <1>3, <1>4, <1>5, StillTransit DEF Early, upData

(* The goroutines that move no datagram, and the handler.                  *)
LEMMA OtherTransit ==
  ASSUME Inv, NEW t \in Tunnels, Upward(t), Downward(t),
         \/ Upgrade(t) \/ DialFails(t) \/ DialUDP(t) \/ CountTunnel(t)
         \/ HandlerReturns(t) \/ pingLoop(t)
         \/ StatsDone(t) \/ ReadFails(t) \/ CheckDone(t) \/ UDPTimeout(t)
         \/ UDPReadFails(t) \/ WSWriteFails(t) \/ WireBreaks(t) \/ MaxAge(t)
         \/ \E r \in Closers : EnterClose(t, r) \/ CloseWS(t, r) \/ Decrement(t, r)
                               \/ Notify(t, r)
  PROVE  Upward(t)' /\ Downward(t)'
<1> USE DEF Inv, envVars, dataVars, upData, downData, closeVars, Go
<1>r. Roles = {"pingLoop", "wsToUDP", "udpToWS", "statsLoop"} /\ Closers \subseteq Roles
    BY DEF Roles, Closers
<1>p. {"check", "read", "write", "select", "close", "exit", "closeUDP", "closeWS",
       "decrement", "notify"} \subseteq PCs
    BY DEF PCs
<1>1. CASE Upgrade(t) \/ DialFails(t) \/ CountTunnel(t) \/ HandlerReturns(t)
    BY <1>1, StillTransit
    DEF Types, Upgrade, DialFails, CountTunnel, HandlerReturns, Early
<1>d. CASE DialUDP(t)
  <2>1. /\ UNCHANGED <<pc, dataVars>> /\ handler[t] = "upgraded"
        /\ handler'[t] = "dialed"
      BY <1>d DEF DialUDP, Types
  <2>2. Early(t) /\ Early(t)' /\ pc[t]["udpToWS"] = "off"
      BY <1>r, <2>1 DEF Early, CloseInv, Lifecycle
  <2>3. QED
      BY <2>1, <2>2 DEF Upward, Downward
<1>2. CASE pingLoop(t) \/ StatsDone(t)
  <2> USE <1>r, <1>p, MoveTransit DEF Harmless
  <2>1. CASE PingTick(t) \/ PingWritten(t)
      BY <2>1 DEF PingTick, PingWritten
  <2>2. CASE PingFails(t) \/ PingDone(t)
      BY <2>2 DEF PingFails, PingDone
  <2>3. CASE StatsDone(t)
      BY <2>3 DEF StatsDone
  <2>4. QED
      BY <1>2, <2>1, <2>2, <2>3 DEF pingLoop
<1>3. CASE ReadFails(t)
    BY <1>r, <1>p, <1>3, MoveTransit DEF ReadFails, Harmless
<1>4. CASE CheckDone(t) \/ UDPTimeout(t)
  <2>1. PICK from \in {"check", "read"}, to \in {"check", "read", "close"} :
               Move(t, "udpToWS", from, to)
      BY <1>4 DEF CheckDone, UDPTimeout
  <2>2. UNCHANGED <<udpOpen, dataVars>>
      BY <1>4 DEF CheckDone, UDPTimeout
  <2>3. QED
      BY <1>r, <1>p, <2>1, <2>2, MoveTransit DEF Harmless
<1>5. CASE UDPReadFails(t) \/ WSWriteFails(t)
  <2>1. PICK from \in {"read", "write"} : Move(t, "udpToWS", from, "close")
      BY <1>5 DEF UDPReadFails, WSWriteFails
  <2>2. udpOpen' = udpOpen /\ UNCHANGED <<upData, fromWG, wgSent, toWS>>
      BY <1>5 DEF UDPReadFails, WSWriteFails
  <2>3. from \in PCs /\ "close" \in PCs /\ "udpToWS" \in Roles
      BY <1>r, <1>p
  <2>4. QED
      BY <2>1, <2>2, <2>3, MoveTransit DEF Harmless
<1>6. CASE WireBreaks(t) \/ MaxAge(t)
    BY <1>6, StillTransit DEF WireBreaks, MaxAge, Early
<1>7. ASSUME NEW r \in Closers,
             EnterClose(t, r) \/ CloseWS(t, r) \/ Decrement(t, r) \/ Notify(t, r)
      PROVE  Upward(t)' /\ Downward(t)'
  <2>1. PICK from \in PCs, to \in {"closeUDP", "exit", "decrement", "notify"} :
               Move(t, r, from, to)
      BY <1>7, <1>p DEF EnterClose, CloseWS, Decrement, Notify
  <2>2. UNCHANGED <<udpOpen, dataVars>>
      BY <1>7 DEF EnterClose, CloseWS, Decrement, Notify
  <2>3. QED
      BY <1>r, <1>p, <2>1, <2>2, MoveTransit DEF Harmless
<1>8. QED
    BY <1>1, <1>d, <1>2, <1>3, <1>4, <1>5, <1>6, <1>7

(* Going up: frames are sent, taken, and written to WireGuard.             *)
LEMMA UpTransit ==
  ASSUME Inv, DataTypes, DataTypes', NEW t \in Tunnels, Upward(t), Downward(t),
         ClientSends(t) \/ ClientControl(t) \/ Forward(t) \/ SkipControl(t)
  PROVE  /\ Upward(t)' /\ Downward(t)'
         /\ toWG' # toWG =>
              /\ udpOpen[t] /\ Len(toWG[t]) < sent[t]
              /\ toWG' = [toWG EXCEPT ![t] = Append(@, Len(@) + 1)]
<1> USE DEF DataTypes, Control
<1>1. /\ c2s[t] \in Seq(Nat) /\ sent[t] \in Nat /\ Len(toWG[t]) \in Nat
      /\ toWG[t] \in Seq(Nat)
    OBVIOUS
<1>2. {"wsToUDP", "udpToWS"} \subseteq Roles /\ {"read", "close"} \subseteq PCs
    BY DEF Roles, Closers, PCs
<1>3. ASSUME UNCHANGED <<handler, udpOpen, fromWG, buf, wgSent, toWS>>,
             pc'[t]["udpToWS"] = pc[t]["udpToWS"]
      PROVE  Downward(t)'
    BY <1>3 DEF Downward, Early, Taken
<1>4. CASE ClientSends(t) \/ ClientControl(t)
  <2>1. UNCHANGED <<handler, pc, udpOpen, toWG, fromWG, buf, wgSent, toWS>>
      BY <1>4 DEF ClientSends, ClientControl, downData, closeVars
  <2>2. \/ c2s'[t] = Append(c2s[t], sent[t] + 1) /\ sent'[t] = sent[t] + 1
        \/ c2s'[t] = Append(c2s[t], Control) /\ sent'[t] = sent[t]
      BY <1>4 DEF ClientSends, ClientControl
  <2>3. Upward(t)'
      BY <1>1, <2>1, <2>2, AddInOrder DEF Upward, Early
  <2>4. QED
      BY <1>3, <2>1, <2>3
<1>5. CASE SkipControl(t)
  <2>1. /\ Move(t, "wsToUDP", "read", "read") /\ c2s[t] # <<>> /\ Head(c2s[t]) = Control
        /\ UNCHANGED <<udpOpen, sent, toWG, fromWG, buf, wgSent, toWS>>
        /\ c2s' = [c2s EXCEPT ![t] = Tail(@)]
      BY <1>5 DEF SkipControl, downData, closeVars
  <2>2. /\ handler' = handler /\ pc[t]["wsToUDP"] = "read"
        /\ pc'[t]["udpToWS"] = pc[t]["udpToWS"]
      BY <1>2, <2>1, MovePoints DEF Inv
  <2>3. Upward(t)'
      BY <1>1, <2>1, <2>2, TakeInOrder DEF Upward
  <2>4. QED
      BY <1>3, <2>1, <2>2, <2>3
<1>6. CASE Forward(t)
  <2>1. /\ c2s[t] # <<>> /\ Head(c2s[t]) # Control
        /\ UNCHANGED <<udpOpen, sent, fromWG, buf, wgSent, toWS>>
        /\ c2s' = [c2s EXCEPT ![t] = Tail(@)]
      BY <1>6 DEF Forward, downData, closeVars
  <2>2. PICK to \in {"read", "close"} : Move(t, "wsToUDP", "read", to)
      BY <1>6 DEF Forward
  <2>3. /\ handler' = handler /\ pc[t]["wsToUDP"] = "read" /\ pc'[t]["wsToUDP"] = to
        /\ pc'[t]["udpToWS"] = pc[t]["udpToWS"]
      BY <1>2, <2>2, MovePoints DEF Inv
  <2>4. /\ Head(c2s[t]) = Len(toWG[t]) + 1 /\ Len(toWG[t]) < sent[t]
        /\ InOrder(Tail(c2s[t]), Len(toWG[t]) + 1, sent[t])
      BY <1>1, <2>1, <2>3, TakeInOrder DEF Upward
  <2>5. Downward(t)'
      BY <1>3, <2>1, <2>3
  <2>6. CASE /\ udpOpen[t] /\ toWG' = [toWG EXCEPT ![t] = Append(@, Head(c2s[t]))]
    <3>1. Len(toWG'[t]) = Len(toWG[t]) + 1
        BY <1>1, <2>6
    <3>2. Upward(t)'
        BY <2>1, <2>4, <3>1 DEF Upward
    <3>3. QED
        BY <2>4, <2>5, <2>6, <3>2
  <2>7. CASE Move(t, "wsToUDP", "read", "close") /\ UNCHANGED toWG
    <3>1. pc'[t]["wsToUDP"] = "close"
        BY <1>2, <2>7, MovePoints DEF Inv
    <3>2. ~Early(t)
        BY <1>2, <2>3 DEF Inv, CloseInv, Lifecycle, Early
    <3>3. Upward(t)'
        BY <2>3, <3>1, <3>2 DEF Upward, Early
    <3>4. QED
        BY <2>5, <2>7, <3>3
  <2>8. QED
      BY <1>6, <2>6, <2>7 DEF Forward
<1>7. QED
    BY <1>4, <1>5, <1>6

(* Going down: datagrams arrive, are taken, and are written to the client; *)
(* close() drops what the UDP socket still holds.                          *)
LEMMA DownTransit ==
  ASSUME Inv, DataTypes, DataTypes', NEW t \in Tunnels, Upward(t), Downward(t),
         \/ WGSends(t) \/ UDPRead(t) \/ WSWritten(t)
         \/ \E r \in Closers : CloseUDP(t, r)
  PROVE  /\ Upward(t)' /\ Downward(t)'
         /\ toWS' # toWS =>
              /\ wsOpen[t] /\ ~Early(t) /\ Len(toWS[t]) < wgSent[t]
              /\ \E f \in {Len(toWS[t]) + 1} \union
                           (IF clash[t] = "now" THEN {Damaged} ELSE {}) :
                   toWS' = [toWS EXCEPT ![t] = Append(@, f)]
<1> USE DEF DataTypes
<1>1. /\ fromWG[t] \in Seq(Nat) /\ wgSent[t] \in Nat /\ Len(toWS[t]) \in Nat
      /\ toWS[t] \in Seq(Nat) /\ Len(fromWG[t]) \in Nat
    OBVIOUS
<1>2. /\ {"wsToUDP", "udpToWS"} \subseteq Roles /\ Closers \subseteq Roles
      /\ {"check", "write", "closeWS"} \subseteq PCs
    BY DEF Roles, Closers, PCs
<1>3. Early(t) => pc[t]["udpToWS"] = "off"
    BY <1>2 DEF Inv, CloseInv, Lifecycle
<1>4. ASSUME UNCHANGED <<handler, c2s, sent, toWG>>,
             pc'[t]["wsToUDP"] = "read" => pc[t]["wsToUDP"] = "read"
      PROVE  Upward(t)'
    BY <1>4 DEF Upward, Early
<1>5. CASE WGSends(t)
  <2>1. UNCHANGED <<handler, pc, udpOpen, c2s, sent, toWG, buf, toWS>>
      BY <1>5 DEF WGSends, upData, closeVars
  <2>2. /\ udpOpen[t] /\ fromWG'[t] = Append(fromWG[t], wgSent[t] + 1)
        /\ wgSent'[t] = wgSent[t] + 1
      BY <1>5 DEF WGSends
  <2>3. Upward(t)'
      BY <1>4, <2>1
  <2>4. ASSUME Early(t)'
        PROVE  /\ toWS'[t] = <<>> /\ From(fromWG'[t], 0)
               /\ Len(fromWG'[t]) = wgSent'[t]
    <3>1. toWS[t] = <<>> /\ From(fromWG[t], 0) /\ Len(fromWG[t]) = wgSent[t]
        BY <2>1, <2>4 DEF Early, Downward
    <3>2. fromWG'[t] = Append(fromWG[t], 0 + Len(fromWG[t]) + 1)
      <4>1. Len(fromWG[t]) \in Nat
          BY <1>1
      <4>2. 0 + Len(fromWG[t]) + 1 = wgSent[t] + 1
          BY <3>1, <4>1
      <4>3. QED
          BY <2>2, <4>2
    <3>3. From(fromWG'[t], 0) /\ Len(fromWG'[t]) = Len(fromWG[t]) + 1
        BY <1>1, <3>1, <3>2, FromSteps
    <3>4. QED
        BY <2>1, <2>2, <3>1, <3>3
  <2>5. ASSUME pc[t]["udpToWS"] \in {"check", "read", "write"}
        PROVE  /\ From(fromWG'[t], Taken(t)) /\ Taken(t) \in Nat
               /\ Taken(t) + Len(fromWG'[t]) = wgSent'[t]
    <3>1. /\ From(fromWG[t], Taken(t)) /\ Taken(t) \in Nat
          /\ Taken(t) + Len(fromWG[t]) = wgSent[t]
        BY <1>1, <2>2, <2>5 DEF Downward, Taken
    <3>2. Len(fromWG'[t]) = Len(fromWG[t]) + 1
        BY <1>1, <2>2
    <3>3. fromWG'[t] = Append(fromWG[t], Taken(t) + Len(fromWG[t]) + 1)
        BY <2>2, <3>1
    <3>4. From(fromWG'[t], Taken(t))
        BY <1>1, <3>1, <3>3, FromSteps
    <3>5. QED
        BY <1>1, <2>2, <3>1, <3>2, <3>4
  <2>6. Taken(t)' = Taken(t)
      BY <2>1 DEF Taken
  <2>i. handler'[t] # "idle"
      BY <1>2, <2>1, <2>2 DEF Inv, CloseInv, Lifecycle, Released, Early
  <2>7. Downward(t)'
      BY <2>1, <2>i, <2>4, <2>5, <2>6 DEF Downward
  <2>8. QED
      BY <2>1, <2>3, <2>7
<1>6. CASE UDPRead(t)
  <2>1. /\ Move(t, "udpToWS", "read", "write") /\ fromWG[t] # <<>>
        /\ UNCHANGED <<udpOpen, c2s, sent, toWG, wgSent, toWS>>
        /\ buf'[t] = Head(fromWG[t]) /\ fromWG'[t] = Tail(fromWG[t])
      BY <1>6 DEF UDPRead, upData, closeVars
  <2>2. /\ handler' = handler /\ pc[t]["udpToWS"] = "read"
        /\ pc'[t]["udpToWS"] = "write" /\ pc'[t]["wsToUDP"] = pc[t]["wsToUDP"]
      BY <1>2, <2>1, MovePoints DEF Inv
  <2>3. Upward(t)'
      BY <1>4, <2>1, <2>2
  <2>4. ~Early(t)'
      BY <1>3, <2>2 DEF Early
  <2>5. Taken(t) = Len(toWS[t]) /\ Taken(t)' = Len(toWS[t]) + 1
      BY <1>1, <2>1, <2>2 DEF Taken
  <2>6. /\ Head(fromWG[t]) = Len(toWS[t]) + 1
        /\ From(fromWG'[t], Len(toWS[t]) + 1) /\ Len(fromWG'[t]) = Len(fromWG[t]) - 1
    <3>1. From(fromWG[t], Len(toWS[t]))
        BY <2>2, <2>5 DEF Downward
    <3>2. QED
        BY <1>1, <2>1, <3>1, FromSteps
  <2>7. /\ Len(toWS[t]) + Len(fromWG[t]) <= wgSent[t]
        /\ udpOpen[t] => Len(toWS[t]) + Len(fromWG[t]) = wgSent[t]
      BY <2>2, <2>5 DEF Downward
  <2>8. (Len(toWS[t]) + 1) + (Len(fromWG[t]) - 1) = Len(toWS[t]) + Len(fromWG[t])
      BY <1>1
  <2>9. Downward(t)'
      BY <2>1, <2>2, <2>4, <2>5, <2>6, <2>7, <2>8 DEF Downward
  <2>10. QED
      BY <2>1, <2>3, <2>9
<1>7. CASE WSWritten(t)
  <2>1. /\ Move(t, "udpToWS", "write", "check") /\ wsOpen[t]
        /\ UNCHANGED <<udpOpen, c2s, sent, toWG, fromWG, wgSent>>
      BY <1>7 DEF WSWritten, upData, closeVars
  <2>f. PICK f \in {buf[t]} \union (IF clash[t] = "now" THEN {Damaged} ELSE {}) :
          toWS' = [toWS EXCEPT ![t] = Append(@, f)]
      BY <1>7 DEF WSWritten
  <2>2. /\ handler' = handler /\ pc[t]["udpToWS"] = "write"
        /\ pc'[t]["udpToWS"] = "check" /\ pc'[t]["wsToUDP"] = pc[t]["wsToUDP"]
      BY <1>2, <2>1, MovePoints DEF Inv
  <2>3. Upward(t)'
      BY <1>4, <2>1, <2>2
  <2>4. ~Early(t) /\ ~Early(t)'
      BY <1>3, <2>2 DEF Early
  <2>5. buf[t] = Len(toWS[t]) + 1 /\ Taken(t) = Len(toWS[t]) + 1
      BY <2>2 DEF Downward, Taken
  <2>6. Len(toWS'[t]) = Len(toWS[t]) + 1
    <3>1. toWS'[t] = Append(toWS[t], f)
        BY <2>f
    <3>2. QED
        BY <1>1, <3>1, FromSteps DEF From
  <2>7. Taken(t)' = Taken(t)
      BY <1>1, <2>2, <2>5, <2>6 DEF Taken
  <2>8. Downward(t)'
      BY <2>1, <2>2, <2>4, <2>7 DEF Downward
  <2>9. Len(toWS[t]) < wgSent[t]
      BY <1>1, <2>2, <2>5 DEF Downward
  <2>10. QED
      BY <2>1, <2>f, <2>3, <2>4, <2>5, <2>8, <2>9
<1>8. ASSUME NEW r \in Closers, CloseUDP(t, r)
      PROVE  Upward(t)' /\ Downward(t)' /\ toWS' = toWS
  <2>1. /\ Move(t, r, "closeUDP", "closeWS") /\ ~udpOpen'[t] /\ fromWG'[t] = <<>>
        /\ UNCHANGED <<c2s, sent, toWG, buf, wgSent, toWS>>
      BY <1>8 DEF CloseUDP, upData, Inv, Types
  <2>2. /\ handler' = handler /\ pc[t][r] = "closeUDP" /\ pc'[t][r] = "closeWS"
        /\ \A s \in Roles \ {r} : pc'[t][s] = pc[t][s]
      BY <1>2, <2>1, MovePoints DEF Inv
  <2>3. /\ pc'[t]["wsToUDP"] = "read" => pc[t]["wsToUDP"] = "read"
        /\ pc'[t]["udpToWS"] \in {"check", "read", "write"} =>
              pc'[t]["udpToWS"] = pc[t]["udpToWS"]
      BY <1>2, <2>2
  <2>4. ~Early(t)'
      BY <1>2, <2>2 DEF Inv, CloseInv, Lifecycle, Early
  <2>5. Upward(t)'
      BY <1>4, <2>1, <2>2, <2>3
  <2>6. ASSUME pc'[t]["udpToWS"] \in {"check", "read", "write"}
        PROVE  /\ Taken(t)' = Taken(t) /\ Taken(t) \in Nat /\ Taken(t) <= wgSent[t]
               /\ pc[t]["udpToWS"] = "write" => buf[t] = Len(toWS[t]) + 1
    <3>1. Taken(t)' = Taken(t) /\ Taken(t) \in Nat
        BY <1>1, <2>1, <2>3, <2>6 DEF Taken
    <3>2. /\ Taken(t) + Len(fromWG[t]) <= wgSent[t]
          /\ pc[t]["udpToWS"] = "write" => buf[t] = Len(toWS[t]) + 1
        BY <2>3, <2>6 DEF Downward
    <3>3. QED
        BY <1>1, <3>1, <3>2
  <2>7. Len(fromWG'[t]) = 0 /\ \A a : From(fromWG'[t], a)
      BY <2>1 DEF From
  <2>8. ASSUME pc'[t]["udpToWS"] \in {"check", "read", "write"}
        PROVE  /\ From(fromWG'[t], Taken(t)') /\ Taken(t)' + Len(fromWG'[t]) <= wgSent'[t]
               /\ pc'[t]["udpToWS"] = "write" => buf'[t] = Len(toWS'[t]) + 1
    <3>1. Taken(t)' + Len(fromWG'[t]) = Taken(t)
        BY <2>6, <2>7, <2>8
    <3>2. QED
        BY <2>1, <2>3, <2>6, <2>7, <2>8, <3>1
  <2>9. Downward(t)'
      BY <2>1, <2>4, <2>8 DEF Downward, Early
  <2>10. QED
      BY <2>1, <2>5, <2>9
<1>9. QED
    BY <1>5, <1>6, <1>7, <1>8

(* A new tunnel starts with what both sides have sent already.             *)
LEMMA StartTransit ==
  ASSUME Inv, DataTypes, NEW t \in Tunnels, Upward(t), Downward(t), StartTunnel(t)
  PROVE  Upward(t)' /\ Downward(t)'
<1>1. /\ UNCHANGED <<c2s, sent, toWG, fromWG, wgSent, toWS>>
      /\ handler[t] = "counted" /\ handler'[t] = "wait"
      /\ pc'[t]["udpToWS"] = "check"
    BY DEF StartTunnel, dataVars, upData, downData, Inv, Types, Roles, Closers
<1>2. InOrder(c2s[t], Len(toWG[t]), sent[t])
    BY <1>1 DEF Upward, Early
<1>3. /\ toWS[t] = <<>> /\ From(fromWG[t], 0) /\ Len(fromWG[t]) = wgSent[t]
      /\ wgSent[t] \in Nat
    BY <1>1 DEF Downward, Early, DataTypes
<1>4. Taken(t)' = 0
    BY <1>1, <1>3 DEF Taken
<1>5. QED
    BY <1>1, <1>2, <1>3, <1>4 DEF Upward, Downward, Early

(* A tunnel that a step leaves alone.                                      *)
LEMMA AloneTransit ==
  ASSUME NEW t \in Tunnels, NEW u \in Tunnels \ {t}, Only(t), Upward(u), Downward(u)
  PROVE  Upward(u)' /\ Downward(u)'
BY DEF Only, Upward, Downward, Early, Taken

(* Every step keeps the order of what is in transit.                       *)
LEMMA NextTransit ==
  ASSUME Inv, DataTypes, DataTypes', InTransit, [Next]_vars PROVE InTransit'
<1>1. CASE UNCHANGED vars
    BY <1>1 DEF InTransit, Upward, Downward, Early, Taken, vars, closeVars, dataVars,
                upData, downData
<1>2. CASE Restart
    BY <1>2 DEF InTransit, Upward, Downward, Early, Taken, Restart, closeVars, dataVars,
                upData, downData
<1>3. CASE Panic
  <2>1. \A t \in Tunnels :
          /\ pc'[t]["wsToUDP"] = "off" /\ pc'[t]["udpToWS"] = "off"
          /\ handler'[t] \in {"idle", "returned"}
          /\ handler'[t] = "idle" => handler[t] = "idle"
          /\ fromWG'[t] = <<>> /\ UNCHANGED <<upData, wgSent, toWS>>
      BY <1>3 DEF Panic, Roles, Closers
  <2>i. ASSUME NEW t \in Tunnels, handler[t] = "idle" PROVE wgSent[t] = 0
      BY <2>i DEF InTransit, Downward
  <2>2. From(<<>>, 0) /\ Len(<<>>) = 0
      BY DEF From
  <2>3. QED
      BY <2>1, <2>i, <2>2 DEF InTransit, Upward, Downward, Early, upData
<1>4. ASSUME NEW t \in Tunnels, Acts(t) PROVE InTransit'
  <2>1. Only(t)
      BY <1>4, ActsAlone DEF Inv
  <2>2. Upward(t) /\ Downward(t)
      BY DEF InTransit
  <2>3. Upward(t)' /\ Downward(t)'
    <3>1. CASE ClientSends(t) \/ ClientControl(t) \/ Forward(t) \/ SkipControl(t)
        BY <2>2, <3>1, UpTransit
    <3>2. CASE \/ WGSends(t) \/ UDPRead(t) \/ WSWritten(t)
               \/ \E r \in Closers : CloseUDP(t, r)
        BY <2>2, <3>2, DownTransit
    <3>3. CASE StartTunnel(t)
        BY <2>2, <3>3, StartTransit
    <3>4. CASE \/ Upgrade(t) \/ DialFails(t) \/ DialUDP(t) \/ CountTunnel(t)
               \/ HandlerReturns(t) \/ pingLoop(t)
               \/ StatsDone(t) \/ ReadFails(t) \/ CheckDone(t) \/ UDPTimeout(t)
               \/ UDPReadFails(t) \/ WSWriteFails(t) \/ WireBreaks(t) \/ MaxAge(t)
               \/ \E r \in Closers : \/ EnterClose(t, r) \/ CloseWS(t, r)
                                     \/ Decrement(t, r) \/ Notify(t, r)
        BY <2>2, <3>4, OtherTransit
    <3>5. QED
        BY <1>4, <3>1, <3>2, <3>3, <3>4
        DEF Acts, handleTunnel, wsToUDP, udpToWS, close
  <2>4. ASSUME NEW u \in Tunnels \ {t} PROVE Upward(u)' /\ Downward(u)'
      BY <2>1, AloneTransit DEF InTransit
  <2>5. QED
      BY <2>3, <2>4 DEF InTransit
<1>5. QED
    BY <1>1, <1>2, <1>3, <1>4 DEF Next, Server, Environment, Acts

-----------------------------------------------------------------------------
(* The server implements Bridge *)

Phases == [t \in Tunnels |-> Phase(t)]
Told == [t \in Tunnels |-> {e \in Events : callback[t][e] # "none"}]
Mixed == [t \in Tunnels |-> clash[t] # "none"]

(* What Bridge sees of a step that leaves the other tunnels alone.         *)
LEMMA OnePhase ==
  ASSUME NEW t \in Tunnels, Only(t)
  PROVE  /\ Phases' = [Phases EXCEPT ![t] = Phase(t)']
         /\ Told' = [Told EXCEPT ![t] = {e \in Events : callback'[t][e] # "none"}]
<1>1. \A u \in Tunnels \ {t} : Phase(u)' = Phase(u) /\ callback'[u] = callback[u]
    BY DEF Only, Phase
<1>2. QED
    BY <1>1 DEF Phases, Told

(* What Bridge sees of a step that changes no socket and reports nothing.  *)
LEMMA SamePhase ==
  ASSUME NEW t \in Tunnels, Only(t), Early(t)' <=> Early(t),
         udpOpen'[t] = udpOpen[t], wsOpen'[t] = wsOpen[t], callback'[t] = callback[t]
  PROVE  Phases' = Phases /\ Told' = Told
<1>1. Phase(t)' = Phase(t)
    BY DEF Phase, Early
<1>2. \A u \in Tunnels : Phase(u)' = Phase(u) /\ callback'[u] = callback[u]
    BY <1>1 DEF Only, Phase
<1>3. QED
    BY <1>2 DEF Phases, Told

(* How a tunnel goes through its phases, and what is told of it.           *)
Turned(t, from, to) == /\ Phases[t] = from
                       /\ Phases' = [Phases EXCEPT ![t] = to]

Hears(t, e) ==
  Told' = [Told EXCEPT ![t] = IF t \in Tokened THEN @ \union {e} ELSE @]

LEMMA PhaseSteps ==
  ASSUME Inv, Inv', NEW t \in Tunnels, Aware(t), Only(t),
         \/ Upgrade(t) \/ DialFails(t) \/ DialUDP(t) \/ StartTunnel(t)
         \/ (\E r \in Closers : CloseUDP(t, r) \/ CloseWS(t, r) \/ Notify(t, r))
  PROVE  \/ Phases' = Phases /\ Told' = Told
         \/ Turned(t, "new", "closed") /\ Told' = Told
         \/ Turned(t, "new", "open") /\ Hears(t, "connected")
         \/ Turned(t, "open", "closing") /\ Told' = Told
         \/ Turned(t, "closing", "closed") /\ Told' = Told
         \/ /\ Phases[t] = "closed" /\ Phases' = Phases
            /\ "connected" \in Told[t] /\ Hears(t, "disconnected")
<1>t. /\ Phases[t] = Phase(t) /\ Told[t] = {e \in Events : callback[t][e] # "none"}
      /\ Phases = [Phases EXCEPT ![t] = Phase(t)]
      /\ Told = [Told EXCEPT ![t] = Told[t]]
    BY DEF Phases, Told
<1>c. callback'[t] = callback[t] => Told' = Told
    BY <1>t, OnePhase
<1>e. /\ Early(t) => \A r \in Closers : pc[t][r] = "off"
      /\ handler[t] \in {"idle", "upgraded"} => ~udpOpen[t]
      /\ handler[t] = "counted" => udpOpen[t]
    BY DEF Inv, CloseInv, Lifecycle, Released, Early, Roles
<1>1. CASE Upgrade(t)
  <2>1. handler[t] = "idle" /\ callback'[t] = callback[t] /\ udpOpen'[t] = udpOpen[t]
        /\ ~udpOpen[t] /\ ~wsOpen[t]
      BY <1>1, <1>e DEF Upgrade, Aware
  <2>2. \/ handler'[t] = "upgraded"
        \/ handler'[t] = "returned" /\ wsOpen'[t] = wsOpen[t]
      BY <1>1 DEF Upgrade, Inv, Types
  <2>3. Phase(t) = "new" /\ Phase(t)' \in {"new", "closed"}
      BY <2>1, <2>2 DEF Phase
  <2>4. QED
      BY <1>t, <1>c, <2>1, <2>3, OnePhase DEF Turned
<1>2. CASE DialFails(t)
  <2>1. /\ handler[t] = "upgraded" /\ handler'[t] = "returned"
        /\ callback'[t] = callback[t] /\ ~udpOpen'[t] /\ ~wsOpen'[t]
      BY <1>2, <1>e DEF DialFails, Inv, Types
  <2>2. Phase(t) = "new" /\ Phase(t)' = "closed"
      BY <2>1 DEF Phase
  <2>3. QED
      BY <1>t, <1>c, <2>1, <2>2, OnePhase DEF Turned
<1>d. CASE DialUDP(t)
  <2>1. /\ handler[t] = "upgraded" /\ handler'[t] = "dialed"
        /\ callback'[t] = callback[t]
      BY <1>d DEF DialUDP, Inv, Types
  <2>2. Phase(t) = "new" /\ Phase(t)' = "new"
      BY <2>1 DEF Phase
  <2>3. QED
      BY <1>t, <1>c, <2>1, <2>2, OnePhase
<1>3. CASE StartTunnel(t)
  <2>1. /\ handler[t] = "counted" /\ handler'[t] = "wait" /\ udpOpen'[t]
        /\ callback'[t] = [callback[t] EXCEPT !["connected"] =
                             IF t \in Tokened THEN "started" ELSE @]
      BY <1>3, <1>e DEF StartTunnel, notifyManager, Inv, Types
  <2>2. Phase(t) = "new" /\ Phase(t)' = "open"
      BY <2>1 DEF Phase
  <2>3. {e \in Events : callback'[t][e] # "none"}
          = IF t \in Tokened THEN Told[t] \union {"connected"} ELSE Told[t]
      BY <1>t, <2>1 DEF Events, Inv, Types
  <2>4. QED
      BY <1>t, <2>2, <2>3, OnePhase DEF Turned, Hears
<1>4. ASSUME NEW r \in Closers, CloseUDP(t, r)
      PROVE  Turned(t, "open", "closing") /\ Told' = Told
  <2>1. pc[t][r] = "closeUDP" /\ handler' = handler
      BY <1>4 DEF CloseUDP, Move
  <2>2. ~Early(t) /\ udpOpen[t] /\ wsOpen[t]
      BY <1>e, <2>1 DEF Inv, CloseInv, Released, Aware
  <2>3. ~udpOpen'[t] /\ wsOpen'[t] = wsOpen[t] /\ callback'[t] = callback[t]
      BY <1>4 DEF CloseUDP, Inv, Types
  <2>4. Phase(t) = "open" /\ Phase(t)' = "closing"
      BY <2>1, <2>2, <2>3 DEF Phase, Early
  <2>5. QED
      BY <1>t, <1>c, <2>3, <2>4, OnePhase DEF Turned
<1>5. ASSUME NEW r \in Closers, CloseWS(t, r)
      PROVE  Turned(t, "closing", "closed") /\ Told' = Told
  <2>1. pc[t][r] = "closeWS" /\ handler' = handler
      BY <1>5 DEF CloseWS, Move
  <2>2. ~Early(t) /\ ~udpOpen[t] /\ wsOpen[t]
      BY <1>e, <2>1 DEF Inv, CloseInv, Released, Aware, Body
  <2>3. ~wsOpen'[t] /\ udpOpen'[t] = udpOpen[t] /\ callback'[t] = callback[t]
      BY <1>5 DEF CloseWS, Inv, Types
  <2>4. Phase(t) = "closing" /\ Phase(t)' = "closed"
      BY <2>1, <2>2, <2>3 DEF Phase, Early
  <2>5. QED
      BY <1>t, <1>c, <2>3, <2>4, OnePhase DEF Turned
<1>6. ASSUME NEW r \in Closers, Notify(t, r)
      PROVE  \/ Phases' = Phases /\ Told' = Told
             \/ /\ Phases[t] = "closed" /\ Phases' = Phases
                /\ "connected" \in Told[t] /\ Hears(t, "disconnected")
  <2>1. pc[t][r] = "notify" /\ handler' = handler
      BY <1>6 DEF Notify, Move
  <2>2. ~Early(t) /\ ~udpOpen[t] /\ ~wsOpen[t] /\ Started(t)
      BY <1>e, <2>1 DEF Inv, CloseInv, Released, Lifecycle, Body, Roles
  <2>3. /\ wsOpen'[t] = wsOpen[t] /\ udpOpen'[t] = udpOpen[t]
        /\ callback'[t] = [callback[t] EXCEPT !["disconnected"] =
                             IF t \in Tokened THEN "started" ELSE @]
      BY <1>6 DEF Notify, notifyManager, Inv, Types
  <2>4. Phase(t) = "closed" /\ Phase(t)' = "closed"
      BY <2>1, <2>2, <2>3 DEF Phase, Early
  <2>5. Phases' = Phases
      BY <1>t, <2>4, OnePhase
  <2>6. CASE t \notin Tokened
    <3>1. callback'[t] = callback[t]
        BY <2>3, <2>6 DEF Inv, Types
    <3>2. QED
        BY <1>c, <2>5, <3>1
  <2>7. CASE t \in Tokened
    <3>1. callback[t]["connected"] # "none"
        BY <2>2, <2>7 DEF Inv, CloseInv, Reported
    <3>2. {e \in Events : callback'[t][e] # "none"} = Told[t] \union {"disconnected"}
        BY <1>t, <2>3, <2>7 DEF Events, Inv, Types
    <3>3. "connected" \in Told[t]
        BY <1>t, <3>1 DEF Events
    <3>4. QED
        BY <1>t, <2>4, <2>5, <2>7, <3>2, <3>3, OnePhase DEF Hears
  <2>8. QED
      BY <2>6, <2>7
<1>7. QED
    BY <1>1, <1>2, <1>d, <1>3, <1>4, <1>5, <1>6

(* Two writers that meet have met for good.                                *)
LEMMA MixedSteps ==
  ASSUME Types, DataTypes, NEW t \in Tunnels, Only(t)
  PROVE  /\ clash'[t] = clash[t] => Mixed' = Mixed
         /\ \A r : EnterWrite(t, r) =>
              Mixed' = Mixed \/ Mixed' = [Mixed EXCEPT ![t] = TRUE]
         /\ \A r : LeaveWrite(t, r) => Mixed' = Mixed
<1>1. \A u \in Tunnels \ {t} : clash'[u] = clash[u]
    BY DEF Only
<1>2. ASSUME clash'[t] = clash[t] \/ (clash[t] # "none" /\ clash'[t] # "none")
      PROVE  Mixed' = Mixed
    BY <1>1, <1>2 DEF Mixed
<1>3. ASSUME NEW r, EnterWrite(t, r)
      PROVE  Mixed' = Mixed \/ Mixed' = [Mixed EXCEPT ![t] = TRUE]
  <2>1. clash'[t] = "now" \/ clash'[t] = clash[t]
      BY <1>3 DEF EnterWrite, DataTypes
  <2>2. CASE clash'[t] = "now"
      BY <1>1, <2>2 DEF Mixed
  <2>3. QED
      BY <1>2, <2>1, <2>2
<1>4. ASSUME NEW r, LeaveWrite(t, r) PROVE Mixed' = Mixed
  <2>1. clash'[t] = clash[t] \/ (clash[t] = "now" /\ clash'[t] = "past")
      BY <1>4 DEF LeaveWrite, DataTypes
  <2>2. QED
      BY <1>2, <2>1
<1>5. QED
    BY <1>2, <1>3, <1>4

(* Each step of a tunnel is a step of its channel or is not seen.          *)
LEMMA ChannelStep ==
  ASSUME Inv, Inv', DataTypes, DataTypes', NEW t \in Tunnels, Aware(t), InTransit, Acts(t)
  PROVE  Channel!Next \/ UNCHANGED Channel!vars
<1> USE DEF Channel!vars, Channel!Next, Channel!traffic
<1>o. Only(t)
    BY ActsAlone DEF Inv
<1>p. Phases = [u \in Tunnels |-> Phase(u)]
      /\ Told = [u \in Tunnels |-> {e \in Events : callback[u][e] # "none"}]
      /\ Phases' = [u \in Tunnels |-> Phase(u)']
      /\ Told' = [u \in Tunnels |-> {e \in Events : callback'[u][e] # "none"}]
      /\ Mixed = [u \in Tunnels |-> clash[u] # "none"]
      /\ Mixed' = [u \in Tunnels |-> clash'[u] # "none"]
    BY DEF Phases, Told, Mixed
<1>m. /\ clash'[t] = clash[t] => Mixed' = Mixed
      /\ \A r : EnterWrite(t, r) =>
           Mixed' = Mixed \/ Mixed' = [Mixed EXCEPT ![t] = TRUE]
      /\ \A r : LeaveWrite(t, r) => Mixed' = Mixed
    BY <1>o, MixedSteps DEF Inv
<1>q. Upward(t) /\ Downward(t)
    BY DEF InTransit
<1>e. Early(t) => \A r \in Roles : pc[t][r] = "off"
    BY DEF Inv, CloseInv, Lifecycle
<1>r. {"pingLoop", "wsToUDP", "udpToWS"} \subseteq Roles
    BY DEF Roles, Closers
<1>1. CASE \/ Upgrade(t) \/ DialFails(t) \/ DialUDP(t) \/ StartTunnel(t)
           \/ (\E r \in Closers : CloseUDP(t, r) \/ CloseWS(t, r) \/ Notify(t, r))
  <2>0. UNCHANGED <<sent, wgSent, toWG, clash, toWS>>
      BY <1>1 DEF Upgrade, DialFails, DialUDP, StartTunnel, CloseUDP, CloseWS, Notify,
                  dataVars, upData, downData
  <2>1. UNCHANGED <<sent, wgSent, toWG, toWS, Mixed>>
      BY <1>m, <2>0
  <2>2. ASSUME Turned(t, "new", "closed") /\ Told' = Told PROVE Channel!Refuse(t)
      BY <2>1, <2>2, <1>p DEF Turned, Channel!Refuse, Channel!Turn
  <2>3. ASSUME Turned(t, "new", "open") /\ Hears(t, "connected") PROVE Channel!Open(t)
      BY <2>1, <2>3, <1>p DEF Turned, Hears, Channel!Open, Channel!Turn, Channel!Tell
  <2>4. ASSUME \/ Turned(t, "open", "closing") /\ Told' = Told
               \/ Turned(t, "closing", "closed") /\ Told' = Told
        PROVE  Channel!Close(t)
      BY <2>1, <2>4, <1>p DEF Turned, Channel!Close, Channel!End, Channel!Turn
  <2>5. ASSUME Phases[t] = "closed", Phases' = Phases,
               "connected" \in Told[t], Hears(t, "disconnected")
        PROVE  Channel!Report(t)
      BY <2>1, <2>5, <1>p DEF Hears, Channel!Report, Channel!Tell
  <2>6. ASSUME Phases' = Phases /\ Told' = Told PROVE UNCHANGED Channel!vars
      BY <2>1, <2>6, <1>p
  <2>7. QED
      BY <1>o, <1>1, <2>2, <2>3, <2>4, <2>5, <2>6, PhaseSteps
<1>2. CASE ClientSends(t) \/ ClientControl(t) \/ Forward(t) \/ SkipControl(t)
  <2>1. UNCHANGED <<udpOpen, wsOpen, callback, handler, wgSent, clash, toWS>>
      BY <1>2 DEF ClientSends, ClientControl, Forward, SkipControl, Move, closeVars,
                  downData
  <2>2. Phases' = Phases /\ Told' = Told /\ Mixed' = Mixed
      BY <1>o, <1>m, <2>1, SamePhase DEF Early
  <2>3. CASE ClientSends(t)
    <3>1. sent' = [sent EXCEPT ![t] = @ + 1] /\ toWG' = toWG
        BY <2>3 DEF ClientSends
    <3>2. Channel!OfferUp(t)
        BY <1>p, <2>1, <2>2, <3>1 DEF Channel!OfferUp
    <3>3. QED
        BY <3>2
  <2>4. CASE ClientControl(t) \/ Forward(t) \/ SkipControl(t)
    <3>1. sent' = sent
        BY <2>4 DEF ClientControl, Forward, SkipControl
    <3>2. CASE toWG' = toWG
        BY <1>p, <2>1, <2>2, <3>1, <3>2
    <3>3. CASE toWG' # toWG
      <4>1. /\ udpOpen[t] /\ Len(toWG[t]) < sent[t]
            /\ toWG' = [toWG EXCEPT ![t] = Append(@, Len(@) + 1)]
          BY <1>2, <1>q, <3>3, UpTransit
      <4>e. Forward(t)
          BY <2>4, <3>3 DEF ClientControl, SkipControl
      <4>2. Phase(t) = "open"
          BY <1>e, <1>r, <4>1, <4>e DEF Phase, Early, Forward, Move
      <4>3. Channel!CarryUp(t)
          BY <1>p, <2>1, <2>2, <3>1, <4>1, <4>2 DEF Channel!CarryUp
      <4>4. QED
          BY <4>3
    <3>4. QED
        BY <3>2, <3>3
  <2>5. QED
      BY <1>2, <2>3, <2>4
<1>3. CASE WGSends(t)
  <2>1. /\ UNCHANGED <<udpOpen, wsOpen, callback, handler, sent, toWG, clash, toWS>>
        /\ udpOpen[t] /\ wgSent' = [wgSent EXCEPT ![t] = @ + 1]
      BY <1>3 DEF WGSends, closeVars, upData
  <2>2. Phases' = Phases /\ Told' = Told /\ Mixed' = Mixed
      BY <1>o, <1>m, <2>1, SamePhase DEF Early
  <2>3. Phase(t) \in {"new", "open"}
      BY <2>1 DEF Phase
  <2>4. Channel!OfferDown(t)
      BY <1>p, <2>1, <2>2, <2>3 DEF Channel!OfferDown
  <2>5. QED
      BY <2>4
<1>4. CASE PingTick(t) \/ UDPRead(t)
  <2>1. /\ UNCHANGED <<udpOpen, wsOpen, callback, handler, sent, toWG, wgSent, toWS>>
        /\ \E r \in Roles : EnterWrite(t, r) /\ pc[t][r] # "off"
      BY <1>4, <1>r DEF PingTick, UDPRead, Move, closeVars, upData
  <2>2. Phases' = Phases /\ Told' = Told
      BY <1>o, <2>1, SamePhase DEF Early
  <2>3. Mixed' = Mixed \/ Mixed' = [Mixed EXCEPT ![t] = TRUE]
      BY <1>m, <2>1
  <2>4. CASE Mixed' = Mixed
      BY <1>p, <2>1, <2>2, <2>4
  <2>5. CASE Mixed' = [Mixed EXCEPT ![t] = TRUE]
    <3>1. Phase(t) # "new"
        BY <1>e, <2>1 DEF Phase, Early
    <3>2. Channel!Meet(t)
        BY <1>p, <2>1, <2>2, <2>5, <3>1 DEF Channel!Meet
    <3>3. QED
        BY <3>2
  <2>6. QED
      BY <2>3, <2>4, <2>5
<1>5. CASE WSWritten(t)
  <2>1. /\ UNCHANGED <<udpOpen, wsOpen, callback, handler, sent, toWG, wgSent>>
        /\ LeaveWrite(t, "udpToWS")
      BY <1>5 DEF WSWritten, Move, closeVars, upData
  <2>2. Phases' = Phases /\ Told' = Told /\ Mixed' = Mixed
      BY <1>o, <1>m, <2>1, SamePhase DEF Early
  <2>3. CASE toWS' = toWS
      BY <1>p, <2>1, <2>2, <2>3
  <2>4. CASE toWS' # toWS
    <3>1. /\ wsOpen[t] /\ ~Early(t) /\ Len(toWS[t]) < wgSent[t]
          /\ \E f \in {Len(toWS[t]) + 1} \union
                       (IF clash[t] = "now" THEN {Damaged} ELSE {}) :
               toWS' = [toWS EXCEPT ![t] = Append(@, f)]
        BY <1>5, <1>q, <2>4, DownTransit
    <3>2. Phase(t) \in {"open", "closing"}
        BY <3>1 DEF Phase, Early
    <3>3. \E f \in {Len(toWS[t]) + 1} \union
                   (IF clash[t] # "none" THEN {Channel!Damaged} ELSE {}) :
            toWS' = [toWS EXCEPT ![t] = Append(@, f)]
        BY <3>1 DEF Damaged, Channel!Damaged
    <3>4. Channel!CarryDown(t)
        BY <1>p, <2>1, <2>2, <3>1, <3>2, <3>3 DEF Channel!CarryDown
    <3>5. QED
        BY <3>4
  <2>5. QED
      BY <2>3, <2>4
<1>6. CASE PingWritten(t) \/ PingFails(t) \/ WSWriteFails(t)
  <2>1. /\ UNCHANGED <<udpOpen, wsOpen, callback, handler, sent, toWG, wgSent, toWS>>
        /\ \E r \in Roles : LeaveWrite(t, r)
      BY <1>6, <1>r DEF PingWritten, PingFails, WSWriteFails, Move, closeVars, upData
  <2>2. Phases' = Phases /\ Told' = Told /\ Mixed' = Mixed
      BY <1>o, <1>m, <2>1, SamePhase DEF Early
  <2>3. QED
      BY <1>p, <2>1, <2>2
<1>7. CASE \/ CountTunnel(t) \/ HandlerReturns(t) \/ PingDone(t) \/ StatsDone(t)
           \/ ReadFails(t) \/ CheckDone(t) \/ UDPTimeout(t) \/ UDPReadFails(t)
           \/ WireBreaks(t) \/ MaxAge(t)
           \/ (\E r \in Closers : EnterClose(t, r) \/ Decrement(t, r))
  <2>1. /\ UNCHANGED <<udpOpen, wsOpen, callback, sent, toWG, wgSent, clash, toWS>>
        /\ handler' = handler \/ HandlerReturns(t) \/ CountTunnel(t)
      BY <1>7 DEF CountTunnel, HandlerReturns, PingDone, StatsDone, ReadFails, CheckDone,
                  UDPTimeout, UDPReadFails, WireBreaks, MaxAge, EnterClose, Decrement,
                  Go, Move, closeVars, dataVars, upData, downData
  <2>2. Early(t)' <=> Early(t)
      BY <2>1 DEF HandlerReturns, CountTunnel, Early, Inv, Types
  <2>3. Phases' = Phases /\ Told' = Told /\ Mixed' = Mixed
      BY <1>o, <1>m, <2>1, <2>2, SamePhase
  <2>4. QED
      BY <1>p, <2>1, <2>3
<1>8. QED
    BY <1>1, <1>2, <1>3, <1>4, <1>5, <1>6, <1>7
    DEF Acts, handleTunnel, pingLoop, wsToUDP, udpToWS, close

(* When the process dies every channel ends.                               *)
LEMMA ChannelCrash == ASSUME Types, DataTypes, Panic PROVE Channel!Next
<1> DEFINE S == {t \in Tunnels : Early(t) /\ handler[t] # "idle"}
<1>1. \A t \in Tunnels :
        /\ handler'[t] = IF handler[t] = "idle" THEN "idle" ELSE "returned"
        /\ ~udpOpen'[t] /\ ~wsOpen'[t]
    BY DEF Panic, Types
<1>2. \A t \in Tunnels :
        Phase(t)' = IF Phase(t) = "new" /\ t \notin S THEN "new" ELSE "closed"
    BY <1>1 DEF Phase, Early, Types
<1>3. S \in SUBSET {t \in Tunnels : Phase(t) = "new"}
    BY DEF Phase, Early
<1>4. UNCHANGED <<callback, sent, wgSent, toWG, toWS>>
    BY DEF Panic, upData
<1>m. \A t \in Tunnels : (clash'[t] # "none") <=> (clash[t] # "none")
    BY DEF Panic, DataTypes
<1>5. Channel!Crash
    BY <1>2, <1>3, <1>4, <1>m DEF Channel!Crash, Channel!traffic
<1>6. QED
    BY <1>5 DEF Channel!Next

(* The server implements Bridge, the safety part of BridgesInOrder: the    *)
(* goroutines, the once and the two sockets of every request               *)
(* (server/main.go:183-330) amount to one channel that carries datagrams   *)
(* in order and without holes while it is open (toward the client, until   *)
(* two of its writes overlap), and that is reported as ended only when     *)
(* nothing of it is left.                                                  *)
THEOREM ImplementsBridge == Spec => Channel!Safety
<1> DEFINE AllAware == \A t \in Tunnels : Aware(t)
<1>1. Init => DataTypes /\ AllAware
    BY DEF Init, DataTypes, None, Aware, Started, Early, Roles, Closers
<1>2. Init => InTransit
    BY DEF Init, InTransit, Upward, Downward, InOrder, From, Taken, Early, Roles, Closers
<1>3. Init => Channel!Init
  <2> SUFFICES ASSUME Init PROVE Channel!Init
      OBVIOUS
  <2>1. \A t \in Tunnels : /\ Phase(t) = "new" /\ (clash[t] # "none") = FALSE
                           /\ {e \in Events : callback[t][e] # "none"} = {}
      BY DEF Init, Phase
  <2>2. QED
      BY <2>1 DEF Init, Channel!Init
<1>4. Inv /\ Inv' /\ DataTypes /\ AllAware /\ [Next]_vars => AllAware'
    BY NextAware
<1>5. Inv /\ DataTypes /\ DataTypes' /\ InTransit /\ [Next]_vars => InTransit'
    BY NextTransit
<1>6. Inv /\ Inv' /\ DataTypes /\ DataTypes' /\ AllAware /\ InTransit /\ [Next]_vars
        => [Channel!Next]_(Channel!vars)
  <2> SUFFICES ASSUME Inv, Inv', DataTypes, DataTypes', AllAware, InTransit, [Next]_vars
               PROVE  Channel!Next \/ UNCHANGED Channel!vars
      OBVIOUS
  <2>1. CASE UNCHANGED vars \/ Restart
      BY <2>1 DEF Restart, vars, closeVars, dataVars, upData, downData, Phase,
                  Channel!vars, Channel!traffic
  <2>2. CASE Panic
      BY <2>2, ChannelCrash DEF Inv
  <2>3. ASSUME NEW t \in Tunnels, Acts(t) PROVE Channel!Next \/ UNCHANGED Channel!vars
      BY <2>3, ChannelStep
  <2>4. QED
      BY <2>1, <2>2, <2>3 DEF Next, Server, Environment, Acts
<1>7. QED
  <2> HIDE DEF AllAware
  <2> QED
      BY <1>1, <1>2, <1>3, <1>4, <1>5, <1>6, InitInv, NextInv, NextDataTypes,
         PTL DEF Spec, Channel!Safety
=============================================================================
