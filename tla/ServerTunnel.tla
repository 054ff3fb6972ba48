---------------------------- MODULE ServerTunnel ----------------------------
(***************************************************************************)
(* arena-tunnel-server (server/main.go): the tunnels one server process    *)
(* bridges between WebSocket connections and the WireGuard UDP port.       *)
(*                                                                         *)
(* Every accepted request runs a handler and four goroutines: pingLoop,    *)
(* wsToUDP, udpToWS and statsLoop.  They share the two sockets, the done   *)
(* channel, one sync.Once and the process-wide counter activeConns.        *)
(*                                                                         *)
(* A datagram is its sequence number in its direction; Control stands for  *)
(* any frame that is not binary (ping, pong, text).                        *)
(***************************************************************************)
EXTENDS Integers, Sequences, FiniteSets

CONSTANTS Tunnels,    \* the /tunnel requests that reach the process
          Tokened,    \* those that carry an X-Arena-Token header
          MaxFrames,  \* bound: datagrams offered per tunnel and direction
          MaxTraffic, \* bound: datagrams offered per tunnel
          MaxControl  \* bound: control frames queued toward the server

ASSUME TunnelsAssumption == IsFiniteSet(Tunnels) /\ Tokened \subseteq Tunnels
ASSUME BoundsAssumption == {MaxFrames, MaxTraffic, MaxControl} \subseteq Nat

VARIABLES
  up,           \* the server process is alive
  handler,      \* handleTunnel's progress, per request
  pc,           \* pc[t][r]: where goroutine r of tunnel t stands
  once,         \* t.once: "fresh", "running" or "finished"
  done,         \* t.done is closed
  wsOpen,       \* the WebSocket is open on our side
  udpOpen,      \* the UDP socket toward WireGuard is open
  activeConns,  \* the gauge behind /healthz
  callback,     \* callback[t][e]: the goroutine that posts event e has started
  wire,         \* environment: "up", or "broken" (peer gone, silent, reset)
  udpErr,       \* environment: the UDP socket has returned an OS error
  aged,         \* the -max-age timer of t has fired
  c2s,          \* frames in transit from the client
  fromWG,       \* datagrams queued on the UDP socket of t
  buf,          \* the datagram udpToWS has read and not written yet
  sent, wgSent, \* how many datagrams each side has offered on t
  clash,        \* two calls of WriteMessage on t: "none", "now" or "past"
  toWG, toWS    \* history: datagrams written to WireGuard / to the WebSocket

closeVars == <<once, done, wsOpen, udpOpen, activeConns, callback>>
envVars   == <<wire, udpErr, aged>>
upData    == <<c2s, sent, toWG>>
downData  == <<fromWG, buf, wgSent, clash, toWS>>
dataVars  == <<upData, downData>>
vars      == <<up, handler, pc, closeVars, envVars, dataVars>>

Control == 0
None    == 0
Damaged == 0   \* on the WebSocket: a frame that two writers have spoiled
Closers == {"pingLoop", "wsToUDP", "udpToWS"}   \* those with defer t.close()
Roles   == Closers \union {"statsLoop"}
Events  == {"connected", "disconnected"}

PCs == {"off", "select", "check", "read", "write",
        "close", "closeUDP", "closeWS", "decrement", "notify", "exit"}

Writing(t) == {r \in {"pingLoop", "udpToWS"} : pc[t][r] = "write"}

(* Goroutine r of t goes on from one program point to another.             *)
Move(t, r, from, to) ==
  /\ up /\ pc[t][r] = from
  /\ pc' = [pc EXCEPT ![t][r] = to]
  /\ UNCHANGED <<up, handler>>

(* ... and does nothing else.                                              *)
Go(t, r, from, to) ==
  /\ Move(t, r, from, to)
  /\ UNCHANGED <<closeVars, envVars, dataVars>>

(* r calls WriteMessage, which takes no lock, and returns from it.         *)
EnterWrite(t, r) ==
  clash' = [clash EXCEPT ![t] = IF Writing(t) # {} THEN "now" ELSE @]
LeaveWrite(t, r) ==
  clash' = [clash EXCEPT ![t] = IF @ = "now" /\ Writing(t) = {r} THEN "past" ELSE @]

-----------------------------------------------------------------------------
Init ==
  /\ up = TRUE
  /\ handler = [t \in Tunnels |-> "idle"]
  /\ pc = [t \in Tunnels |-> [r \in Roles |-> "off"]]
  /\ once = [t \in Tunnels |-> "fresh"]
  /\ done = [t \in Tunnels |-> FALSE]
  /\ wsOpen = [t \in Tunnels |-> FALSE]
  /\ udpOpen = [t \in Tunnels |-> FALSE]
  /\ activeConns = 0
  /\ callback = [t \in Tunnels |-> [e \in Events |-> "none"]]
  /\ wire = [t \in Tunnels |-> "up"]
  /\ udpErr = [t \in Tunnels |-> FALSE]
  /\ aged = [t \in Tunnels |-> FALSE]
  /\ c2s = [t \in Tunnels |-> <<>>]
  /\ fromWG = [t \in Tunnels |-> <<>>]
  /\ buf = [t \in Tunnels |-> None]
  /\ sent = [t \in Tunnels |-> 0]
  /\ wgSent = [t \in Tunnels |-> 0]
  /\ clash = [t \in Tunnels |-> "none"]
  /\ toWG = [t \in Tunnels |-> <<>>]
  /\ toWS = [t \in Tunnels |-> <<>>]

-----------------------------------------------------------------------------
(* handleTunnel *)

(* A goroutine of its own posts event e.  Without a token (or a manager    *)
(* URL) it returns at once; what becomes of the request is only logged.    *)
notifyManager(t, e) ==
  callback' = [callback EXCEPT ![t][e] = IF t \in Tokened THEN "started" ELSE @]

Upgrade(t) ==
  /\ up /\ handler[t] = "idle"
  /\ \/ /\ handler' = [handler EXCEPT ![t] = "upgraded"]
        /\ wsOpen' = [wsOpen EXCEPT ![t] = TRUE]
     \/ /\ handler' = [handler EXCEPT ![t] = "returned"]
        /\ UNCHANGED wsOpen
  /\ UNCHANGED <<up, pc, once, done, udpOpen, activeConns, callback>>
  /\ UNCHANGED <<envVars, dataVars>>

(* ResolveUDPAddr or DialUDP failed: only the WebSocket is there to close. *)
DialFails(t) ==
  /\ up /\ handler[t] = "upgraded"
  /\ wsOpen' = [wsOpen EXCEPT ![t] = FALSE]
  /\ handler' = [handler EXCEPT ![t] = "returned"]
  /\ UNCHANGED <<up, pc, once, done, udpOpen, activeConns, callback>>
  /\ UNCHANGED <<envVars, dataVars>>

DialUDP(t) ==
  /\ up /\ handler[t] = "upgraded"
  /\ udpOpen' = [udpOpen EXCEPT ![t] = TRUE]
  /\ handler' = [handler EXCEPT ![t] = "dialed"]
  /\ UNCHANGED <<up, pc, once, done, wsOpen, activeConns, callback>>
  /\ UNCHANGED <<envVars, dataVars>>

CountTunnel(t) ==
  /\ up /\ handler[t] = "dialed"
  /\ activeConns' = activeConns + 1
  /\ handler' = [handler EXCEPT ![t] = "counted"]
  /\ UNCHANGED <<up, pc, once, done, wsOpen, udpOpen, callback>>
  /\ UNCHANGED <<envVars, dataVars>>

(* The callback and the four goroutines; one that is started stands at its *)
(* first point until it is scheduled.                                      *)
StartTunnel(t) ==
  /\ up /\ handler[t] = "counted"
  /\ notifyManager(t, "connected")
  /\ pc' = [pc EXCEPT ![t] = [r \in Roles |->
              CASE r = "udpToWS" -> "check"
                [] r = "wsToUDP" -> "read"
                [] OTHER         -> "select"]]
  /\ handler' = [handler EXCEPT ![t] = "wait"]
  /\ UNCHANGED <<up, once, done, wsOpen, udpOpen, activeConns, envVars, dataVars>>

HandlerReturns(t) ==
  /\ up /\ handler[t] = "wait" /\ done[t]
  /\ handler' = [handler EXCEPT ![t] = "returned"]
  /\ UNCHANGED <<up, pc, closeVars, envVars, dataVars>>

-----------------------------------------------------------------------------
(* tunnel.close(): sync.Once admits one goroutine; a later caller blocks   *)
(* while the body runs and returns once it has finished.                   *)

(* Mutant: close() without sync.Once.                                      *)
EnterCloseTwice(t, r) ==
  /\ Move(t, r, "close", "closeUDP")
  /\ once' = [once EXCEPT ![t] = "running"]
  /\ done' = [done EXCEPT ![t] = TRUE]
  /\ UNCHANGED <<wsOpen, udpOpen, activeConns, callback, envVars, dataVars>>

EnterClose(t, r) ==
  /\ \/ /\ once[t] = "fresh"
        /\ once' = [once EXCEPT ![t] = "running"]
        /\ done' = [done EXCEPT ![t] = TRUE]
        /\ Move(t, r, "close", "closeUDP")
     \/ /\ once[t] = "finished"
        /\ Move(t, r, "close", "exit")
        /\ UNCHANGED <<once, done>>
  /\ UNCHANGED <<wsOpen, udpOpen, activeConns, callback, envVars, dataVars>>

CloseUDP(t, r) ==
  /\ Move(t, r, "closeUDP", "closeWS")
  /\ udpOpen' = [udpOpen EXCEPT ![t] = FALSE]
  /\ fromWG' = [fromWG EXCEPT ![t] = <<>>]
  /\ UNCHANGED <<once, done, wsOpen, activeConns, callback, envVars>>
  /\ UNCHANGED <<upData, buf, wgSent, clash, toWS>>

(* Mutant: close() forgets the WebSocket.                                  *)
CloseWSForgotten(t, r) == Go(t, r, "closeWS", "decrement")

CloseWS(t, r) ==
  /\ Move(t, r, "closeWS", "decrement")
  /\ wsOpen' = [wsOpen EXCEPT ![t] = FALSE]
  /\ UNCHANGED <<once, done, udpOpen, activeConns, callback, envVars, dataVars>>

Decrement(t, r) ==
  /\ Move(t, r, "decrement", "notify")
  /\ activeConns' = activeConns - 1
  /\ UNCHANGED <<once, done, wsOpen, udpOpen, callback, envVars, dataVars>>

Notify(t, r) ==
  /\ Move(t, r, "notify", "exit")
  /\ notifyManager(t, "disconnected")
  /\ once' = [once EXCEPT ![t] = "finished"]
  /\ UNCHANGED <<done, wsOpen, udpOpen, activeConns, envVars, dataVars>>

close(t, r) == EnterClose(t, r) \/ CloseUDP(t, r) \/ CloseWS(t, r)
                 \/ Decrement(t, r) \/ Notify(t, r)

-----------------------------------------------------------------------------
(* pingLoop *)

PingTick(t) ==
  /\ Move(t, "pingLoop", "select", "write")
  /\ EnterWrite(t, "pingLoop")
  /\ UNCHANGED <<closeVars, envVars, upData, fromWG, buf, wgSent, toWS>>

(* WriteMessage returns: a write on a socket we closed always fails, one   *)
(* on a broken wire may still be buffered.                                 *)
PingWritten(t) ==
  /\ wsOpen[t]
  /\ Move(t, "pingLoop", "write", "select")
  /\ LeaveWrite(t, "pingLoop")
  /\ UNCHANGED <<closeVars, envVars, upData, fromWG, buf, wgSent, toWS>>

PingFails(t) ==
  /\ ~wsOpen[t] \/ wire[t] = "broken"
  /\ Move(t, "pingLoop", "write", "close")
  /\ LeaveWrite(t, "pingLoop")
  /\ UNCHANGED <<closeVars, envVars, upData, fromWG, buf, wgSent, toWS>>

PingDone(t) ==
  /\ aged[t] \/ done[t]
  /\ Go(t, "pingLoop", "select", "close")

-----------------------------------------------------------------------------
(* wsToUDP *)

(* Mutant: a failed UDP write is logged and the loop goes on.              *)
ForwardGoesOn(t) ==
  /\ wsOpen[t] /\ c2s[t] # <<>> /\ Head(c2s[t]) # Control
  /\ c2s' = [c2s EXCEPT ![t] = Tail(@)]
  /\ \/ toWG' = [toWG EXCEPT ![t] = Append(@, Head(c2s[t]))] /\ udpOpen[t]
     \/ UNCHANGED toWG
  /\ Move(t, "wsToUDP", "read", "read")
  /\ UNCHANGED <<closeVars, envVars, sent, downData>>

Forward(t) ==
  /\ wsOpen[t] /\ c2s[t] # <<>> /\ Head(c2s[t]) # Control
  /\ c2s' = [c2s EXCEPT ![t] = Tail(@)]
  /\ \/ /\ udpOpen[t]
        /\ toWG' = [toWG EXCEPT ![t] = Append(@, Head(c2s[t]))]
        /\ Move(t, "wsToUDP", "read", "read")
        /\ UNCHANGED udpErr
     \/ /\ udpErr' = [udpErr EXCEPT ![t] = @ \/ udpOpen[t]]
        /\ Move(t, "wsToUDP", "read", "close")
        /\ UNCHANGED toWG
  /\ UNCHANGED <<closeVars, wire, aged, sent, downData>>

SkipControl(t) ==
  /\ wsOpen[t] /\ c2s[t] # <<>> /\ Head(c2s[t]) = Control
  /\ c2s' = [c2s EXCEPT ![t] = Tail(@)]
  /\ Move(t, "wsToUDP", "read", "read")
  /\ UNCHANGED <<closeVars, envVars, sent, toWG, downData>>

(* The peer is gone, our side closed the socket, or no pong moved the read *)
(* deadline: silence is a broken wire here.                                *)
ReadFails(t) ==
  /\ ~wsOpen[t] \/ wire[t] = "broken"
  /\ Go(t, "wsToUDP", "read", "close")

-----------------------------------------------------------------------------
(* udpToWS *)

CheckDone(t) == Go(t, "udpToWS", "check", IF done[t] THEN "close" ELSE "read")

(* A datagram is read and WriteMessage is called on it.                    *)
UDPRead(t) ==
  /\ udpOpen[t] /\ fromWG[t] # <<>>
  /\ Move(t, "udpToWS", "read", "write")
  /\ buf' = [buf EXCEPT ![t] = Head(fromWG[t])]
  /\ fromWG' = [fromWG EXCEPT ![t] = Tail(@)]
  /\ EnterWrite(t, "udpToWS")
  /\ UNCHANGED <<closeVars, envVars, upData, wgSent, toWS>>

(* Mutant: the read timeout is treated as an error.                        *)
UDPTimeoutCloses(t) ==
  /\ udpOpen[t] /\ fromWG[t] = <<>>
  /\ Go(t, "udpToWS", "read", "close")

(* The 5 s deadline passed: idle is no reason to close.                    *)
UDPTimeout(t) ==
  /\ udpOpen[t] /\ fromWG[t] = <<>>
  /\ Go(t, "udpToWS", "read", "check")

(* A real error: the socket was closed by close(), or the OS reports one   *)
(* (an ICMP port unreachable while wg-byoc restarts).                      *)
UDPReadFails(t) ==
  /\ udpErr' = [udpErr EXCEPT ![t] = @ \/ udpOpen[t]]
  /\ Move(t, "udpToWS", "read", "close")
  /\ UNCHANGED <<closeVars, wire, aged, dataVars>>

(* Both writers share the frame buffer of the connection, so a frame may   *)
(* leave damaged by the other one; the write succeeds all the same.        *)
WSWritten(t) ==
  /\ wsOpen[t]
  /\ Move(t, "udpToWS", "write", "check")
  /\ \E f \in {buf[t]} \union (IF clash[t] = "now" THEN {Damaged} ELSE {}) :
       toWS' = [toWS EXCEPT ![t] = Append(@, f)]
  /\ LeaveWrite(t, "udpToWS")
  /\ buf' = [buf EXCEPT ![t] = None]
  /\ UNCHANGED <<closeVars, envVars, upData, fromWG, wgSent>>

(* The datagram goes with the goroutine's buffer.                          *)
WSWriteFails(t) ==
  /\ ~wsOpen[t] \/ wire[t] = "broken"
  /\ Move(t, "udpToWS", "write", "close")
  /\ LeaveWrite(t, "udpToWS")
  /\ buf' = [buf EXCEPT ![t] = None]
  /\ UNCHANGED <<closeVars, envVars, upData, fromWG, wgSent, toWS>>

-----------------------------------------------------------------------------
(* Mutant: statsLoop does not select on the done channel.                  *)
StatsTicks(t) == Go(t, "statsLoop", "select", "select")

(* statsLoop only reads counters: what matters is that it ends.            *)
StatsDone(t) == done[t] /\ Go(t, "statsLoop", "select", "exit")

-----------------------------------------------------------------------------
(* gorilla/websocket panics when it notices that two calls of WriteMessage *)
(* overlap, which it need not, and which the slower one can notice after   *)
(* the other has returned.  The panic is not recovered: the process dies   *)
(* with all its tunnels, and a callback still in flight dies with it.      *)
Panic ==
  /\ up /\ \E t \in Tunnels : clash[t] = "now"
  /\ up' = FALSE
  /\ handler' = [t \in Tunnels |->
                   IF handler[t] = "idle" THEN "idle" ELSE "returned"]
  /\ pc' = [t \in Tunnels |-> [r \in Roles |-> "off"]]
  /\ wsOpen' = [t \in Tunnels |-> FALSE]
  /\ udpOpen' = [t \in Tunnels |-> FALSE]
  /\ activeConns' = 0
  /\ wire' = [t \in Tunnels |-> IF handler[t] = "idle" THEN wire[t] ELSE "broken"]
  /\ fromWG' = [t \in Tunnels |-> <<>>]
  /\ buf' = [t \in Tunnels |-> None]
  /\ clash' = [t \in Tunnels |-> IF clash[t] = "now" THEN "past" ELSE clash[t]]
  /\ UNCHANGED <<once, done, callback, udpErr, aged, upData, wgSent, toWS>>

(* systemd starts the process again.                                       *)
Restart ==
  /\ ~up
  /\ up' = TRUE
  /\ UNCHANGED <<handler, pc, closeVars, envVars, dataVars>>

-----------------------------------------------------------------------------
(* The environment: the client, WireGuard, the network and the clock.      *)

ClientSends(t) ==
  /\ handler[t] \in {"upgraded", "wait"} /\ wire[t] = "up"
  /\ sent[t] < MaxFrames /\ sent[t] + wgSent[t] < MaxTraffic
  /\ sent' = [sent EXCEPT ![t] = @ + 1]
  /\ c2s' = [c2s EXCEPT ![t] = Append(@, sent[t] + 1)]
  /\ UNCHANGED <<up, handler, pc, closeVars, envVars, toWG, downData>>

ClientControl(t) ==
  /\ handler[t] \in {"upgraded", "wait"} /\ wire[t] = "up"
  /\ Len(SelectSeq(c2s[t], LAMBDA f : f = Control)) < MaxControl
  /\ c2s' = [c2s EXCEPT ![t] = Append(@, Control)]
  /\ UNCHANGED <<up, handler, pc, closeVars, envVars, sent, toWG, downData>>

WGSends(t) ==
  /\ udpOpen[t]
  /\ wgSent[t] < MaxFrames /\ sent[t] + wgSent[t] < MaxTraffic
  /\ wgSent' = [wgSent EXCEPT ![t] = @ + 1]
  /\ fromWG' = [fromWG EXCEPT ![t] = Append(@, wgSent[t] + 1)]
  /\ UNCHANGED <<up, handler, pc, closeVars, envVars, upData, buf, clash, toWS>>

WireBreaks(t) ==
  /\ wsOpen[t] /\ wire[t] = "up"
  /\ wire' = [wire EXCEPT ![t] = "broken"]
  /\ UNCHANGED <<up, handler, pc, closeVars, udpErr, aged, dataVars>>

MaxAge(t) ==
  /\ handler[t] = "wait" /\ ~aged[t]
  /\ aged' = [aged EXCEPT ![t] = TRUE]
  /\ UNCHANGED <<up, handler, pc, closeVars, wire, udpErr, dataVars>>

-----------------------------------------------------------------------------
handleTunnel(t) == \/ Upgrade(t) \/ DialFails(t) \/ DialUDP(t)
                   \/ CountTunnel(t) \/ StartTunnel(t) \/ HandlerReturns(t)
pingLoop(t) == PingTick(t) \/ PingWritten(t) \/ PingFails(t) \/ PingDone(t)
wsToUDP(t)  == Forward(t) \/ SkipControl(t) \/ ReadFails(t)
udpToWS(t)  == \/ CheckDone(t) \/ UDPRead(t) \/ UDPTimeout(t) \/ UDPReadFails(t)
               \/ WSWritten(t) \/ WSWriteFails(t)

Server == \/ Panic \/ Restart
          \/ \E t \in Tunnels :
               \/ handleTunnel(t) \/ pingLoop(t) \/ wsToUDP(t) \/ udpToWS(t)
               \/ StatsDone(t) \/ \E r \in Closers : close(t, r)

Environment == \E t \in Tunnels :
  \/ ClientSends(t) \/ ClientControl(t) \/ WGSends(t)
  \/ WireBreaks(t) \/ MaxAge(t)

Next == Server \/ Environment

(* The Go scheduler runs every runnable goroutine and timers fire; select  *)
(* chooses uniformly among its ready cases, so a case that keeps being     *)
(* ready is chosen (strong fairness of PingDone).  Nothing is assumed of   *)
(* the client, of WireGuard or of the network.                             *)
Fairness ==
  /\ WF_vars(Restart)
  /\ \A t \in Tunnels :
       /\ WF_vars(DialFails(t) \/ DialUDP(t)) /\ WF_vars(CountTunnel(t))
       /\ WF_vars(StartTunnel(t)) /\ WF_vars(HandlerReturns(t))
       /\ WF_vars(PingWritten(t) \/ PingFails(t)) /\ SF_vars(PingDone(t))
       /\ WF_vars(wsToUDP(t)) /\ WF_vars(udpToWS(t))
       /\ WF_vars(StatsDone(t)) /\ WF_vars(MaxAge(t))
       /\ \A r \in Closers : WF_vars(close(t, r))

Spec == Init /\ [][Next]_vars /\ Fairness

-----------------------------------------------------------------------------
(* Properties *)

(* The variables keep their types; the gauge never goes below zero,        *)
(* however many goroutines enter close().                                  *)
TypeOK ==
  /\ up \in BOOLEAN
  /\ handler \in [Tunnels -> {"idle", "upgraded", "dialed", "counted", "wait", "returned"}]
  /\ pc \in [Tunnels -> [Roles -> PCs]]
  /\ once \in [Tunnels -> {"fresh", "running", "finished"}]
  /\ done \in [Tunnels -> BOOLEAN]
  /\ wsOpen \in [Tunnels -> BOOLEAN]
  /\ udpOpen \in [Tunnels -> BOOLEAN]
  /\ activeConns \in Nat
  /\ callback \in [Tunnels -> [Events -> {"none", "started"}]]
  /\ wire \in [Tunnels -> {"up", "broken"}]
  /\ udpErr \in [Tunnels -> BOOLEAN]
  /\ aged \in [Tunnels -> BOOLEAN]
  /\ c2s \in [Tunnels -> Seq(Nat)]
  /\ fromWG \in [Tunnels -> Seq(Nat)]
  /\ buf \in [Tunnels -> Nat]
  /\ sent \in [Tunnels -> Nat]
  /\ wgSent \in [Tunnels -> Nat]
  /\ clash \in [Tunnels -> {"none", "now", "past"}]
  /\ toWG \in [Tunnels -> Seq(Nat)]
  /\ toWS \in [Tunnels -> Seq(Nat)]

Running(t) == \E r \in Roles : pc[t][r] \notin {"off", "exit"}

(* A handler between the dial and the gauge, or a goroutine in close().    *)
Changing(t) == handler[t] = "dialed" \/ (once[t] = "running" /\ Running(t))

(* /healthz is off by no more than the tunnels that are just being opened  *)
(* or closed, and exact when there is none: however many goroutines of a   *)
(* tunnel run into close() and in whatever order, the gauge counts all the *)
(* UDP sockets held by the others.                                         *)
HealthExact ==
  LET held     == {t \in Tunnels : udpOpen[t] /\ ~Changing(t)}
      changing == {t \in Tunnels : Changing(t)} IN
    activeConns - Cardinality(held) \in 0..Cardinality(changing)

(* The manager is told "disconnected" only about a tunnel that released    *)
(* both sockets and of which "connected" was reported before.              *)
DisconnectedIsLast ==
  \A t \in Tunnels : callback[t]["disconnected"] # "none" =>
      /\ ~udpOpen[t] /\ ~wsOpen[t] /\ done[t]
      /\ callback[t]["connected"] # "none"

(* An idle but healthy tunnel stays up: a tunnel is torn down only after   *)
(* the wire broke, the UDP socket reported an error, or -max-age.          *)
ClosedForAReason ==
  \A t \in Tunnels : done[t] => wire[t] = "broken" \/ udpErr[t] \/ aged[t]

(* The tunnel as its two sides see it.                                     *)
Phase(t) == IF handler[t] \in {"idle", "upgraded", "dialed", "counted"} THEN "new"
            ELSE IF udpOpen[t] THEN "open"
            ELSE IF wsOpen[t] THEN "closing" ELSE "closed"

Channel == INSTANCE Bridge WITH
  Channels <- Tunnels, Watched <- Tokened,
  phase <- [t \in Tunnels |-> Phase(t)],
  mixed <- [t \in Tunnels |-> clash[t] # "none"],
  told  <- [t \in Tunnels |-> {e \in Events : callback[t][e] # "none"}]

(* The server implements Bridge: behind the goroutines, the once, the two  *)
(* sockets and their errors there is one channel per request that carries  *)
(* in order and without holes while it is open (toward the client: until   *)
(* two writes on its WebSocket overlap), is reported as ended only when    *)
(* nothing of it is left, and ends, at the latest by -max-age, whatever    *)
(* client, network and WireGuard do.                                       *)
BridgesInOrder == Channel!Spec

Drained(t) == ~Running(t) /\ ~wsOpen[t] /\ ~udpOpen[t]

(* Nobody is left behind: once the handler's wait is over, every goroutine *)
(* of the tunnel ends and both sockets are closed (or the process died).   *)
TunnelDrains == \A t \in Tunnels : done[t] ~> Drained(t)

(* gorilla/websocket "allows exactly one concurrent writer per connection" *)
(* (client/main.go:218): pingLoop and udpToWS must never both be inside    *)
(* WriteMessage on the same connection.                                    *)
SingleWriter == \A t \in Tunnels : Cardinality(Writing(t)) <= 1
=============================================================================
