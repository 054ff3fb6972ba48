---------------------------- MODULE ClientShovel ----------------------------
(***************************************************************************)
(* The client's shovel (client/main.go, runShovel and runOneTunnel): one   *)
(* WebSocket session after another carries the datagrams of the local      *)
(* WireGuard device, which all sessions read from the same UDP socket.     *)
(*                                                                         *)
(* A session runs three goroutines that matter: udpToWSS, wssToUDP (whose  *)
(* ping handler answers inside ReadMessage) and keepalive.  All three      *)
(* write to the WebSocket, through writeWS and its mutex writeMu.  Nothing *)
(* wakes a goroutine blocked in ReadFromUDP when its session ends.         *)
(*                                                                         *)
(* A datagram is its sequence number; Control is any frame but binary.     *)
(***************************************************************************)
EXTENDS Integers, Sequences, FiniteSets

CONSTANTS MaxSessions, \* bound: WebSocket sessions of one run
          Workloads    \* the bounds on the traffic of one run, as records:
(***************************************************************************)
(*   sessions  WebSocket sessions, at most MaxSessions                     *)
(*   up        datagrams the local WireGuard device emits                  *)
(*   down      datagrams the server sends, per session                     *)
(*   control   control frames in transit, per session                      *)
(*   ticks     the keepalive's ticker fires during the run                 *)
(***************************************************************************)

ASSUME ShovelBounds ==
  /\ MaxSessions \in Nat
  /\ Workloads \subseteq
       [sessions : 1..MaxSessions, up : Nat, down : Nat, control : Nat, ticks : BOOLEAN]

Sessions == 1..MaxSessions
Control  == 0
None     == 0
Roles    == {"udpToWSS", "wssToUDP", "keepalive"}

VARIABLES
  work,       \* the workload of this run, never changed
  ctx,        \* the shovel's context has been cancelled
  loop,       \* runShovel: "top", "dial", "backoff", "run" or "returned"
  cur,        \* number of the session being run, or of the last one
  connected,  \* the channel that tells runConnect of the first session
  udpOpen,    \* udpConn, closed by runConnect after the cancellation
  udpIn,      \* datagrams queued on udpConn
  emitted,    \* how many datagrams the local WireGuard device has emitted
  sub,        \* sub[s]: cancel() of session s has been called
  wsOpen,     \* wsOpen[s]: the WebSocket is open on our side
  wire,       \* environment: "up", or "broken" (peer gone, silent, reset)
  writeMu,    \* writeMu[s]: the goroutine that holds the mutex, or "free"
  pc,         \* pc[s][r]: where goroutine r of session s stands
  held,       \* held[s]: the datagram udpToWSS has read and not written
  inbound,    \* inbound[s]: the datagram wssToUDP has read and not delivered
  wgPeer,     \* wgPeer[s]: "nil", "stored" by udpToWSS, or also "received"
              \* from peerCh, and assigned, by wssToUDP
  peerCh,     \* peerCh[s]: the one-slot channel holds an address
  reason,     \* reason[s]: reasonBox; "none" until the first setf
  closedWith, \* closedWith[s]: what runOneTunnel returned
  s2c,        \* frames in transit from the server, per session
  downSent,   \* downSent[s]: how many datagrams the server sent on s
  forwarded,  \* history: datagrams written to the WebSocket of s
  lost,       \* history: datagrams read by udpToWSS of s and never sent
  delivered,  \* history: datagrams of s handed to the local device
  dropped     \* history: datagrams of s dropped for want of a peer

loopVars == <<work, ctx, loop, cur, connected, udpOpen, wire>>
sessVars == <<sub, wsOpen, reason, closedWith>>
upVars   == <<udpIn, emitted, held, forwarded, lost>>
downVars == <<s2c, downSent, inbound, delivered, dropped>>
peerVars == <<wgPeer, peerCh>>
vars == <<loopVars, sessVars, writeMu, pc, upVars, downVars, peerVars>>

Init ==
  /\ work \in Workloads
  /\ ctx = FALSE
  /\ loop = "top"
  /\ cur = 0
  /\ connected = FALSE
  /\ udpOpen = TRUE
  /\ udpIn = <<>>
  /\ emitted = 0
  /\ sub = [s \in Sessions |-> FALSE]
  /\ wsOpen = [s \in Sessions |-> FALSE]
  /\ wire = [s \in Sessions |-> "up"]
  /\ writeMu = [s \in Sessions |-> "free"]
  /\ pc = [s \in Sessions |-> [r \in Roles |-> "off"]]
  /\ held = [s \in Sessions |-> None]
  /\ inbound = [s \in Sessions |-> None]
  /\ wgPeer = [s \in Sessions |-> "nil"]
  /\ peerCh = [s \in Sessions |-> FALSE]
  /\ reason = [s \in Sessions |-> "none"]
  /\ closedWith = [s \in Sessions |-> "none"]
  /\ s2c = [s \in Sessions |-> <<>>]
  /\ downSent = [s \in Sessions |-> 0]
  /\ forwarded = [s \in Sessions |-> <<>>]
  /\ lost = [s \in Sessions |-> <<>>]
  /\ delivered = [s \in Sessions |-> <<>>]
  /\ dropped = [s \in Sessions |-> <<>>]

(* subCtx of s is done: cancelled itself, or through its parent.           *)
Done(s) == sub[s] \/ ctx

Move(s, r, from, to) ==
  /\ pc[s][r] = from
  /\ pc' = [pc EXCEPT ![s][r] = to]

(* A goroutine that only goes on to another point.                         *)
Go(s, r, from, to) ==
  /\ Move(s, r, from, to)
  /\ UNCHANGED <<loopVars, sessVars, writeMu, upVars, downVars, peerVars>>

-----------------------------------------------------------------------------
(* runShovel *)

Loop(from, to) ==
  /\ loop = from
  /\ loop' = to
  /\ UNCHANGED <<work, ctx, udpOpen, wire, reason, writeMu, upVars, downVars, peerVars>>

NotCancelled == ~ctx

LoopTop ==
  /\ Loop("top", IF NotCancelled THEN "dial" ELSE "returned")
  /\ UNCHANGED <<cur, connected, sub, wsOpen, closedWith, pc>>

DialFails ==
  /\ Loop("dial", "backoff")
  /\ UNCHANGED <<cur, connected, sub, wsOpen, closedWith, pc>>

(* Three seconds, or the cancellation.                                     *)
BackoffEnds ==
  /\ Loop("backoff", "top") \/ (ctx /\ Loop("backoff", "returned"))
  /\ UNCHANGED <<cur, connected, sub, wsOpen, closedWith, pc>>

(* The dial succeeds: runOneTunnel starts its goroutines.                  *)
StartSession ==
  /\ cur < work.sessions
  /\ Loop("dial", "run")
  /\ cur' = cur + 1
  /\ connected' = TRUE
  /\ wsOpen' = [wsOpen EXCEPT ![cur + 1] = TRUE]
  /\ pc' = [pc EXCEPT ![cur + 1] = [r \in Roles |->
              IF r = "keepalive" THEN "select" ELSE "read"]]
  /\ UNCHANGED <<sub, closedWith>>

(* Mutant: no deferred ws.Close().                                         *)
CloseForgotten(s) == UNCHANGED wsOpen

Close(s) == wsOpen' = [wsOpen EXCEPT ![s] = FALSE]

(* runOneTunnel returns: reason.get(), the deferred cancel() and Close().  *)
EndSession ==
  /\ Loop("run", "top") /\ Done(cur)
  /\ closedWith' = [closedWith EXCEPT ![cur] =
                      IF reason[cur] = "none" THEN "unknown" ELSE reason[cur]]
  /\ sub' = [sub EXCEPT ![cur] = TRUE]
  /\ Close(cur)
  /\ UNCHANGED <<cur, connected, pc>>

-----------------------------------------------------------------------------
(* writeWS: Lock, WriteMessage, Unlock.                                    *)

Lock(s, r) ==
  /\ writeMu[s] = "free"
  /\ writeMu' = [writeMu EXCEPT ![s] = r]
  /\ Move(s, r, "lock", "write")
  /\ UNCHANGED <<loopVars, sessVars, upVars, downVars, peerVars>>

(* WriteMessage succeeds, which on a broken wire it still may.             *)
Write(s) ==
  /\ wsOpen[s]
  /\ writeMu' = [writeMu EXCEPT ![s] = "free"]

WriteError(s) ==
  /\ ~wsOpen[s] \/ wire[s] = "broken"
  /\ writeMu' = [writeMu EXCEPT ![s] = "free"]

-----------------------------------------------------------------------------
(* How the two copying goroutines end: the first reason is kept (setf),    *)
(* then the deferred cancel() runs.                                        *)

(* Mutant: the loop goes on after the error.                               *)
FailGoesOn(s, r, from, why) ==
  /\ Move(s, r, from, "read")
  /\ UNCHANGED <<loopVars, sessVars>>

(* Mutant: the reason is not recorded.                                     *)
FailUnexplained(s, r, from, why) ==
  /\ Move(s, r, from, "cancel")
  /\ UNCHANGED <<loopVars, sessVars>>

(* Mutant: the goroutine returns without its deferred cancel().            *)
FailUncancelled(s, r, from, why) ==
  /\ Move(s, r, from, "exit")
  /\ UNCHANGED <<loopVars, sessVars>>

Fail(s, r, from, why) ==
  /\ Move(s, r, from, "cancel")
  /\ reason' = [reason EXCEPT ![s] = IF @ = "none" THEN why ELSE @]
  /\ UNCHANGED <<loopVars, sub, wsOpen, closedWith>>

Cancel(s, r) ==
  /\ Move(s, r, "cancel", "exit")
  /\ sub' = [sub EXCEPT ![s] = TRUE]
  /\ UNCHANGED <<loopVars, wsOpen, reason, closedWith, writeMu>>
  /\ UNCHANGED <<upVars, downVars, peerVars>>

-----------------------------------------------------------------------------
(* UDP -> WSS *)

(* Any session's goroutine may get the next datagram.  The first one that  *)
(* this goroutine gets tells it the peer, which it publishes in two steps  *)
(* before it writes the datagram.                                          *)
ReadFromUDP(s) ==
  /\ udpOpen /\ udpIn # <<>>
  /\ Move(s, "udpToWSS", "read", IF wgPeer[s] = "nil" THEN "store" ELSE "lock")
  /\ held' = [held EXCEPT ![s] = Head(udpIn)]
  /\ udpIn' = Tail(udpIn)
  /\ UNCHANGED <<loopVars, sessVars, writeMu, emitted, forwarded, lost, downVars, peerVars>>

(* The socket was closed, or the OS reports an error.                      *)
ReadFromUDPFails(s) ==
  /\ Fail(s, "udpToWSS", "read", "udp read")
  /\ UNCHANGED <<writeMu, upVars, downVars, peerVars>>

StorePeer(s) ==
  /\ Move(s, "udpToWSS", "store", "send")
  /\ wgPeer' = [wgPeer EXCEPT ![s] = "stored"]
  /\ UNCHANGED <<loopVars, sessVars, writeMu, upVars, downVars, peerCh>>

(* Mutant: without its one slot the channel has room for the address only  *)
(* while the other goroutine waits for it.                                 *)
SendPeerUnbuffered(s) ==
  /\ Move(s, "udpToWSS", "send", "lock")
  /\ peerCh' = [peerCh EXCEPT ![s] = @ \/ pc[s]["wssToUDP"] = "peer"]
  /\ UNCHANGED <<loopVars, sessVars, writeMu, upVars, downVars, wgPeer>>

SendPeer(s) ==
  /\ Move(s, "udpToWSS", "send", "lock")
  /\ peerCh' = [peerCh EXCEPT ![s] = TRUE]
  /\ UNCHANGED <<loopVars, sessVars, writeMu, upVars, downVars, wgPeer>>

ForwardUp(s) ==
  /\ Move(s, "udpToWSS", "write", "read")
  /\ Write(s)
  /\ forwarded' = [forwarded EXCEPT ![s] = Append(@, held[s])]
  /\ held' = [held EXCEPT ![s] = None]
  /\ UNCHANGED <<loopVars, sessVars, udpIn, emitted, lost, downVars, peerVars>>

ForwardUpFails(s) ==
  /\ WriteError(s)
  /\ Fail(s, "udpToWSS", "write", "wss write")
  /\ lost' = [lost EXCEPT ![s] = Append(@, held[s])]
  /\ held' = [held EXCEPT ![s] = None]
  /\ UNCHANGED <<udpIn, emitted, forwarded, downVars, peerVars>>

-----------------------------------------------------------------------------
(* WSS -> UDP *)

(* Mutant: every frame is taken for a datagram.                            *)
BinaryOrNot(f) == TRUE

Binary(f) == f # Control

(* The message ReadMessage returns.                                        *)
Receive(s) ==
  /\ wsOpen[s] /\ s2c[s] # <<>>
  /\ s2c' = [s2c EXCEPT ![s] = Tail(@)]
  /\ UNCHANGED <<loopVars, sessVars, writeMu, upVars, peerVars>>
  /\ UNCHANGED <<downSent, delivered, dropped>>

(* A control frame: the read deadline moves, and a ping is answered with a *)
(* pong written by this same goroutine.                                    *)
ReadControl(s) ==
  /\ Receive(s) /\ ~Binary(Head(s2c[s]))
  /\ \E to \in {"read", "lock"} : Move(s, "wssToUDP", "read", to)
  /\ UNCHANGED inbound

Pong(s) ==
  /\ Move(s, "wssToUDP", "write", "read")
  /\ Write(s)
  /\ UNCHANGED <<loopVars, sessVars, upVars, downVars, peerVars>>

(* The ping handler's error is ReadMessage's error.                        *)
PongFails(s) ==
  /\ WriteError(s)
  /\ Fail(s, "wssToUDP", "write", "wss read")
  /\ UNCHANGED <<upVars, downVars, peerVars>>

(* wgPeer is read without synchronisation: until this goroutine has the    *)
(* address from peerCh it may or may not see the other's assignment.       *)
ReadBinary(s) ==
  /\ Receive(s) /\ Binary(Head(s2c[s]))
  /\ inbound' = [inbound EXCEPT ![s] = Head(s2c[s])]
  /\ \/ wgPeer[s] # "nil" /\ Move(s, "wssToUDP", "read", "deliver")
     \/ wgPeer[s] # "received" /\ Move(s, "wssToUDP", "read", "peer")

(* The peer is gone, this side closed the socket, or neither ping nor pong *)
(* moved the 90 s read deadline: silence is a broken wire here.            *)
ReadFails(s) ==
  /\ ~wsOpen[s] \/ wire[s] = "broken"
  /\ Fail(s, "wssToUDP", "read", "wss read")
  /\ UNCHANGED <<writeMu, upVars, downVars, peerVars>>

PeerKnown(s) ==
  /\ peerCh[s]
  /\ Move(s, "wssToUDP", "peer", "deliver")
  /\ peerCh' = [peerCh EXCEPT ![s] = FALSE]
  /\ wgPeer' = [wgPeer EXCEPT ![s] = "received"]
  /\ UNCHANGED <<loopVars, sessVars, writeMu, upVars, downVars>>

(* wssToUDP is done with the datagram it has read.                         *)
Consume(s) ==
  /\ inbound' = [inbound EXCEPT ![s] = None]
  /\ UNCHANGED <<writeMu, upVars, peerVars, s2c, downSent>>

PeerWaitCancelled(s) ==
  /\ Done(s)
  /\ Move(s, "wssToUDP", "peer", "cancel")
  /\ Consume(s)
  /\ UNCHANGED <<loopVars, sessVars, delivered, dropped>>

(* Thirty seconds have passed; select may choose this case although the    *)
(* address has arrived too.                                                *)
PeerTimeout(s) ==
  /\ Move(s, "wssToUDP", "peer", "read")
  /\ dropped' = [dropped EXCEPT ![s] = Append(@, inbound[s])]
  /\ Consume(s)
  /\ UNCHANGED <<loopVars, sessVars, delivered>>

Deliver(s) ==
  /\ udpOpen
  /\ Move(s, "wssToUDP", "deliver", "read")
  /\ delivered' = [delivered EXCEPT ![s] = Append(@, inbound[s])]
  /\ Consume(s)
  /\ UNCHANGED <<loopVars, sessVars, dropped>>

(* The socket was closed, or the OS reports an error.                      *)
DeliverFails(s) ==
  /\ Fail(s, "wssToUDP", "deliver", "udp write")
  /\ Consume(s)
  /\ UNCHANGED <<delivered, dropped>>

-----------------------------------------------------------------------------
(* keepalive: its failure ends nothing but itself.                         *)

(* Mutant: the keepalive calls ws.WriteMessage directly.                   *)
KeepaliveTickUnlocked(s) == work.ticks /\ Go(s, "keepalive", "select", "write")

KeepaliveTick(s) == work.ticks /\ Go(s, "keepalive", "select", "lock")

KeepaliveWritten(s) ==
  /\ Move(s, "keepalive", "write", "select")
  /\ Write(s)
  /\ UNCHANGED <<loopVars, sessVars, upVars, downVars, peerVars>>

KeepaliveFails(s) ==
  /\ Move(s, "keepalive", "write", "exit")
  /\ WriteError(s)
  /\ UNCHANGED <<loopVars, sessVars, upVars, downVars, peerVars>>

KeepaliveDone(s) == Done(s) /\ Go(s, "keepalive", "select", "exit")

-----------------------------------------------------------------------------
(* The environment: runConnect, the local device, the server, the network. *)

CancelCtx ==
  /\ ~ctx
  /\ ctx' = TRUE
  /\ UNCHANGED <<work, loop, cur, connected, udpOpen, wire, sessVars, writeMu, pc>>
  /\ UNCHANGED <<upVars, downVars, peerVars>>

(* runConnect closes udpConn once the context is done; it does not wait    *)
(* for the shovel.                                                         *)
CloseUDP ==
  /\ ctx /\ udpOpen
  /\ udpOpen' = FALSE
  /\ udpIn' = <<>>
  /\ UNCHANGED <<work, ctx, loop, cur, connected, wire, sessVars, writeMu, pc>>
  /\ UNCHANGED <<emitted, held, forwarded, lost, downVars, peerVars>>

WGEmits ==
  /\ udpOpen /\ emitted < work.up
  /\ emitted' = emitted + 1
  /\ udpIn' = Append(udpIn, emitted + 1)
  /\ UNCHANGED <<loopVars, sessVars, writeMu, pc, held>>
  /\ UNCHANGED <<forwarded, lost, downVars, peerVars>>

WireBreaks(s) ==
  /\ s <= cur /\ wire[s] = "up"
  /\ wire' = [wire EXCEPT ![s] = "broken"]
  /\ UNCHANGED <<work, ctx, loop, cur, connected, udpOpen, sessVars, writeMu, pc>>
  /\ UNCHANGED <<upVars, downVars, peerVars>>

(* The server puts a frame on the connection of s.                         *)
Arrives(s, f) ==
  /\ s <= cur /\ wire[s] = "up"
  /\ s2c' = [s2c EXCEPT ![s] = Append(@, f)]
  /\ UNCHANGED <<loopVars, sessVars, writeMu, pc, upVars, peerVars>>
  /\ UNCHANGED <<inbound, delivered, dropped>>

ServerSends(s) ==
  /\ downSent[s] < work.down
  /\ downSent' = [downSent EXCEPT ![s] = @ + 1]
  /\ Arrives(s, downSent[s] + 1)

ServerControl(s) ==
  /\ Len(SelectSeq(s2c[s], LAMBDA f : f = Control)) < work.control
  /\ Arrives(s, Control)
  /\ UNCHANGED downSent

-----------------------------------------------------------------------------
runShovel == LoopTop \/ DialFails \/ BackoffEnds \/ StartSession \/ EndSession
udpToWSS(s) == \/ ReadFromUDP(s) \/ ReadFromUDPFails(s) \/ StorePeer(s)
               \/ SendPeer(s) \/ Lock(s, "udpToWSS") \/ ForwardUp(s) \/ ForwardUpFails(s) \/ Cancel(s, "udpToWSS")
wssToUDP(s) == \/ ReadControl(s) \/ ReadBinary(s) \/ ReadFails(s)
               \/ Lock(s, "wssToUDP") \/ Pong(s) \/ PongFails(s)
               \/ PeerKnown(s) \/ PeerWaitCancelled(s) \/ PeerTimeout(s)
               \/ Deliver(s) \/ DeliverFails(s) \/ Cancel(s, "wssToUDP")
keepalive(s) == \/ KeepaliveTick(s) \/ Lock(s, "keepalive")
                \/ KeepaliveWritten(s) \/ KeepaliveFails(s) \/ KeepaliveDone(s)

Client == runShovel \/ \E s \in Sessions :
                         udpToWSS(s) \/ wssToUDP(s) \/ keepalive(s)

Environment ==
  \/ CancelCtx \/ CloseUDP \/ WGEmits
  \/ \E s \in Sessions : \/ WireBreaks(s) \/ ServerSends(s)
                         \/ ServerControl(s)

Next == Client \/ Environment

(* The Go scheduler runs every runnable goroutine, a dial ends within its  *)
(* timeout, and sync.Mutex starves nobody (strong fairness of Lock, which  *)
(* only wssToUDP needs: the others' writes end with the socket).           *)
(* runConnect closes the UDP socket after a cancellation.  Nothing is      *)
(* assumed of the server, of the network or of the local device.           *)
Fairness ==
  /\ WF_vars(LoopTop) /\ WF_vars(DialFails \/ StartSession)
  /\ WF_vars(BackoffEnds) /\ WF_vars(EndSession) /\ WF_vars(CloseUDP)
  /\ \A s \in Sessions :
       /\ WF_vars(udpToWSS(s)) /\ WF_vars(wssToUDP(s)) /\ WF_vars(keepalive(s))
       /\ SF_vars(Lock(s, "wssToUDP"))

Spec == Init /\ [][Next]_vars /\ Fairness

-----------------------------------------------------------------------------
(* Properties *)

Reasons == {"udp read", "udp write", "wss read", "wss write"}
PCs == {"off", "read", "store", "send", "select", "lock", "write", "peer",
        "deliver", "cancel", "exit"}

(* The variables keep their types; an empty buffer (None) is never queued, *)
(* written or delivered as if it were a datagram.                          *)
TypeOK ==
  /\ {ctx, connected, udpOpen} \subseteq BOOLEAN
  /\ loop \in {"top", "dial", "backoff", "run", "returned"}
  /\ work \in Workloads /\ cur \in 0..work.sessions
  /\ udpIn \in Seq(1..work.up) /\ emitted \in 0..work.up
  /\ sub \in [Sessions -> BOOLEAN] /\ wsOpen \in [Sessions -> BOOLEAN]
  /\ wire \in [Sessions -> {"up", "broken"}]
  /\ writeMu \in [Sessions -> Roles \union {"free"}]
  /\ pc \in [Sessions -> [Roles -> PCs]]
  /\ held \in [Sessions -> 0..work.up] /\ inbound \in [Sessions -> 0..work.down]
  /\ wgPeer \in [Sessions -> {"nil", "stored", "received"}]
  /\ peerCh \in [Sessions -> BOOLEAN]
  /\ reason \in [Sessions -> Reasons \union {"none"}]
  /\ closedWith \in [Sessions -> Reasons \union {"none", "unknown"}]
  /\ s2c \in [Sessions -> Seq(0..work.down)]
  /\ downSent \in [Sessions -> 0..work.down]
  /\ forwarded \in [Sessions -> Seq(1..work.up)]
  /\ lost \in [Sessions -> Seq(1..work.up)]
  /\ delivered \in [Sessions -> Seq(1..work.down)]
  /\ dropped \in [Sessions -> Seq(1..work.down)]

(* At most one goroutine of a session is inside WriteMessage, whichever of *)
(* PING, PONG and BINARY meet, also while the session is being torn down.  *)
OneWriter == \A s \in Sessions :
  \A r \in Roles : pc[s][r] = "write" <=> writeMu[s] = r

(* The copies of an outbound datagram: queued, in a goroutine's buffer,    *)
(* written to some session, or lost by some session.                       *)
Copies(d) ==
  {<<"udpIn", 0, i>> : i \in {j \in DOMAIN udpIn : udpIn[j] = d}} \union
  {<<"held", s, 0>> : s \in {x \in Sessions : held[x] = d}} \union
  UNION {{<<"forwarded", s, i>> :
            i \in {j \in DOMAIN forwarded[s] : forwarded[s][j] = d}} \union
         {<<"lost", s, i>> : i \in {j \in DOMAIN lost[s] : lost[s][j] = d}}
         : s \in Sessions}

(* However many goroutines of old and new sessions read the shared socket, *)
(* no outbound datagram is duplicated, and none vanishes while the socket  *)
(* is open but the one a session holds when its write fails: its goroutine *)
(* reads no other afterwards, so that a stale one cannot starve the        *)
(* sessions that follow.  Order is kept in a session.                      *)
StaleLosesOne ==
  /\ \A d \in 1..emitted : /\ Cardinality(Copies(d)) <= 1
                           /\ udpOpen => Copies(d) # {}
  /\ \A s \in Sessions :
       /\ Len(lost[s]) <= 1
       /\ lost[s] # <<>> => pc[s]["udpToWSS"] \in {"cancel", "exit"}
       /\ \A i, j \in DOMAIN forwarded[s] : i < j => forwarded[s][i] < forwarded[s][j]

(* A session that ended by itself always says why: "unknown" is only ever  *)
(* returned after an outside cancellation.                                 *)
ReasonKnown == \A s \in Sessions :
  /\ closedWith[s] = "unknown" => ctx
  /\ sub[s] /\ ~ctx => reason[s] # "none"

(* However the two goroutines meet around the unsynchronised wgPeer, which *)
(* wssToUDP may see as nil after it was stored: once udpToWSS has gone on  *)
(* from publishing the address, wssToUDP never waits for it in vain.  It   *)
(* finds it in the channel, and inbound datagrams are not held back for    *)
(* thirty seconds and dropped for want of a peer that has been seen.       *)
PeerAtHand ==
  \A s \in Sessions :
    pc[s]["wssToUDP"] = "peer" /\ wgPeer[s] # "nil" /\ pc[s]["udpToWSS"] # "send"
      => peerCh[s]

(* A session whose connection is dead ends: either reader notices.         *)
BrokenSessionEnds ==
  (loop = "run" /\ wire[cur] = "broken") ~> (loop # "run")

(* A cancelled shovel returns, even when it is cancelled during a dial;    *)
(* and once runConnect has closed the UDP socket no goroutine of any       *)
(* session is left, the stale ones included.                               *)
ShutdownIsComplete ==
  /\ ctx ~> loop = "returned"
  /\ ~udpOpen ~> \A s \in Sessions : \A r \in Roles : pc[s][r] \in {"off", "exit"}
=============================================================================
