------------------------- MODULE ClientShovelProofs -------------------------
(***************************************************************************)
(* Proofs about ClientShovel, for any number of sessions and any traffic:  *)
(* the variables keep their types, one goroutine of a session writes at a  *)
(* time, a session that ended says why, nobody waits in vain for a peer    *)
(* that is known, and a stale goroutine loses one datagram at most.        *)
(***************************************************************************)
EXTENDS ClientShovel, FiniteSetTheorems, SequenceTheorems, TLAPS

(* A session that has not started has no goroutine, and a goroutine has a  *)
(* datagram in hand exactly at the points between reading and writing it.  *)
Hands(s) ==
  /\ s > cur => \A r \in Roles : pc[s][r] = "off"
  /\ pc[s]["udpToWSS"] \in {"store", "send", "lock", "write"} <=> held[s] # None
  /\ pc[s]["wssToUDP"] \in {"peer", "deliver"} <=> inbound[s] # None

(* The mutex is held exactly around WriteMessage.                          *)
Mutex(s) == \A r \in Roles : pc[s][r] = "write" <=> writeMu[s] = r

(* Whoever cancels a session has said why, or was cancelled from outside.  *)
Explained(s) ==
  /\ \A r \in Roles : pc[s][r] = "cancel" => reason[s] # "none" \/ ctx
  /\ sub[s] => reason[s] # "none" \/ ctx
  /\ closedWith[s] = "unknown" => ctx

(* The address goes through the channel once, after it has been stored;    *)
(* who has received it does not wait again.                                *)
Peer(s) ==
  /\ pc[s]["udpToWSS"] = "store" => wgPeer[s] = "nil"
  /\ pc[s]["udpToWSS"] = "send" => wgPeer[s] = "stored" /\ ~peerCh[s]
  /\ wgPeer[s] = "nil" => ~peerCh[s]
  /\ wgPeer[s] = "stored" /\ pc[s]["udpToWSS"] # "send" => peerCh[s]
  /\ wgPeer[s] = "received" => pc[s]["wssToUDP"] # "peer"

(* udpToWSS ends with the datagram it loses.                               *)
Ends(s) == /\ Len(lost[s]) <= 1
           /\ lost[s] # <<>> => pc[s]["udpToWSS"] \in {"cancel", "exit"}

Local(s) == Hands(s) /\ Mutex(s) /\ Explained(s) /\ Peer(s) /\ Ends(s)

Running == loop = "run" => cur \in Sessions

-----------------------------------------------------------------------------
(* What the bounds of a run are.                                           *)
LEMMA WorkBounds ==
  ASSUME TypeOK
  PROVE  /\ work \in Workloads /\ MaxSessions \in Nat
         /\ work.up \in Nat /\ work.down \in Nat /\ work.control \in Nat
         /\ work.sessions \in 1..MaxSessions
BY ShovelBounds DEF TypeOK

(* The step leaves every session but s alone, and the run as it is.        *)
Only(s) ==
  /\ UNCHANGED <<work, ctx, loop, cur, udpOpen>>
  /\ \A u \in Sessions \ {s} :
       /\ pc'[u] = pc[u] /\ held'[u] = held[u] /\ inbound'[u] = inbound[u]
       /\ writeMu'[u] = writeMu[u] /\ reason'[u] = reason[u] /\ sub'[u] = sub[u]
       /\ closedWith'[u] = closedWith[u] /\ wgPeer'[u] = wgPeer[u]
       /\ peerCh'[u] = peerCh[u] /\ forwarded'[u] = forwarded[u]
       /\ lost'[u] = lost[u] /\ dropped'[u] = dropped[u]

Acts(s) == \/ udpToWSS(s) \/ wssToUDP(s) \/ keepalive(s)
           \/ WireBreaks(s) \/ ServerSends(s) \/ ServerControl(s)

(* The sessions share the run and the UDP socket, nothing else.            *)
LEMMA ActsAlone == ASSUME TypeOK, NEW s \in Sessions, Acts(s) PROVE Only(s)
<1> USE DEF TypeOK, Only, Move, Go, Fail, Lock, loopVars, sessVars, upVars, downVars,
            peerVars
<1>1. CASE udpToWSS(s)
  <2>1. CASE ReadFromUDP(s)
      BY <2>1 DEF ReadFromUDP
  <2>7. CASE StorePeer(s)
      BY <2>7 DEF StorePeer
  <2>8. CASE SendPeer(s)
      BY <2>8 DEF SendPeer
  <2>2. CASE ForwardUp(s)
      BY <2>2 DEF ForwardUp, Write
  <2>3. CASE ReadFromUDPFails(s)
      BY <2>3 DEF ReadFromUDPFails
  <2>4. CASE ForwardUpFails(s)
      BY <2>4 DEF ForwardUpFails, WriteError
  <2>5. CASE Lock(s, "udpToWSS") \/ Cancel(s, "udpToWSS")
      BY <2>5 DEF Cancel
  <2>6. QED
      BY <1>1, <2>1, <2>2, <2>3, <2>4, <2>5, <2>7, <2>8 DEF udpToWSS
<1>2. CASE ReadControl(s) \/ ReadBinary(s)
  <2>1. CASE ReadControl(s)
      BY <2>1 DEF ReadControl, Receive
  <2>2. CASE ReadBinary(s)
      BY <2>2 DEF ReadBinary, Receive
  <2>3. QED
      BY <1>2, <2>1, <2>2
<1>3. CASE ReadFails(s) \/ Lock(s, "wssToUDP") \/ Pong(s) \/ PongFails(s)
           \/ Cancel(s, "wssToUDP")
  <2>1. CASE ReadFails(s) \/ Pong(s)
      BY <2>1 DEF ReadFails, Pong, Write
  <2>2. CASE PongFails(s)
      BY <2>2 DEF PongFails, WriteError
  <2>3. CASE Lock(s, "wssToUDP") \/ Cancel(s, "wssToUDP")
      BY <2>3 DEF Cancel
  <2>4. QED
      BY <1>3, <2>1, <2>2, <2>3
<1>4. CASE \/ PeerKnown(s) \/ PeerWaitCancelled(s) \/ PeerTimeout(s)
           \/ Deliver(s) \/ DeliverFails(s)
  <2>1. CASE PeerKnown(s)
      BY <2>1 DEF PeerKnown
  <2>2. CASE PeerWaitCancelled(s)
      BY <2>2 DEF PeerWaitCancelled, Consume
  <2>3. CASE PeerTimeout(s)
      BY <2>3 DEF PeerTimeout, Consume
  <2>4. CASE Deliver(s)
      BY <2>4 DEF Deliver, Consume
  <2>5. CASE DeliverFails(s)
      BY <2>5 DEF DeliverFails, Consume
  <2>6. QED
      BY <1>4, <2>1, <2>2, <2>3, <2>4, <2>5
<1>5. CASE keepalive(s)
    BY <1>5 DEF keepalive, KeepaliveTick, KeepaliveWritten, KeepaliveFails, KeepaliveDone,
                Write, WriteError
<1>6. CASE WireBreaks(s) \/ ServerSends(s) \/ ServerControl(s)
    BY <1>6 DEF WireBreaks, ServerSends, ServerControl, Arrives
<1>7. QED
    BY <1>1, <1>2, <1>3, <1>4, <1>5, <1>6 DEF Acts, wssToUDP

(* The points a goroutine moves between.                                   *)
LEMMA MovePoints ==
  ASSUME TypeOK, NEW s \in Sessions, NEW r \in Roles, NEW from, NEW to,
         Move(s, r, from, to)
  PROVE  /\ pc[s][r] = from /\ pc'[s][r] = to
         /\ \A q \in Roles \ {r} : pc'[s][q] = pc[s][q]
         /\ to \in PCs => pc' \in [Sessions -> [Roles -> PCs]]
BY DEF TypeOK, Move

-----------------------------------------------------------------------------
(* Types *)

(* A function that changes at one point keeps its type.                    *)
LEMMA Updated ==
  ASSUME NEW D, NEW T, NEW f \in [D -> T], NEW d \in D, NEW v \in T
  PROVE  [f EXCEPT ![d] = v] \in [D -> T]
OBVIOUS

(* A goroutine's step inside a session keeps the types.                    *)
LEMMA ActsTypes == ASSUME TypeOK, NEW s \in Sessions, Hands(s), Acts(s) PROVE TypeOK'
<1>w. work.up \in Nat /\ work.down \in Nat
    BY WorkBounds
<1>z. 0 \in 0..work.up /\ 0 \in 0..work.down
    BY <1>w
<1>r. Roles = {"udpToWSS", "wssToUDP", "keepalive"} /\ "free" \notin Roles
    BY DEF Roles
<1>p. ASSUME NEW r \in Roles, NEW from, NEW to \in PCs, Move(s, r, from, to)
      PROVE  pc' \in [Sessions -> [Roles -> PCs]]
    BY <1>p, MovePoints
<1>q. \A x : x \in PCs <=> x \in {"off", "read", "store", "send", "select", "lock",
                                  "write", "peer", "deliver", "cancel", "exit"}
    BY DEF PCs
<1> USE DEF TypeOK, loopVars, sessVars, upVars, downVars, peerVars
<1>f. ASSUME NEW r \in Roles, NEW from, NEW why \in Reasons, Fail(s, r, from, why)
      PROVE  /\ pc' \in [Sessions -> [Roles -> PCs]]
             /\ reason' \in [Sessions -> Reasons \union {"none"}]
             /\ UNCHANGED <<loopVars, sub, wsOpen, closedWith>>
    BY <1>f, <1>p, <1>q DEF Fail
<1>g. {"udp read", "udp write", "wss read", "wss write"} \subseteq Reasons
    BY DEF Reasons
<1>1. CASE ReadFromUDP(s)
  <2>1. udpIn \in Seq(1..work.up) /\ udpIn # <<>>
      BY <1>1 DEF ReadFromUDP
  <2>2. Head(udpIn) \in 1..work.up /\ Tail(udpIn) \in Seq(1..work.up)
      BY <2>1, HeadTailProperties
  <2>3. pc' \in [Sessions -> [Roles -> PCs]]
      BY <1>1, <1>p, <1>q, <1>r DEF ReadFromUDP
  <2>4. held' \in [Sessions -> 0..work.up] /\ udpIn' \in Seq(1..work.up)
      BY <1>1, <1>w, <2>2 DEF ReadFromUDP
  <2>5. QED
      BY <1>1, <2>3, <2>4 DEF ReadFromUDP
<1>16. CASE StorePeer(s)
  <2>1. pc' \in [Sessions -> [Roles -> PCs]]
      BY <1>16, <1>p, <1>q, <1>r DEF StorePeer
  <2>2. wgPeer' \in [Sessions -> {"nil", "stored", "received"}]
      BY <1>16 DEF StorePeer
  <2>3. QED
      BY <1>16, <2>1, <2>2 DEF StorePeer
<1>17. CASE SendPeer(s)
  <2>1. pc' \in [Sessions -> [Roles -> PCs]]
      BY <1>17, <1>p, <1>q, <1>r DEF SendPeer
  <2>2. peerCh' \in [Sessions -> BOOLEAN]
      BY <1>17 DEF SendPeer
  <2>3. QED
      BY <1>17, <2>1, <2>2 DEF SendPeer
<1>2. CASE ReadFromUDPFails(s)
    BY <1>2, <1>f, <1>g, <1>r DEF ReadFromUDPFails
<1>3. CASE ForwardUp(s) \/ ForwardUpFails(s)
  <2>1. held[s] \in 1..work.up /\ forwarded[s] \in Seq(1..work.up)
        /\ lost[s] \in Seq(1..work.up)
    <3>1. pc[s]["udpToWSS"] = "write"
        BY <1>3, <1>r DEF ForwardUp, ForwardUpFails, Fail, Move
    <3>2. held[s] # 0 /\ held[s] \in 0..work.up
        BY <3>1 DEF Hands, None
    <3>3. QED
        BY <1>w, <3>2
  <2>2. Append(forwarded[s], held[s]) \in Seq(1..work.up)
        /\ Append(lost[s], held[s]) \in Seq(1..work.up)
      BY <2>1
  <2>3. /\ forwarded' \in [Sessions -> Seq(1..work.up)]
        /\ lost' \in [Sessions -> Seq(1..work.up)]
        /\ held' \in [Sessions -> 0..work.up]
    <3>0. /\ forwarded \in [Sessions -> Seq(1..work.up)]
          /\ lost \in [Sessions -> Seq(1..work.up)]
          /\ held \in [Sessions -> 0..work.up]
        OBVIOUS
    <3>1. 0 \in 0..work.up /\ held' = [held EXCEPT ![s] = 0]
        BY <1>3, <1>z DEF ForwardUp, ForwardUpFails, None
    <3>2. /\ \/ forwarded' = forwarded
             \/ forwarded' = [forwarded EXCEPT ![s] = Append(forwarded[s], held[s])]
          /\ \/ lost' = lost
             \/ lost' = [lost EXCEPT ![s] = Append(lost[s], held[s])]
        BY <1>3 DEF ForwardUp, ForwardUpFails
    <3> HIDE DEF TypeOK, loopVars, sessVars, upVars, downVars, peerVars
    <3>3. forwarded' \in [Sessions -> Seq(1..work.up)]
        BY <2>1, <2>2, <3>0, <3>2, Updated
    <3>4. lost' \in [Sessions -> Seq(1..work.up)]
        BY <2>1, <2>2, <3>0, <3>2, Updated
    <3>5. QED
        BY <3>0, <3>1, <3>3, <3>4, Updated
  <2>4. writeMu' \in [Sessions -> Roles \union {"free"}]
      BY <1>3 DEF ForwardUp, ForwardUpFails, Write, WriteError
  <2>5. CASE ForwardUp(s)
    <3>1. pc' \in [Sessions -> [Roles -> PCs]]
        BY <2>5, <1>p, <1>q, <1>r DEF ForwardUp
    <3>2. QED
        BY <2>3, <2>4, <2>5, <3>1 DEF ForwardUp
  <2>6. CASE ForwardUpFails(s)
      BY <1>f, <1>g, <1>r, <2>3, <2>4, <2>6 DEF ForwardUpFails
  <2>7. QED
      BY <1>3, <2>5, <2>6
<1>4. ASSUME NEW r \in Roles, Lock(s, r) PROVE TypeOK'
  <2>1. pc' \in [Sessions -> [Roles -> PCs]]
      BY <1>4, <1>p, <1>q DEF Lock
  <2>2. QED
      BY <1>4, <2>1 DEF Lock
<1>5. ASSUME NEW r \in Roles, Cancel(s, r) PROVE TypeOK'
  <2>1. pc' \in [Sessions -> [Roles -> PCs]]
      BY <1>5, <1>p, <1>q DEF Cancel
  <2>2. QED
      BY <1>5, <2>1 DEF Cancel
<1>6. CASE ReadControl(s) \/ ReadBinary(s)
  <2>1. s2c[s] \in Seq(0..work.down) /\ s2c[s] # <<>>
      BY <1>6 DEF ReadControl, ReadBinary, Receive
  <2>2. Head(s2c[s]) \in 0..work.down /\ Tail(s2c[s]) \in Seq(0..work.down)
      BY <2>1, HeadTailProperties
  <2>3. pc' \in [Sessions -> [Roles -> PCs]]
      BY <1>6, <1>p, <1>q, <1>r DEF ReadControl, ReadBinary
  <2>4. inbound' \in [Sessions -> 0..work.down]
      BY <1>6, <2>2 DEF ReadControl, ReadBinary
  <2>5. s2c' \in [Sessions -> Seq(0..work.down)]
    <3>1. /\ s2c' = [s2c EXCEPT ![s] = Tail(s2c[s])]
          /\ s2c \in [Sessions -> Seq(0..work.down)]
        BY <1>6 DEF ReadControl, ReadBinary, Receive
    <3> HIDE DEF TypeOK, loopVars, sessVars, upVars, downVars, peerVars
    <3>2. QED
        BY <2>2, <3>1, Updated
  <2>6. /\ UNCHANGED <<loopVars, sessVars, writeMu, upVars, peerVars>>
        /\ UNCHANGED <<downSent, delivered, dropped>>
      BY <1>6 DEF ReadControl, ReadBinary, Receive
  <2>7. QED
      BY <2>3, <2>4, <2>5, <2>6
<1>7. CASE Pong(s) \/ KeepaliveWritten(s) \/ KeepaliveFails(s)
  <2>1. pc' \in [Sessions -> [Roles -> PCs]]
      BY <1>7, <1>p, <1>q, <1>r DEF Pong, KeepaliveWritten, KeepaliveFails
  <2>2. writeMu' \in [Sessions -> Roles \union {"free"}]
      BY <1>7 DEF Pong, KeepaliveWritten, KeepaliveFails, Write, WriteError
  <2>3. QED
      BY <1>7, <2>1, <2>2 DEF Pong, KeepaliveWritten, KeepaliveFails
<1>8. CASE PongFails(s)
    BY <1>8, <1>f, <1>g, <1>r DEF PongFails, WriteError
<1>9. CASE ReadFails(s)
    BY <1>9, <1>f, <1>g, <1>r DEF ReadFails
<1>10. CASE PeerKnown(s)
  <2>1. pc' \in [Sessions -> [Roles -> PCs]]
      BY <1>10, <1>p, <1>q, <1>r DEF PeerKnown
  <2>2. QED
      BY <1>10, <2>1 DEF PeerKnown
<1>11. CASE PeerWaitCancelled(s) \/ PeerTimeout(s) \/ Deliver(s) \/ DeliverFails(s)
  <2>1. inbound[s] \in 1..work.down
    <3>1. pc[s]["wssToUDP"] \in {"peer", "deliver"}
        BY <1>11, <1>r DEF PeerWaitCancelled, PeerTimeout, Deliver, DeliverFails, Fail, Move
    <3>2. inbound[s] # 0 /\ inbound[s] \in 0..work.down
        BY <3>1 DEF Hands, None
    <3>3. QED
        BY <1>w, <3>2
  <2>2. /\ inbound' \in [Sessions -> 0..work.down]
        /\ UNCHANGED <<writeMu, upVars, peerVars, s2c, downSent>>
    <3>1. Consume(s)
        BY <1>11 DEF PeerWaitCancelled, PeerTimeout, Deliver, DeliverFails
    <3>2. QED
        BY <1>z, <3>1 DEF Consume, None
  <2>3. CASE PeerWaitCancelled(s)
    <3>1. pc' \in [Sessions -> [Roles -> PCs]]
        BY <2>3, <1>p, <1>q, <1>r DEF PeerWaitCancelled
    <3>2. QED
        BY <2>2, <2>3, <3>1 DEF PeerWaitCancelled
  <2>4. CASE PeerTimeout(s)
    <3>1. pc' \in [Sessions -> [Roles -> PCs]]
        BY <2>4, <1>p, <1>q, <1>r DEF PeerTimeout
    <3>2. Append(dropped[s], inbound[s]) \in Seq(1..work.down)
        BY <2>1
    <3>3. dropped' \in [Sessions -> Seq(1..work.down)]
        BY <2>4, <3>2 DEF PeerTimeout
    <3>4. QED
        BY <2>2, <2>4, <3>1, <3>3 DEF PeerTimeout
  <2>5. CASE Deliver(s)
    <3>1. pc' \in [Sessions -> [Roles -> PCs]]
        BY <2>5, <1>p, <1>q, <1>r DEF Deliver
    <3>2. Append(delivered[s], inbound[s]) \in Seq(1..work.down)
        BY <2>1
    <3>3. delivered' \in [Sessions -> Seq(1..work.down)]
        BY <2>5, <3>2 DEF Deliver
    <3>4. QED
        BY <2>2, <2>5, <3>1, <3>3 DEF Deliver
  <2>6. CASE DeliverFails(s)
      BY <2>2, <2>6, <1>f, <1>g, <1>r DEF DeliverFails
  <2>7. QED
      BY <1>11, <2>3, <2>4, <2>5, <2>6
<1>12. CASE KeepaliveTick(s) \/ KeepaliveDone(s)
  <2>1. pc' \in [Sessions -> [Roles -> PCs]]
      BY <1>12, <1>p, <1>q, <1>r DEF KeepaliveTick, KeepaliveDone, Go
  <2>2. QED
      BY <1>12, <2>1 DEF KeepaliveTick, KeepaliveDone, Go
<1>13. CASE WireBreaks(s)
    BY <1>13 DEF WireBreaks
<1>14. CASE ServerSends(s) \/ ServerControl(s)
  <2>1. PICK f \in 0..work.down : Arrives(s, f)
      BY <1>14, <1>w DEF ServerSends, ServerControl, Control
  <2>2. Append(s2c[s], f) \in Seq(0..work.down)
      BY <2>1
  <2>3. s2c' \in [Sessions -> Seq(0..work.down)]
      BY <2>1, <2>2 DEF Arrives
  <2>4. downSent' \in [Sessions -> 0..work.down]
    <3>0. downSent[s] \in 0..work.down
        OBVIOUS
    <3>1. downSent[s] < work.down => downSent[s] + 1 \in 0..work.down
      <4> HIDE DEF TypeOK, loopVars, sessVars, upVars, downVars, peerVars
      <4>1. QED
          BY <1>w, <3>0
    <3>2. \/ downSent' = downSent
          \/ /\ downSent[s] < work.down
             /\ downSent' = [downSent EXCEPT ![s] = downSent[s] + 1]
        BY <1>14 DEF ServerSends, ServerControl
    <3>3. QED
        BY <3>1, <3>2
  <2>5. QED
      BY <2>1, <2>3, <2>4 DEF Arrives
<1>15. QED
    BY <1>r, <1>1, <1>2, <1>3, <1>4, <1>5, <1>6, <1>7, <1>8, <1>9, <1>10, <1>11, <1>12,
       <1>13, <1>14, <1>16, <1>17
    DEF Acts, udpToWSS, wssToUDP, keepalive

RunActs == runShovel \/ CancelCtx \/ CloseUDP \/ WGEmits

(* So do the shovel's loop and what happens around it.                     *)
LEMMA RunTypes == ASSUME TypeOK, Running, RunActs PROVE TypeOK' /\ Running'
<1>w. work.up \in Nat /\ work.sessions \in 1..MaxSessions /\ MaxSessions \in Nat
    BY WorkBounds
<1> USE DEF TypeOK, Running, loopVars, sessVars, upVars, downVars, peerVars, Loop
<1>1. CASE LoopTop \/ DialFails \/ BackoffEnds
    BY <1>1 DEF LoopTop, DialFails, BackoffEnds
<1>2. CASE StartSession
  <2>1. cur' \in 0..work.sessions /\ cur' \in Sessions /\ cur' = cur + 1
    <3>1. cur \in 0..work.sessions /\ cur < work.sessions /\ cur' = cur + 1
        BY <1>2 DEF StartSession
    <3>2. cur \in Nat /\ work.sessions \in Nat /\ work.sessions <= MaxSessions
        BY <1>w, <3>1
    <3>3. cur + 1 \in 0..work.sessions /\ cur + 1 \in 1..MaxSessions
        BY <1>w, <3>1, <3>2
    <3>4. QED
        BY <3>1, <3>3 DEF Sessions
  <2>2. pc' \in [Sessions -> [Roles -> PCs]]
      BY <1>2, <2>1 DEF StartSession, PCs
  <2>3. QED
      BY <1>2, <2>1, <2>2 DEF StartSession
<1>3. CASE EndSession
  <2>1. cur \in Sessions
      BY <1>3 DEF EndSession
  <2>2. closedWith' \in [Sessions -> Reasons \union {"none", "unknown"}]
      BY <1>3, <2>1 DEF EndSession
  <2>3. sub' \in [Sessions -> BOOLEAN] /\ wsOpen' \in [Sessions -> BOOLEAN]
      BY <1>3, <2>1 DEF EndSession, Close
  <2>4. QED
      BY <1>3, <2>2, <2>3 DEF EndSession
<1>4. CASE CancelCtx
    BY <1>4 DEF CancelCtx
<1>5. CASE CloseUDP
  <2>1. udpIn' \in Seq(1..work.up)
      BY <1>5 DEF CloseUDP
  <2>2. {ctx', connected', udpOpen'} \subseteq BOOLEAN
      BY <1>5 DEF CloseUDP
  <2>3. QED
      BY <1>5, <2>1, <2>2 DEF CloseUDP
<1>6. CASE WGEmits
  <2>1. emitted + 1 \in 1..work.up
      BY <1>6, <1>w DEF WGEmits
  <2>2. Append(udpIn, emitted + 1) \in Seq(1..work.up)
      BY <2>1
  <2>3. QED
      BY <1>6, <1>w, <2>1, <2>2 DEF WGEmits
<1>7. QED
    BY <1>1, <1>2, <1>3, <1>4, <1>5, <1>6 DEF RunActs, runShovel

-----------------------------------------------------------------------------
(* What holds of a session *)

(* The session whose goroutine moves.                                      *)
LEMMA ActsLocal == ASSUME TypeOK, NEW s \in Sessions, Local(s), Acts(s) PROVE Local(s)'
<1>r. Roles = {"udpToWSS", "wssToUDP", "keepalive"} /\ "free" \notin Roles
    BY DEF Roles
<1>t. /\ held[s] \in Nat /\ inbound[s] \in Nat /\ lost[s] \in Seq(Nat)
      /\ forwarded[s] \in Seq(Nat) /\ writeMu[s] \in Roles \union {"free"}
  <2>1. work.up \in Nat /\ work.down \in Nat
      BY WorkBounds
  <2>2. held[s] \in 0..work.up /\ inbound[s] \in 0..work.down
        /\ lost[s] \in Seq(1..work.up) /\ forwarded[s] \in Seq(1..work.up)
        /\ writeMu[s] \in Roles \union {"free"}
      BY DEF TypeOK
  <2>3. QED
      BY <2>1, <2>2
<1>m. ASSUME NEW r \in Roles, NEW from, NEW to, Move(s, r, from, to)
      PROVE  /\ pc[s][r] = from /\ pc'[s][r] = to
             /\ \A q \in Roles \ {r} : pc'[s][q] = pc[s][q]
    BY <1>m, MovePoints
<1>o. ctx' = ctx /\ cur' = cur
    BY ActsAlone DEF Only
<1>h. s > cur => \A r \in Roles : pc[s][r] = "off"
    BY DEF Local, Hands
<1>f. ASSUME NEW r \in Roles, NEW from, NEW why \in Reasons, Fail(s, r, from, why)
      PROVE  /\ pc[s][r] = from /\ pc'[s][r] = "cancel"
             /\ \A q \in Roles \ {r} : pc'[s][q] = pc[s][q]
             /\ reason'[s] # "none" /\ sub' = sub /\ closedWith' = closedWith
  <2>1. Move(s, r, from, "cancel")
      BY <1>f DEF Fail
  <2>2. reason'[s] # "none" /\ sub' = sub /\ closedWith' = closedWith
      BY <1>f DEF Fail, Reasons, TypeOK
  <2>3. QED
      BY <1>m, <2>1, <2>2
<1>g. {"udp read", "udp write", "wss read", "wss write"} \subseteq Reasons
    BY DEF Reasons
<1> USE DEF sessVars, upVars, downVars, peerVars, Local, Hands, Mutex, Explained, Peer,
            Ends, None
<1>1. CASE ReadFromUDP(s)
  <2>1. /\ Move(s, "udpToWSS", "read", IF wgPeer[s] = "nil" THEN "store" ELSE "lock")
        /\ UNCHANGED <<sessVars, writeMu, forwarded, lost, downVars, peerVars>>
      BY <1>1 DEF ReadFromUDP
  <2>2. held'[s] # 0
    <3>1. Head(udpIn) \in 1..work.up
        BY <1>1, HeadTailProperties DEF ReadFromUDP, TypeOK
    <3>2. held'[s] = Head(udpIn)
        BY <1>1 DEF ReadFromUDP, TypeOK
    <3>3. QED
        BY <3>1, <3>2, WorkBounds
  <2>3. /\ pc[s]["udpToWSS"] = "read"
        /\ pc'[s]["udpToWSS"] = IF wgPeer[s] = "nil" THEN "store" ELSE "lock"
        /\ \A q \in Roles \ {"udpToWSS"} : pc'[s][q] = pc[s][q]
      BY <1>r, <1>m, <2>1
  <2>4. QED
      BY <1>r, <1>o, <1>h, <2>1, <2>2, <2>3
<1>19. CASE StorePeer(s)
  <2>1. /\ Move(s, "udpToWSS", "store", "send") /\ wgPeer'[s] = "stored"
        /\ UNCHANGED <<sessVars, writeMu, upVars, downVars, peerCh>>
      BY <1>19 DEF StorePeer, TypeOK
  <2>2. QED
      BY <1>r, <1>m, <1>o, <1>h, <2>1
<1>20. CASE SendPeer(s)
  <2>1. /\ Move(s, "udpToWSS", "send", "lock") /\ peerCh'[s] /\ wgPeer'[s] = wgPeer[s]
        /\ UNCHANGED <<sessVars, writeMu, upVars, downVars>>
      BY <1>20 DEF SendPeer, TypeOK
  <2>2. QED
      BY <1>r, <1>m, <1>o, <1>h, <2>1
<1>2. CASE ReadFromUDPFails(s)
  <2>1. /\ Fail(s, "udpToWSS", "read", "udp read")
        /\ UNCHANGED <<writeMu, upVars, downVars, peerVars>>
      BY <1>2 DEF ReadFromUDPFails
  <2>2. /\ pc[s]["udpToWSS"] = "read" /\ pc'[s]["udpToWSS"] = "cancel"
        /\ \A q \in Roles \ {"udpToWSS"} : pc'[s][q] = pc[s][q]
        /\ reason'[s] # "none" /\ sub' = sub /\ closedWith' = closedWith
      BY <1>r, <1>f, <1>g, <2>1
  <2>3. QED
      BY <1>r, <1>o, <1>h, <2>1, <2>2
<1>3. CASE ForwardUp(s)
  <2>1. /\ Move(s, "udpToWSS", "write", "read") /\ held'[s] = 0 /\ writeMu'[s] = "free"
        /\ UNCHANGED <<sessVars, lost, downVars, peerVars>>
      BY <1>3 DEF ForwardUp, Write, TypeOK
  <2>2. QED
      BY <1>r, <1>m, <1>o, <1>h, <2>1
<1>4. CASE ForwardUpFails(s)
  <2>1. /\ Fail(s, "udpToWSS", "write", "wss write") /\ held'[s] = 0
        /\ writeMu'[s] = "free" /\ lost'[s] = Append(lost[s], held[s])
        /\ UNCHANGED <<forwarded, downVars, peerVars>>
      BY <1>4 DEF ForwardUpFails, WriteError, TypeOK
  <2>2. /\ pc[s]["udpToWSS"] = "write" /\ pc'[s]["udpToWSS"] = "cancel"
        /\ \A q \in Roles \ {"udpToWSS"} : pc'[s][q] = pc[s][q]
        /\ reason'[s] # "none" /\ sub' = sub /\ closedWith' = closedWith
      BY <1>r, <1>f, <1>g, <2>1
  <2>3. Len(lost'[s]) = 1
    <3>1. lost[s] = <<>>
        BY <2>2
    <3>2. lost'[s] = Append(<<>>, held[s])
        BY <2>1, <3>1
    <3>3. QED
        BY <1>t, <3>2
  <2>4. held[s] # 0
      BY <2>2
  <2>5. inbound' = inbound /\ wgPeer' = wgPeer /\ peerCh' = peerCh
      BY <2>1
  <2>6. Hands(s)' /\ Mutex(s)'
      BY <1>r, <1>o, <1>h, <2>1, <2>2, <2>5
  <2>7. Explained(s)'
      BY <1>r, <1>o, <2>2
  <2>8. Peer(s)' /\ Ends(s)'
      BY <1>r, <2>2, <2>3, <2>4, <2>5
  <2>9. QED
      BY <2>6, <2>7, <2>8
<1>5. ASSUME NEW r \in Roles, Lock(s, r) PROVE Local(s)'
  <2>1. /\ Move(s, r, "lock", "write") /\ writeMu[s] = "free" /\ writeMu'[s] = r
        /\ UNCHANGED <<sessVars, upVars, downVars, peerVars>>
      BY <1>5 DEF Lock, TypeOK
  <2>2. QED
      BY <1>r, <1>m, <1>o, <1>h, <2>1
<1>6. ASSUME NEW r \in Roles, Cancel(s, r) PROVE Local(s)'
  <2>1. /\ Move(s, r, "cancel", "exit") /\ reason' = reason /\ closedWith' = closedWith
        /\ UNCHANGED <<writeMu, upVars, downVars, peerVars>>
      BY <1>6 DEF Cancel
  <2>2. QED
      BY <1>r, <1>m, <1>o, <1>h, <2>1
<1>7. CASE ReadControl(s)
  <2>1. PICK to \in {"read", "lock"} : Move(s, "wssToUDP", "read", to)
      BY <1>7 DEF ReadControl
  <2>2. UNCHANGED <<inbound, sessVars, writeMu, upVars, peerVars, dropped>>
      BY <1>7 DEF ReadControl, Receive
  <2>3. QED
      BY <1>r, <1>m, <1>o, <1>h, <2>1, <2>2
<1>8. CASE ReadBinary(s)
  <2>1. PICK to \in {"deliver", "peer"} : /\ Move(s, "wssToUDP", "read", to)
                                          /\ to = "peer" => wgPeer[s] # "received"
      BY <1>8 DEF ReadBinary
  <2>2. /\ UNCHANGED <<sessVars, writeMu, upVars, peerVars, dropped>>
        /\ inbound'[s] # 0
      BY <1>8 DEF ReadBinary, Receive, Binary, Control, TypeOK
  <2>3. QED
      BY <1>r, <1>m, <1>o, <1>h, <2>1, <2>2
<1>9. CASE ReadFails(s)
  <2>1. /\ Fail(s, "wssToUDP", "read", "wss read")
        /\ UNCHANGED <<writeMu, upVars, downVars, peerVars>>
      BY <1>9 DEF ReadFails
  <2>2. /\ pc[s]["wssToUDP"] = "read" /\ pc'[s]["wssToUDP"] = "cancel"
        /\ \A q \in Roles \ {"wssToUDP"} : pc'[s][q] = pc[s][q]
        /\ reason'[s] # "none" /\ sub' = sub /\ closedWith' = closedWith
      BY <1>r, <1>f, <1>g, <2>1
  <2>3. QED
      BY <1>r, <1>o, <1>h, <2>1, <2>2
<1>10. CASE Pong(s)
  <2>1. /\ Move(s, "wssToUDP", "write", "read") /\ writeMu'[s] = "free"
        /\ UNCHANGED <<sessVars, upVars, downVars, peerVars>>
      BY <1>10 DEF Pong, Write, TypeOK
  <2>2. QED
      BY <1>r, <1>m, <1>o, <1>h, <2>1
<1>11. CASE PongFails(s)
  <2>1. /\ Fail(s, "wssToUDP", "write", "wss read") /\ writeMu'[s] = "free"
        /\ UNCHANGED <<upVars, downVars, peerVars>>
      BY <1>11 DEF PongFails, WriteError, TypeOK
  <2>2. /\ pc[s]["wssToUDP"] = "write" /\ pc'[s]["wssToUDP"] = "cancel"
        /\ \A q \in Roles \ {"wssToUDP"} : pc'[s][q] = pc[s][q]
        /\ reason'[s] # "none" /\ sub' = sub /\ closedWith' = closedWith
      BY <1>r, <1>f, <1>g, <2>1
  <2>3. QED
      BY <1>r, <1>o, <1>h, <2>1, <2>2
<1>12. CASE PeerKnown(s)
  <2>1. /\ Move(s, "wssToUDP", "peer", "deliver") /\ wgPeer'[s] = "received"
        /\ peerCh[s] /\ UNCHANGED <<sessVars, writeMu, upVars, downVars>>
      BY <1>12 DEF PeerKnown, TypeOK
  <2>2. pc[s]["udpToWSS"] \notin {"store", "send"}
      BY <2>1
  <2>3. QED
      BY <1>r, <1>m, <1>o, <1>h, <2>1, <2>2
<1>13. CASE PeerWaitCancelled(s) \/ PeerTimeout(s) \/ Deliver(s)
  <2>1. PICK from \in {"peer", "deliver"}, to \in {"read", "cancel"} :
               /\ Move(s, "wssToUDP", from, to)
               /\ to = "cancel" => Done(s)
      BY <1>13 DEF PeerWaitCancelled, PeerTimeout, Deliver
  <2>2. UNCHANGED <<sessVars, writeMu, upVars, peerVars>> /\ inbound'[s] = 0
      BY <1>13 DEF PeerWaitCancelled, PeerTimeout, Deliver, Consume, TypeOK
  <2>3. QED
      BY <1>r, <1>m, <1>o, <1>h, <2>1, <2>2 DEF Done
<1>14. CASE DeliverFails(s)
  <2>1. /\ Fail(s, "wssToUDP", "deliver", "udp write") /\ inbound'[s] = 0
        /\ UNCHANGED <<writeMu, upVars, peerVars>>
      BY <1>14 DEF DeliverFails, Consume, TypeOK
  <2>2. /\ pc[s]["wssToUDP"] = "deliver" /\ pc'[s]["wssToUDP"] = "cancel"
        /\ \A q \in Roles \ {"wssToUDP"} : pc'[s][q] = pc[s][q]
        /\ reason'[s] # "none" /\ sub' = sub /\ closedWith' = closedWith
      BY <1>r, <1>f, <1>g, <2>1
  <2>3. Hands(s)'
      BY <1>r, <1>o, <1>h, <2>1, <2>2
  <2>4. Mutex(s)'
      BY <1>r, <2>1, <2>2
  <2>5. Explained(s)'
      BY <1>r, <1>o, <2>1, <2>2
  <2>6. Peer(s)' /\ Ends(s)'
      BY <1>r, <2>1, <2>2
  <2>7. QED
      BY <2>3, <2>4, <2>5, <2>6
<1>15. CASE KeepaliveTick(s) \/ KeepaliveDone(s)
  <2>1. PICK to \in {"lock", "exit"} : Move(s, "keepalive", "select", to)
      BY <1>15 DEF KeepaliveTick, KeepaliveDone, Go
  <2>2. UNCHANGED <<sessVars, writeMu, upVars, downVars, peerVars>>
      BY <1>15 DEF KeepaliveTick, KeepaliveDone, Go
  <2>3. QED
      BY <1>r, <1>m, <1>o, <1>h, <2>1, <2>2
<1>16. CASE KeepaliveWritten(s) \/ KeepaliveFails(s)
  <2>1. PICK to \in {"select", "exit"} : Move(s, "keepalive", "write", to)
      BY <1>16 DEF KeepaliveWritten, KeepaliveFails
  <2>2. /\ UNCHANGED <<sessVars, upVars, downVars, peerVars>>
        /\ writeMu'[s] = "free"
      BY <1>16 DEF KeepaliveWritten, KeepaliveFails, Write, WriteError, TypeOK
  <2>3. QED
      BY <1>r, <1>m, <1>o, <1>h, <2>1, <2>2
<1>17. CASE WireBreaks(s) \/ ServerSends(s) \/ ServerControl(s)
  <2>1. UNCHANGED <<sessVars, writeMu, pc, upVars, peerVars, inbound>>
      BY <1>17 DEF WireBreaks, ServerSends, ServerControl, Arrives
  <2>2. QED
      BY <1>o, <2>1
<1>18. QED
    BY <1>r, <1>1, <1>2, <1>3, <1>4, <1>5, <1>6, <1>7, <1>8, <1>9, <1>10, <1>11, <1>12,
       <1>13, <1>14, <1>15, <1>16, <1>17, <1>19, <1>20
    DEF Acts, udpToWSS, wssToUDP, keepalive

(* The others.                                                             *)
LEMMA OthersLocal ==
  ASSUME NEW s \in Sessions, Only(s), NEW u \in Sessions \ {s}, Local(u) PROVE Local(u)'
BY DEF Only, Local, Hands, Mutex, Explained, Peer, Ends

(* The shovel's loop: a session starts with its goroutines where they      *)
(* begin, and ends cancelled.                                              *)
LEMMA RunLocal ==
  ASSUME TypeOK, Running, RunActs, NEW s \in Sessions, Local(s) PROVE Local(s)'
<1> USE DEF sessVars, upVars, downVars, peerVars, Local, Hands, Mutex, Explained, Peer,
            Ends, Loop
<1>c. cur \in Nat
    BY WorkBounds DEF TypeOK
<1>1. CASE LoopTop \/ DialFails \/ BackoffEnds
    BY <1>1 DEF LoopTop, DialFails, BackoffEnds
<1>2. CASE StartSession
  <2>1. /\ cur' = cur + 1 /\ UNCHANGED <<ctx, reason, sub, closedWith, writeMu, inbound,
                                         held, wgPeer, peerCh, forwarded, lost>>
      BY <1>2 DEF StartSession
  <2>2. CASE s = cur + 1
    <3>1. s > cur /\ ~(s > cur')
        BY <1>c, <2>1, <2>2
    <3>2. pc'[s] = [r \in Roles |-> IF r = "keepalive" THEN "select" ELSE "read"]
        BY <1>2, <2>2 DEF StartSession, TypeOK
    <3>3. QED
        BY <2>1, <3>1, <3>2 DEF Roles
  <2>3. CASE s # cur + 1
    <3>1. pc'[s] = pc[s]
        BY <1>2, <2>3 DEF StartSession, TypeOK
    <3>2. s > cur' => s > cur
        BY <1>c, <2>1 DEF Sessions
    <3>3. QED
        BY <2>1, <3>1, <3>2
  <2>4. QED
      BY <2>2, <2>3
<1>3. CASE EndSession
  <2>1. /\ cur \in Sessions /\ loop = "run" /\ Done(cur)
        /\ UNCHANGED <<ctx, cur, pc, reason, writeMu, inbound, held, wgPeer, peerCh,
                       forwarded, lost>>
      BY <1>3 DEF EndSession, Running
  <2>2. CASE s = cur
    <3>1. closedWith'[s] = IF reason[s] = "none" THEN "unknown" ELSE reason[s]
        BY <1>3, <2>1, <2>2 DEF EndSession, TypeOK
    <3>2. reason[s] # "none" \/ ctx
        BY <2>1, <2>2 DEF Done
    <3>3. reason[s] \in Reasons \union {"none"}
        BY DEF TypeOK
    <3>4. closedWith'[s] = "unknown" => ctx
        BY <3>1, <3>2, <3>3 DEF Reasons
    <3>5. QED
        BY <2>1, <3>2, <3>4
  <2>3. CASE s # cur
      BY <1>3, <2>1, <2>3 DEF EndSession, TypeOK
  <2>4. QED
      BY <2>2, <2>3
<1>4. CASE CancelCtx
    BY <1>4 DEF CancelCtx
<1>5. CASE CloseUDP \/ WGEmits
    BY <1>5 DEF CloseUDP, WGEmits, loopVars
<1>6. QED
    BY <1>1, <1>2, <1>3, <1>4, <1>5 DEF RunActs, runShovel

-----------------------------------------------------------------------------
(* Where a datagram is *)

(* How many datagrams have been taken off the UDP socket.                  *)
Taken == emitted - Len(udpIn)

(* The socket's queue continues what has been taken.                       *)
Queue == /\ Len(udpIn) <= emitted
         /\ \A i \in 1..Len(udpIn) : udpIn[i] = Taken + i

(* Datagram d has come to session s.                                       *)
Has(s, d) == \/ held[s] = d
             \/ \E i \in 1..Len(forwarded[s]) : forwarded[s][i] = d
             \/ \E i \in 1..Len(lost[s]) : lost[s][i] = d

(* A session deals with its datagrams in order.                            *)
InTurn(s) ==
  /\ \A i, j \in 1..Len(forwarded[s]) : i < j => forwarded[s][i] < forwarded[s][j]
  /\ \A i \in 1..Len(forwarded[s]) :
       /\ held[s] # None => forwarded[s][i] < held[s]
       /\ \A j \in 1..Len(lost[s]) : forwarded[s][i] < lost[s][j]

(* A datagram that was taken came to one session, and while the socket is  *)
(* open every one that was taken did.                                      *)
Apart ==
  /\ \A s \in Sessions : \A d \in Nat \ {None} : Has(s, d) => d <= Taken
  /\ \A s, u \in Sessions : \A d \in Nat \ {None} : Has(s, d) /\ Has(u, d) => s = u
  /\ udpOpen => \A d \in Nat \ {None} : d <= Taken => \E s \in Sessions : Has(s, d)

LEMMA UpTypes ==
  ASSUME TypeOK
  PROVE  /\ udpIn \in Seq(Nat) /\ emitted \in Nat /\ Len(udpIn) \in Nat
         /\ \A s \in Sessions :
              /\ held[s] \in Nat /\ forwarded[s] \in Seq(Nat) /\ lost[s] \in Seq(Nat)
              /\ Len(forwarded[s]) \in Nat /\ Len(lost[s]) \in Nat
<1>1. work.up \in Nat
    BY WorkBounds
<1>2. udpIn \in Seq(1..work.up) /\ emitted \in 0..work.up
    BY DEF TypeOK
<1>3. \A s \in Sessions : /\ held[s] \in 0..work.up /\ forwarded[s] \in Seq(1..work.up)
                          /\ lost[s] \in Seq(1..work.up)
    BY DEF TypeOK
<1>4. 0..work.up \subseteq Nat /\ 1..work.up \subseteq Nat
    BY <1>1
<1>5. ASSUME NEW q \in Seq(1..work.up) PROVE q \in Seq(Nat) /\ Len(q) \in Nat
  <2>1. q \in Seq(Nat)
      BY <1>4, SeqMonotonic
  <2>2. QED
      BY <2>1
<1>6. QED
    BY <1>2, <1>3, <1>4, <1>5

(* The front of a queue.                                                   *)
LEMMA Front ==
  ASSUME NEW q \in Seq(Nat), q # <<>>
  PROVE  /\ Len(q) \in Nat /\ Len(q) >= 1 /\ Head(q) = q[1]
         /\ Tail(q) \in Seq(Nat) /\ Len(Tail(q)) = Len(q) - 1
         /\ \A i \in 1..Len(q) - 1 : Tail(q)[i] = q[i + 1]
OBVIOUS

(* An element that is added comes last.                                    *)
LEMMA Added ==
  ASSUME NEW q \in Seq(Nat), NEW x \in Nat
  PROVE  /\ Append(q, x) \in Seq(Nat) /\ Len(Append(q, x)) = Len(q) + 1
         /\ Append(q, x)[Len(q) + 1] = x
         /\ \A i \in 1..Len(q) : Append(q, x)[i] = q[i]
         /\ \A i \in 1..Len(q) + 1 : i \in 1..Len(q) \/ i = Len(q) + 1
OBVIOUS

(* Reading takes the next datagram, writing it or losing it keeps it.      *)
LEMMA HasSteps ==
  ASSUME TypeOK, TypeOK', NEW s \in Sessions, Local(s), Local(s)', InTurn(s), Queue,
         \A d \in Nat \ {None} : Has(s, d) => d <= Taken, Acts(s)
  PROVE  /\ InTurn(s)' /\ Queue'
         /\ \/ /\ Taken' = Taken
               /\ \A d \in Nat \ {None} : Has(s, d)' <=> Has(s, d)
            \/ /\ Taken' = Taken + 1
               /\ \A d \in Nat \ {None} : Has(s, d)' <=> Has(s, d) \/ d = Taken + 1
<1>t. /\ udpIn \in Seq(Nat) /\ emitted \in Nat /\ Len(udpIn) \in Nat
      /\ held[s] \in Nat /\ forwarded[s] \in Seq(Nat) /\ lost[s] \in Seq(Nat)
      /\ Len(forwarded[s]) \in Nat /\ Len(lost[s]) \in Nat
    BY UpTypes
<1>b. Taken \in Int
    BY <1>t DEF Taken
<1>r. Roles = {"udpToWSS", "wssToUDP", "keepalive"}
    BY DEF Roles
<1>1. CASE ReadFromUDP(s)
  <2>1. /\ udpIn # <<>> /\ udpIn' = Tail(udpIn) /\ emitted' = emitted
        /\ forwarded' = forwarded /\ lost' = lost
      BY <1>1 DEF ReadFromUDP
  <2>2. held'[s] = Head(udpIn)
      BY <1>1 DEF ReadFromUDP, TypeOK
  <2>3. held[s] = None /\ pc[s]["udpToWSS"] = "read"
      BY <1>1, <1>r, MovePoints DEF ReadFromUDP, Local, Hands
  <2>4. lost[s] = <<>>
      BY <2>3 DEF Local, Ends
  <2>5. /\ Len(udpIn') = Len(udpIn) - 1 /\ Head(udpIn) = udpIn[1] /\ Len(udpIn) >= 1
        /\ \A i \in 1..Len(udpIn) - 1 : udpIn'[i] = udpIn[i + 1]
      BY <1>t, <2>1, Front
  <2>6. Taken' = Taken + 1
      BY <1>t, <2>1, <2>5 DEF Taken
  <2>7. held'[s] = Taken + 1 /\ Taken + 1 \in Nat \ {None}
    <3>1. held'[s] = Taken + 1
        BY <1>t, <2>2, <2>5 DEF Queue
    <3>2. Taken >= 0
        BY <1>t DEF Queue, Taken
    <3>3. QED
        BY <1>b, <3>1, <3>2 DEF None
  <2>8. Queue'
    <3>1. Len(udpIn') <= emitted'
        BY <1>t, <2>1, <2>5 DEF Queue
    <3>2. ASSUME NEW i \in 1..Len(udpIn') PROVE udpIn'[i] = Taken' + i
      <4>1. i \in 1..Len(udpIn) - 1 /\ i + 1 \in 1..Len(udpIn)
          BY <1>t, <2>5
      <4>2. udpIn'[i] = udpIn[i + 1] /\ udpIn[i + 1] = Taken + (i + 1)
          BY <2>5, <4>1 DEF Queue
      <4>3. QED
          BY <1>b, <2>6, <4>1, <4>2
    <3>3. QED
        BY <3>1, <3>2 DEF Queue
  <2>9. \A d \in Nat \ {None} : Has(s, d)' <=> Has(s, d) \/ d = Taken + 1
      BY <2>1, <2>3, <2>7 DEF Has
  <2>10. InTurn(s)'
    <3>1. ASSUME NEW i \in 1..Len(forwarded[s]) PROVE forwarded[s][i] < held'[s]
      <4>1. forwarded[s][i] \in Nat
          BY <1>t
      <4>2. forwarded[s][i] # None => forwarded[s][i] <= Taken
          BY <4>1 DEF Has
      <4>3. QED
          BY <1>b, <2>7, <4>1, <4>2 DEF None
    <3>2. 1..Len(lost[s]) = {}
        BY <2>4
    <3>3. QED
        BY <2>1, <3>1, <3>2 DEF InTurn
  <2>11. QED
      BY <2>6, <2>8, <2>9, <2>10
<1>2. CASE ForwardUp(s)
  <2>1. /\ UNCHANGED <<udpIn, emitted, lost>>
        /\ forwarded'[s] = Append(forwarded[s], held[s]) /\ held'[s] = None
      BY <1>2 DEF ForwardUp, TypeOK
  <2>2. held[s] # None /\ pc[s]["udpToWSS"] = "write"
      BY <1>2, <1>r, MovePoints DEF ForwardUp, Local, Hands
  <2>3. 1..Len(lost[s]) = {}
    <3>1. lost[s] = <<>>
        BY <2>2 DEF Local, Ends
    <3>2. QED
        BY <3>1
  <2>4. /\ Len(forwarded'[s]) = Len(forwarded[s]) + 1
        /\ forwarded'[s][Len(forwarded[s]) + 1] = held[s]
        /\ \A i \in 1..Len(forwarded[s]) : forwarded'[s][i] = forwarded[s][i]
        /\ \A i \in 1..Len(forwarded[s]) + 1 : \/ i \in 1..Len(forwarded[s])
                                               \/ i = Len(forwarded[s]) + 1
      BY <1>t, <2>1, Added
  <2>5. InTurn(s)'
    <3>1. ASSUME NEW i \in 1..Len(forwarded'[s]), NEW j \in 1..Len(forwarded'[s]), i < j
          PROVE  forwarded'[s][i] < forwarded'[s][j]
      <4>1. i \in 1..Len(forwarded[s])
          BY <1>t, <2>4, <3>1
      <4>2. CASE j \in 1..Len(forwarded[s])
          BY <2>4, <3>1, <4>1, <4>2 DEF InTurn
      <4>3. CASE j = Len(forwarded[s]) + 1
          BY <2>2, <2>4, <4>1, <4>3 DEF InTurn
      <4>4. QED
          BY <2>4, <4>2, <4>3
    <3>2. QED
        BY <2>1, <2>3, <3>1 DEF InTurn
  <2>6. \A d \in Nat \ {None} : Has(s, d)' <=> Has(s, d)
    <3>1. ASSUME NEW d \in Nat \ {None}
          PROVE  (\E i \in 1..Len(forwarded'[s]) : forwarded'[s][i] = d)
                   <=> held[s] = d \/ \E i \in 1..Len(forwarded[s]) : forwarded[s][i] = d
      <4>1. Len(forwarded[s]) + 1 \in 1..Len(forwarded'[s])
            /\ 1..Len(forwarded[s]) \subseteq 1..Len(forwarded'[s])
          BY <1>t, <2>4
      <4>2. QED
          BY <2>4, <4>1
    <3>2. QED
        BY <2>1, <2>3, <3>1 DEF Has
  <2>7. QED
      BY <2>1, <2>5, <2>6 DEF Queue, Taken
<1>3. CASE ForwardUpFails(s)
  <2>1. /\ UNCHANGED <<udpIn, emitted, forwarded>>
        /\ lost'[s] = Append(lost[s], held[s]) /\ held'[s] = None
    <3>1. lost' = [lost EXCEPT ![s] = Append(@, held[s])] /\ held' = [held EXCEPT ![s] = None]
          /\ UNCHANGED <<udpIn, emitted, forwarded>>
        BY <1>3 DEF ForwardUpFails
    <3>2. s \in DOMAIN lost /\ s \in DOMAIN held
        BY DEF TypeOK
    <3>3. QED
        BY <3>1, <3>2
  <2>2. held[s] # None /\ pc[s]["udpToWSS"] = "write"
      BY <1>3, <1>r, MovePoints DEF ForwardUpFails, Fail, Local, Hands
  <2>3. lost[s] = <<>>
      BY <2>2 DEF Local, Ends
  <2>4. Len(lost'[s]) = 1 /\ lost'[s][1] = held[s] /\ 1..1 = {1} /\ 1..Len(lost[s]) = {}
    <3>1. lost'[s] = Append(<<>>, held[s])
        BY <2>1, <2>3
    <3>2. QED
        BY <1>t, <2>3, <3>1
  <2>5. InTurn(s)'
      BY <2>1, <2>2, <2>4 DEF InTurn
  <2>6. \A d \in Nat \ {None} : Has(s, d)' <=> Has(s, d)
      BY <2>1, <2>4 DEF Has
  <2>7. QED
      BY <2>1, <2>5, <2>6 DEF Queue, Taken
<1>4. ASSUME ~ReadFromUDP(s), ~ForwardUp(s), ~ForwardUpFails(s)
      PROVE  UNCHANGED upVars
    BY <1>4 DEF Acts, udpToWSS, wssToUDP, keepalive, ReadFromUDPFails, StorePeer, SendPeer,
                Lock, Cancel, ReadControl, ReadBinary, Receive, ReadFails, Pong, PongFails, PeerKnown, PeerWaitCancelled,
                PeerTimeout, Deliver, DeliverFails, Consume, KeepaliveTick, KeepaliveWritten,
                KeepaliveFails, KeepaliveDone, Go, WireBreaks, ServerSends, ServerControl,
                Arrives
<1>5. CASE UNCHANGED upVars
  <2>1. UNCHANGED <<udpIn, emitted, held, forwarded, lost>>
      BY <1>5 DEF upVars
  <2>2. InTurn(s)' /\ Queue' /\ Taken' = Taken
      BY <2>1 DEF InTurn, Queue, Taken
  <2>3. \A d \in Nat \ {None} : Has(s, d)' <=> Has(s, d)
      BY <2>1 DEF Has
  <2>4. QED
      BY <2>2, <2>3
<1>6. QED
    BY <1>1, <1>2, <1>3, <1>4, <1>5

(* What a session does keeps the datagrams apart.                          *)
LEMMA ActsApart ==
  ASSUME TypeOK, NEW s \in Sessions, Only(s), Apart, Taken \in Int,
         \/ /\ Taken' = Taken
            /\ \A d \in Nat \ {None} : Has(s, d)' <=> Has(s, d)
         \/ /\ Taken' = Taken + 1
            /\ \A d \in Nat \ {None} : Has(s, d)' <=> Has(s, d) \/ d = Taken + 1
  PROVE  Apart'
<1>1. \A u \in Sessions \ {s} : \A d \in Nat \ {None} : Has(u, d)' <=> Has(u, d)
    BY DEF Only, Has
<1>2. udpOpen' = udpOpen
    BY DEF Only
<1>3. Taken' \in Int /\ Taken' >= Taken /\ \A d \in Nat : d <= Taken => d # Taken + 1
    OBVIOUS
<1>4. ASSUME NEW u \in Sessions, NEW d \in Nat \ {None}, Has(u, d)'
      PROVE  d <= Taken'
  <2>1. Has(u, d) \/ (d = Taken + 1 /\ Taken' = Taken + 1)
      BY <1>1, <1>4
  <2>2. CASE Has(u, d)
    <3>1. d <= Taken
        BY <2>2 DEF Apart
    <3>2. QED
        BY <1>3, <3>1
  <2>3. QED
      BY <2>1, <2>2, <1>3
<1>5. ASSUME NEW u \in Sessions, NEW v \in Sessions, NEW d \in Nat \ {None},
             Has(u, d)', Has(v, d)'
      PROVE  u = v
  <2>1. Has(u, d) \/ (u = s /\ d = Taken + 1)
      BY <1>1, <1>5
  <2>2. Has(v, d) \/ (v = s /\ d = Taken + 1)
      BY <1>1, <1>5
  <2>3. Has(u, d) \/ Has(v, d) => d <= Taken
      BY DEF Apart
  <2>4. QED
      BY <1>3, <2>1, <2>2, <2>3 DEF Apart
<1>6. ASSUME udpOpen', NEW d \in Nat \ {None}, d <= Taken'
      PROVE  \E u \in Sessions : Has(u, d)'
  <2>1. CASE d <= Taken
    <3>1. PICK u \in Sessions : Has(u, d)
        BY <1>2, <1>6, <2>1 DEF Apart
    <3>2. Has(u, d)'
        BY <1>1, <3>1
    <3>3. QED
        BY <3>2
  <2>2. CASE ~(d <= Taken)
    <3>1. Taken' = Taken + 1 /\ d = Taken + 1
        BY <1>6, <2>2
    <3>2. Has(s, d)'
        BY <3>1, <1>3
    <3>3. QED
        BY <3>2
  <2>3. QED
      BY <2>1, <2>2
<1>7. QED
    BY <1>4, <1>5, <1>6 DEF Apart

(* So does what happens around the sessions; closing the socket drops the  *)
(* datagrams that are still queued.                                        *)
LEMMA RunApart ==
  ASSUME TypeOK, \A s \in Sessions : InTurn(s), Queue, Apart, RunActs
  PROVE  (\A s \in Sessions : InTurn(s)') /\ Queue' /\ Apart'
<1>t. udpIn \in Seq(Nat) /\ emitted \in Nat /\ Len(udpIn) \in Nat
    BY UpTypes
<1>1. UNCHANGED <<held, forwarded, lost>>
    BY DEF RunActs, runShovel, LoopTop, DialFails, BackoffEnds, StartSession, EndSession,
           Loop, CancelCtx, CloseUDP, WGEmits, upVars
<1>2. \A s \in Sessions : /\ InTurn(s)' <=> InTurn(s)
                          /\ \A d \in Nat \ {None} : Has(s, d)' <=> Has(s, d)
    BY <1>1 DEF InTurn, Has
<1>3. CASE runShovel \/ CancelCtx
  <2>1. UNCHANGED <<udpIn, emitted, udpOpen>>
      BY <1>3 DEF runShovel, LoopTop, DialFails, BackoffEnds, StartSession, EndSession,
                  Loop, CancelCtx, upVars
  <2>2. Queue' /\ Taken' = Taken
      BY <2>1 DEF Queue, Taken
  <2>3. QED
      BY <1>2, <2>1, <2>2 DEF Apart
<1>4. CASE CloseUDP
  <2>1. udpIn' = <<>> /\ emitted' = emitted /\ ~udpOpen'
      BY <1>4 DEF CloseUDP
  <2>2. Taken' = emitted /\ Len(udpIn') = 0
      BY <1>t, <2>1 DEF Taken
  <2>3. Queue'
      BY <1>t, <2>1, <2>2 DEF Queue
  <2>4. Taken \in Int /\ Taken' \in Int /\ Taken <= Taken'
      BY <1>t, <2>2 DEF Taken
  <2>5. \A d \in Nat : d <= Taken => d <= Taken'
      BY <2>4
  <2>6. QED
      BY <1>2, <2>1, <2>3, <2>5 DEF Apart
<1>5. CASE WGEmits
  <2>1. /\ udpIn' = Append(udpIn, emitted + 1) /\ emitted' = emitted + 1
        /\ udpOpen' = udpOpen
      BY <1>5 DEF WGEmits, loopVars
  <2>2. /\ Len(udpIn') = Len(udpIn) + 1 /\ udpIn'[Len(udpIn) + 1] = emitted + 1
        /\ \A i \in 1..Len(udpIn) : udpIn'[i] = udpIn[i]
        /\ \A i \in 1..Len(udpIn) + 1 : i \in 1..Len(udpIn) \/ i = Len(udpIn) + 1
      BY <1>t, <2>1, Added
  <2>3. Taken' = Taken /\ Taken \in Int
      BY <1>t, <2>1, <2>2 DEF Taken
  <2>4. Queue'
    <3>1. emitted + 1 = Taken + (Len(udpIn) + 1)
        BY <1>t DEF Taken
    <3>2. ASSUME NEW i \in 1..Len(udpIn') PROVE udpIn'[i] = Taken' + i
        BY <2>2, <2>3, <3>1, <3>2 DEF Queue
    <3>3. Len(udpIn') <= emitted'
        BY <1>t, <2>1, <2>2 DEF Queue
    <3>4. QED
        BY <3>2, <3>3 DEF Queue
  <2>5. QED
      BY <1>2, <2>1, <2>3, <2>4 DEF Apart
<1>6. QED
    BY <1>2, <1>3, <1>4, <1>5 DEF RunActs

-----------------------------------------------------------------------------
IInv == /\ TypeOK /\ Running /\ Queue /\ Apart
        /\ \A s \in Sessions : Local(s) /\ InTurn(s)

LEMMA InitIInv == Init => IInv
<1> SUFFICES ASSUME Init PROVE IInv
    OBVIOUS
<1>1. /\ work \in Workloads /\ MaxSessions \in Nat /\ work.up \in Nat
      /\ work.down \in Nat /\ work.sessions \in 1..MaxSessions
    BY ShovelBounds DEF Init
<1>2. /\ 0 \in 0..work.up /\ 0 \in 0..work.down /\ 0 \in 0..work.sessions
      /\ <<>> \in Seq(1..work.up) /\ <<>> \in Seq(1..work.down)
      /\ <<>> \in Seq(0..work.down)
    BY <1>1
<1>3. TypeOK
  <2>1. /\ pc \in [Sessions -> [Roles -> PCs]] /\ {ctx, connected, udpOpen} \subseteq BOOLEAN
        /\ loop \in {"top", "dial", "backoff", "run", "returned"}
      BY DEF Init, PCs
  <2>2. work \in Workloads /\ cur \in 0..work.sessions /\ emitted \in 0..work.up
        /\ udpIn \in Seq(1..work.up)
      BY <1>1, <1>2 DEF Init
  <2>3. QED
      BY <1>2, <2>1, <2>2 DEF Init, TypeOK, None
<1>4. Queue /\ Taken = 0
  <2>1. emitted = 0 /\ Len(udpIn) = 0
      BY DEF Init
  <2>2. Taken = 0
      BY <2>1 DEF Taken
  <2>3. \A i \in 1..Len(udpIn) : FALSE
      BY <2>1
  <2>4. QED
      BY <2>1, <2>2, <2>3 DEF Queue
<1>5. \A s \in Sessions : \A d \in Nat \ {None} : ~Has(s, d)
    BY DEF Init, Has, None
<1>6. Apart
    BY <1>4, <1>5 DEF Apart, None
<1>7. ASSUME NEW s \in Sessions PROVE Local(s) /\ InTurn(s)
    BY DEF Init, Local, Hands, Mutex, Explained, Peer, Ends, InTurn, Roles, None
<1>8. QED
    BY <1>3, <1>4, <1>6, <1>7 DEF IInv, Running, Init

LEMMA NextIInv == IInv /\ [Next]_vars => IInv'
<1> SUFFICES ASSUME IInv, [Next]_vars PROVE IInv'
    OBVIOUS
<1> USE DEF IInv
<1>1. ASSUME NEW s \in Sessions, Acts(s) PROVE IInv'
  <2>1. TypeOK'
      BY <1>1, ActsTypes DEF Local
  <2>2. Only(s)
      BY <1>1, ActsAlone
  <2>3. Local(s)'
      BY <1>1, ActsLocal
  <2>4. ASSUME NEW u \in Sessions \ {s} PROVE Local(u)' /\ InTurn(u)'
    <3>1. Local(u)'
        BY <2>2, OthersLocal
    <3>2. InTurn(u)'
        BY <2>2 DEF Only, InTurn
    <3>3. QED
        BY <3>1, <3>2
  <2>5. \A d \in Nat \ {None} : Has(s, d) => d <= Taken
      BY DEF Apart
  <2>6. /\ InTurn(s)' /\ Queue'
        /\ \/ /\ Taken' = Taken
              /\ \A d \in Nat \ {None} : Has(s, d)' <=> Has(s, d)
           \/ /\ Taken' = Taken + 1
              /\ \A d \in Nat \ {None} : Has(s, d)' <=> Has(s, d) \/ d = Taken + 1
      BY <1>1, <2>1, <2>3, <2>5, HasSteps
  <2>7. Taken \in Int
      BY UpTypes DEF Taken
  <2>8. Apart'
      BY <2>2, <2>6, <2>7, ActsApart
  <2>9. Running'
      BY <2>2 DEF Running, Only
  <2>10. QED
      BY <2>1, <2>3, <2>4, <2>6, <2>8, <2>9
<1>2. CASE RunActs
  <2>1. TypeOK' /\ Running'
      BY <1>2, RunTypes
  <2>2. \A s \in Sessions : Local(s)'
      BY <1>2, RunLocal
  <2>3. QED
      BY <1>2, <2>1, <2>2, RunApart
<1>3. CASE UNCHANGED vars
  <2> USE <1>3 DEF vars, loopVars, sessVars, upVars, downVars, peerVars
  <2>1. TypeOK'
      BY DEF TypeOK
  <2>2. Running' /\ Queue'
      BY DEF Running, Queue, Taken
  <2>3. Apart'
      BY DEF Apart, Has, Taken
  <2>4. \A s \in Sessions : Local(s)' /\ InTurn(s)'
      BY DEF Local, Hands, Mutex, Explained, Peer, Ends, InTurn
  <2>5. QED
      BY <2>1, <2>2, <2>3, <2>4
<1>4. QED
    BY <1>1, <1>2, <1>3 DEF Next, Client, Environment, RunActs, Acts

(* What holds of every run, for any number of sessions and any workload.   *)
THEOREM ShovelInvariant == Spec => []IInv
BY InitIInv, NextIInv, PTL DEF Spec

(* The variables of the shovel keep their types, and an empty buffer is    *)
(* never taken for a datagram (client/main.go, runOneTunnel).              *)
THEOREM ShovelTypeCorrect == Spec => []TypeOK
<1>1. IInv => TypeOK
    BY DEF IInv
<1>2. QED
    BY <1>1, ShovelInvariant, PTL

(* writeMu does its work: PING, PONG and BINARY never meet inside          *)
(* WriteMessage (client/main.go, writeWS), for any number of sessions.     *)
THEOREM WritersTakeTurns == Spec => []OneWriter
<1>1. IInv => OneWriter
    BY DEF IInv, Local, Mutex, OneWriter
<1>2. QED
    BY <1>1, ShovelInvariant, PTL

(* runOneTunnel returns "unknown" only after an outside cancellation.      *)
THEOREM EndIsExplained == Spec => []ReasonKnown
<1>1. IInv => ReasonKnown
    BY DEF IInv, Local, Explained, ReasonKnown
<1>2. QED
    BY <1>1, ShovelInvariant, PTL

(* wssToUDP never waits in vain for the address (client/main.go,           *)
(* runOneTunnel) that udpToWSS has published, whatever it saw in wgPeer.   *)
THEOREM PeerIsAtHand == Spec => []PeerAtHand
<1>1. ASSUME IInv PROVE PeerAtHand
  <2>1. ASSUME NEW s \in Sessions, pc[s]["wssToUDP"] = "peer", wgPeer[s] # "nil",
               pc[s]["udpToWSS"] # "send"
        PROVE  peerCh[s]
    <3>1. wgPeer[s] \in {"nil", "stored", "received"}
        BY <1>1 DEF IInv, TypeOK
    <3>2. Peer(s)
        BY <1>1 DEF IInv, Local
    <3>3. QED
        BY <2>1, <3>1, <3>2 DEF Peer
  <2>2. QED
      BY <2>1 DEF PeerAtHand
<1>2. QED
    BY <1>1, ShovelInvariant, PTL

(* x is a copy of datagram d in session s.                                 *)
CopyIn(d, s, x) ==
  \/ held[s] = d /\ x = <<"held", s, 0>>
  \/ \E i \in DOMAIN forwarded[s] : forwarded[s][i] = d /\ x = <<"forwarded", s, i>>
  \/ \E i \in DOMAIN lost[s] : lost[s][i] = d /\ x = <<"lost", s, i>>

(* Where a copy of a datagram can be.                                      *)
LEMMA CopyKinds ==
  ASSUME NEW d, NEW x \in Copies(d)
  PROVE  \/ \E i \in DOMAIN udpIn : udpIn[i] = d /\ x = <<"udpIn", 0, i>>
         \/ \E s \in Sessions : CopyIn(d, s, x)
BY DEF Copies, CopyIn

(* A datagram is in one place, and in some place while the socket is open. *)
LEMMA CopiesOf ==
  ASSUME IInv, NEW d \in 1..emitted
  PROVE  /\ \A x, y \in Copies(d) : x = y
         /\ udpOpen => Copies(d) # {}
<1>t. /\ udpIn \in Seq(Nat) /\ emitted \in Nat /\ Len(udpIn) \in Nat /\ Taken \in Int
      /\ d \in Nat \ {None} /\ DOMAIN udpIn = 1..Len(udpIn)
  <2>1. TypeOK
      BY DEF IInv
  <2>2. udpIn \in Seq(Nat) /\ emitted \in Nat /\ Len(udpIn) \in Nat
      BY <2>1, UpTypes
  <2>3. QED
      BY <2>2 DEF Taken, None
<1>s. \A s \in Sessions : /\ forwarded[s] \in Seq(Nat) /\ lost[s] \in Seq(Nat)
                          /\ DOMAIN forwarded[s] = 1..Len(forwarded[s])
                          /\ DOMAIN lost[s] = 1..Len(lost[s])
    BY UpTypes DEF IInv
<1>1. \A i \in DOMAIN udpIn : udpIn[i] = d => d > Taken /\ i = d - Taken
  <2>1. \A i \in 1..Len(udpIn) : udpIn[i] = Taken + i
      BY DEF IInv, Queue
  <2>2. QED
      BY <1>t, <2>1
<1>2. \A s \in Sessions : Has(s, d) => d <= Taken
    BY <1>t DEF IInv, Apart
<1>3. \A s, u \in Sessions : Has(s, d) /\ Has(u, d) => s = u
    BY <1>t DEF IInv, Apart
<1>4. ASSUME NEW s \in Sessions
      PROVE  /\ \A i, j \in DOMAIN forwarded[s] :
                  forwarded[s][i] = d /\ forwarded[s][j] = d => i = j
             /\ \A i, j \in DOMAIN lost[s] : i = j
             /\ \A i \in DOMAIN forwarded[s] :
                  forwarded[s][i] = d =>
                    /\ held[s] # d
                    /\ \A j \in DOMAIN lost[s] : lost[s][j] # d
             /\ \A i \in DOMAIN lost[s] : lost[s][i] = d => held[s] # d
  <2>1. InTurn(s) /\ Local(s)
      BY DEF IInv
  <2>2. \A i, j \in DOMAIN forwarded[s] :
          forwarded[s][i] = d /\ forwarded[s][j] = d => i = j
    <3>1. \A i, j \in 1..Len(forwarded[s]) : i < j => forwarded[s][i] < forwarded[s][j]
        BY <2>1 DEF InTurn
    <3>2. ~(d < d)
        BY <1>t
    <3>3. ASSUME NEW i \in 1..Len(forwarded[s]), NEW j \in 1..Len(forwarded[s]),
                 forwarded[s][i] = d, forwarded[s][j] = d
          PROVE  i = j
      <4>1. ~(i < j) /\ ~(j < i)
          BY <3>1, <3>2, <3>3
      <4>2. QED
          BY <4>1
    <3>4. QED
        BY <1>s, <3>3
  <2>3. \A i, j \in DOMAIN lost[s] : i = j
      BY <1>s, <2>1 DEF Local, Ends
  <2>4. \A i \in DOMAIN forwarded[s] :
          forwarded[s][i] = d =>
            held[s] # d /\ \A j \in DOMAIN lost[s] : lost[s][j] # d
    <3>1. ASSUME NEW i \in 1..Len(forwarded[s]), forwarded[s][i] = d
          PROVE  held[s] # d /\ \A j \in 1..Len(lost[s]) : lost[s][j] # d
      <4>1. ~(d < d) /\ d # None
          BY <1>t
      <4>2. held[s] # None => d < held[s]
          BY <2>1, <3>1 DEF InTurn
      <4>3. \A j \in 1..Len(lost[s]) : d < lost[s][j]
          BY <2>1, <3>1 DEF InTurn
      <4>4. QED
          BY <4>1, <4>2, <4>3
    <3>2. QED
        BY <1>s, <3>1
  <2>5. \A i \in DOMAIN lost[s] : held[s] = None
      BY <1>s, <2>1 DEF Local, Ends, Hands
  <2>6. QED
      BY <1>t, <2>2, <2>3, <2>4, <2>5
<1>5. \A s \in Sessions :
        Has(s, d) <=> \/ held[s] = d
                      \/ \E i \in DOMAIN forwarded[s] : forwarded[s][i] = d
                      \/ \E i \in DOMAIN lost[s] : lost[s][i] = d
    BY <1>s DEF Has
<1>6. ASSUME NEW x \in Copies(d), NEW y \in Copies(d) PROVE x = y
  <2>1. CASE \E i \in DOMAIN udpIn : udpIn[i] = d /\ x = <<"udpIn", 0, i>>
    <3>1. \A s \in Sessions : ~Has(s, d)
        BY <1>1, <1>2, <1>t, <2>1
    <3>2. \A s \in Sessions : ~CopyIn(d, s, y)
        BY <1>5, <3>1 DEF CopyIn
    <3>3. QED
        BY <1>1, <2>1, <3>2, CopyKinds
  <2>2. ASSUME NEW s \in Sessions, CopyIn(d, s, x) PROVE x = y
    <3>1. Has(s, d)
        BY <1>5, <2>2 DEF CopyIn
    <3>2. \A i \in DOMAIN udpIn : udpIn[i] # d
        BY <1>1, <1>2, <1>t, <3>1
    <3>3. PICK u \in Sessions : CopyIn(d, u, y)
        BY <3>2, CopyKinds
    <3>4. Has(u, d)
        BY <1>5, <3>3 DEF CopyIn
    <3>5. u = s
        BY <1>3, <3>1, <3>4
    <3>6. QED
        BY <1>4, <2>2, <3>3, <3>5 DEF CopyIn
  <2>3. QED
      BY <2>1, <2>2, CopyKinds
<1>7. ASSUME udpOpen PROVE Copies(d) # {}
  <2>1. CASE d <= Taken
    <3>1. PICK s \in Sessions : Has(s, d)
        BY <1>7, <1>t, <2>1 DEF IInv, Apart
    <3>2. PICK x : CopyIn(d, s, x)
        BY <1>5, <3>1 DEF CopyIn
    <3>3. x \in Copies(d)
        BY <3>2 DEF CopyIn, Copies
    <3>4. QED
        BY <3>3
  <2>2. CASE ~(d <= Taken)
    <3>1. d - Taken \in 1..Len(udpIn) /\ Taken + (d - Taken) = d
        BY <1>t, <2>2 DEF Taken
    <3>2. udpIn[d - Taken] = d
        BY <3>1 DEF IInv, Queue
    <3>3. <<"udpIn", 0, d - Taken>> \in Copies(d)
        BY <1>t, <3>1, <3>2 DEF Copies
    <3>4. QED
        BY <3>3
  <2>3. QED
      BY <2>1, <2>2
<1>8. QED
    BY <1>6, <1>7

(* However many goroutines of old and new sessions read the shared socket  *)
(* (client/main.go, runOneTunnel), no outbound datagram is duplicated, and *)
(* a session loses one at most.                                            *)
THEOREM StaleReadersLoseOne == Spec => []StaleLosesOne
<1>1. ASSUME IInv PROVE StaleLosesOne
  <2>1. ASSUME NEW d \in 1..emitted
        PROVE  Cardinality(Copies(d)) <= 1 /\ (udpOpen => Copies(d) # {})
    <3>1. CASE Copies(d) = {}
        BY <1>1, <3>1, CopiesOf, FS_EmptySet
    <3>2. CASE Copies(d) # {}
      <4>1. PICK x : x \in Copies(d)
          BY <3>2
      <4>2. Copies(d) = {x}
          BY <1>1, <4>1, CopiesOf
      <4>3. Cardinality(Copies(d)) = 1
          BY <4>2, FS_Singleton
      <4>4. QED
          BY <3>2, <4>3
    <3>3. QED
        BY <3>1, <3>2
  <2>2. ASSUME NEW s \in Sessions
        PROVE  /\ Len(lost[s]) <= 1
               /\ lost[s] # <<>> => pc[s]["udpToWSS"] \in {"cancel", "exit"}
               /\ \A i, j \in DOMAIN forwarded[s] : i < j => forwarded[s][i] < forwarded[s][j]
    <3>1. forwarded[s] \in Seq(Nat)
        BY <1>1, UpTypes DEF IInv
    <3>2. DOMAIN forwarded[s] = 1..Len(forwarded[s])
        BY <3>1
    <3>3. QED
        BY <1>1, <3>2 DEF IInv, Local, Ends, InTurn
  <2>3. QED
      BY <2>1, <2>2 DEF StaleLosesOne
<1>2. QED
    BY <1>1, ShovelInvariant, PTL
=============================================================================
