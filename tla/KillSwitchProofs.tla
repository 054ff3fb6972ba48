-------------------------- MODULE KillSwitchProofs --------------------------
(***************************************************************************)
(* Proofs about KillSwitch, for any set of invocations, on Linux and on    *)
(* Windows, with any number of failing firewall calls and of crashes.      *)
(***************************************************************************)
EXTENDS KillSwitch, TLAPS

Unfiltered == {"dispatch", "up", "install", "iF", "iA", "iD", "iI",
               "tunnel", "loopback", "scenario", "lan", "arena", "block"}

(* What the steps need to know of the types; that rules and jumps do not   *)
(* pile up follows from who installs, below.                               *)
Types ==
  /\ os \in Platforms
  /\ kind \in [Procs -> {"run", "logout", "oneshot"}]
  /\ pc \in [Procs -> PCs]
  /\ ret \in [Procs -> {"dispatch", "exited"}]
  /\ armed \in [Procs -> BOOLEAN] /\ revoked \in [Procs -> BOOLEAN]
  /\ holder \in Procs \union {NoHolder}
  /\ fw \in IF os = "linux" THEN [chain : BOOLEAN, rules : Nat, jumps : Nat]
                            ELSE [default : {"allow", "block"}, allows : SUBSET CarveoutKinds]
  /\ marker \in BOOLEAN
  /\ chip \in {"none", "armed", "unarmed"}
  /\ failures \in 0..MaxFail
  /\ overlap \in BOOLEAN /\ beaconless \in BOOLEAN

(* A run holds the PID lock, so that no two processes install at once; and *)
(* an install adds its rule to a flushed chain, and its jump after it has  *)
(* deleted one.                                                            *)
Locked(p) ==
  pc[p] \notin Ended \union Teardown \union {"recover", "dispatch"} => holder = p

Fresh(p) ==
  os = "linux" => /\ pc[p] = "iA" => fw.rules = 0
                  /\ pc[p] = "iI" => fw.jumps <= failures

Stacks == os = "linux" => fw.rules \in 0..1 /\ fw.jumps \in 0..failures + 1

(* The properties look at the firewall where a run is connected and where  *)
(* a teardown ends.  These are facts about the points in between.  Rules   *)
(* and jumps need their chain; armed is set at the end of an install.      *)
Firewall == os = "linux" /\ (fw.rules > 0 \/ fw.jumps > 0) => fw.chain

Report(p) ==
  armed[p] => \/ pc[p] \in {"connected", "exited", "crashed"}
              \/ pc[p] \in Teardown /\ ret[p] = "exited"

(* The rest is about invocations that do not overlap.                      *)
Alone == \A p, q \in Procs : Alive(p) /\ Alive(q) => p = q

(* Whatever fails, an install that goes on has done what it needs.         *)
Claims(p) == pc[p] = "mark" \/ (pc[p] \in {"connected", "teardown"} /\ armed[p])

InstallLinux(p) ==
  /\ pc[p] = "iA" => fw.chain
  /\ pc[p] \in {"iD", "iI"} => fw.chain /\ fw.rules > 0
  /\ Claims(p) => Protected

InstallWindows(p) ==
  /\ pc[p] = "loopback" => "tunnel" \in fw.allows
  /\ pc[p] = "scenario" => {"tunnel", "loopback"} \subseteq fw.allows
  /\ pc[p] \in {"lan", "arena", "block", "verify"} =>
       {"tunnel", "loopback", "scenario"} \subseteq fw.allows
  /\ Claims(p) => Enforced

Install(p) == /\ os = "linux" => InstallLinux(p)
              /\ os = "windows" => InstallWindows(p)

(* When nothing fails there is one jump at most, and a teardown undoes an  *)
(* install step by step.                                                   *)
TornLinux(p) ==
  /\ pc[p] \in {"iI", "tF", "tX"} => fw.jumps = 0
  /\ pc[p] = "tX" => fw.rules = 0
  /\ pc[p] = "unmark" => fw = NoChain

TornWindows(p) ==
  /\ pc[p] = "ungroup" => fw.default = "allow"
  /\ pc[p] = "unmark" => fw = NoGroup

Torn(p) == /\ os = "linux" => TornLinux(p)
           /\ os = "windows" => TornWindows(p)

OneJump == os = "linux" => fw.jumps \in {0, 1}

(* When moreover no process dies between the last firewall call and the    *)
(* marker, the marker tells of every filter, but to the process there.     *)
Beacon == Filtered /\ ~marker => \E p \in Procs : pc[p] \in {"verify", "mark"}

Told(p) ==
  /\ pc[p] \in Unfiltered => ~Filtered /\ ~marker
  /\ pc[p] \in {"verify", "mark"} => ~marker
  /\ pc[p] = "connected" => IF armed[p] THEN marker ELSE ~Filtered /\ ~marker

(* On Windows the default then blocks only with every rule in place.       *)
Soft(p) ==
  /\ pc[p] = "arena" => CarveoutKinds \ {"arena"} \subseteq fw.allows
  /\ pc[p] \in {"block", "verify", "mark"} => fw.allows = CarveoutKinds

IInv ==
  /\ Types /\ Firewall /\ \A p \in Procs : Report(p)
  /\ Stacks /\ \A p \in Procs : Locked(p) /\ Fresh(p)
  /\ ~overlap => Alone /\ \A p \in Procs : Install(p)
  /\ ~overlap /\ failures = 0 => OneJump /\ \A p \in Procs : Torn(p)
  /\ ~overlap /\ failures = 0 /\ ~beaconless => Beacon /\ \A p \in Procs : Told(p)
  /\ os = "windows" /\ ~overlap /\ failures = 0 /\ ~beaconless =>
       ~LockedOut /\ \A p \in Procs : Soft(p)

-----------------------------------------------------------------------------
(* The carve-outs of installKillSwitch, in their order.                    *)
LEMMA CarveoutNames ==
  /\ Len(Carveouts) = 5
  /\ Carveouts[1] = "tunnel" /\ Carveouts[2] = "loopback" /\ Carveouts[3] = "scenario"
  /\ Carveouts[4] = "lan" /\ Carveouts[5] = "arena"
  /\ CarveoutKinds = {"tunnel", "loopback", "scenario", "lan", "arena"}
<1>1. /\ Len(Carveouts) = 5
      /\ Carveouts[1] = "tunnel" /\ Carveouts[2] = "loopback" /\ Carveouts[3] = "scenario"
      /\ Carveouts[4] = "lan" /\ Carveouts[5] = "arena"
    BY DEF Carveouts
<1>2. \A i : i \in 1..5 <=> i \in {1, 2, 3, 4, 5}
    OBVIOUS
<1>3. CarveoutKinds = {Carveouts[1], Carveouts[2], Carveouts[3], Carveouts[4], Carveouts[5]}
    BY <1>1, <1>2 DEF CarveoutKinds
<1>4. QED
    BY <1>1, <1>3

(* One rule of the group is added, or its addresses were not found.        *)
AllowOne(p, c, next) ==
  \/ ps(p, c, [fw EXCEPT !.allows = @ \union {c}], next, "connected")
  \/ /\ c \in {"lan", "arena"}
     /\ Calling(p, c) /\ os = "windows"
     /\ Goto(p, next) /\ UNCHANGED fw /\ Fails

LEMMA AllowSteps ==
  ASSUME NEW p \in Procs, Allow(p)
  PROVE  \/ AllowOne(p, "tunnel", "loopback") \/ AllowOne(p, "loopback", "scenario")
         \/ AllowOne(p, "scenario", "lan") \/ AllowOne(p, "lan", "arena")
         \/ AllowOne(p, "arena", "block")
<1>1. \E i \in 1..5 : AllowOne(p, Carveouts[i], IF i = 5 THEN "block" ELSE Carveouts[i + 1])
    BY CarveoutNames, Zenon DEF Allow, AllowOne
<1>2. QED
    BY <1>1, CarveoutNames

-----------------------------------------------------------------------------
(* Before any invocation.                                                  *)
LEMMA InitInv == Init => IInv
<1> SUFFICES ASSUME Init PROVE IInv
    OBVIOUS
<1>1. Types
  <2>1. failures \in 0..MaxFail /\ holder \in Procs \union {NoHolder}
      BY KillSwitchAssumption DEF Init
  <2>2. /\ armed \in [Procs -> BOOLEAN] /\ revoked \in [Procs -> BOOLEAN]
        /\ marker \in BOOLEAN /\ overlap \in BOOLEAN /\ beaconless \in BOOLEAN
      BY Zenon DEF Init
  <2>3. /\ kind \in [Procs -> {"run", "logout", "oneshot"}] /\ pc \in [Procs -> PCs]
        /\ ret \in [Procs -> {"dispatch", "exited"}] /\ chip \in {"none", "armed", "unarmed"}
      BY DEF Init, PCs, Ended
  <2>4. fw \in IF os = "linux" THEN [chain : BOOLEAN, rules : Nat, jumps : Nat]
                            ELSE [default : {"allow", "block"}, allows : SUBSET CarveoutKinds]
      BY DEF Init, Untouched, NoChain, NoGroup
  <2>5. QED
      BY <2>1, <2>2, <2>3, <2>4, Zenon DEF Types, Init
<1>2. \A p \in Procs : pc[p] = "new" /\ ~Alive(p) /\ ~armed[p]
    BY DEF Init, Alive, Ended
<1>3. /\ os \in {"linux", "windows"} /\ failures = 0 /\ marker = FALSE
      /\ fw = IF os = "linux" THEN NoChain ELSE NoGroup
    BY KillSwitchAssumption DEF Init, Untouched
<1>4. Firewall /\ OneJump /\ ~Filtered /\ (os = "windows" => ~LockedOut)
    BY <1>3 DEF Firewall, OneJump, Filtered, Blocking, LockedOut, NoChain, NoGroup
<1>5. Alone /\ Beacon /\ \A p \in Procs : Report(p)
    BY <1>2, <1>4 DEF Alone, Beacon, Report
<1>6. \A p \in Procs : Install(p) /\ Torn(p) /\ Told(p) /\ Soft(p)
    BY <1>2 DEF Install, InstallLinux, InstallWindows, Claims, Torn, TornLinux, TornWindows,
                Told, Unfiltered, Soft
<1>7. Stacks /\ \A p \in Procs : Locked(p) /\ Fresh(p)
    BY <1>2, <1>3 DEF Stacks, Locked, Fresh, Alive, NoChain
<1>8. QED
    BY <1>1, <1>4, <1>5, <1>6, <1>7 DEF IInv

-----------------------------------------------------------------------------
(* A firewall call keeps the types, whether it works or fails.             *)
LEMMA FailureCounted ==
  ASSUME failures \in 0..MaxFail, Fails \/ Works
  PROVE  failures' \in 0..MaxFail /\ (failures' = 0 => failures = 0 /\ ~Fails)
BY KillSwitchAssumption DEF Fails, Works

LEMMA CallTypeOK ==
  ASSUME Types, NEW p \in Procs, NEW here, NEW cmd, NEW ok \in PCs, NEW err \in PCs,
         Call(p, here, cmd, ok, err)
  PROVE  Types'
<1>1. failures' \in 0..MaxFail
    BY FailureCounted DEF Types, Call
<1>2. pc' \in [Procs -> PCs]
    BY DEF Types, Call, Goto
<1>3. fw' \in [chain : BOOLEAN, rules : Nat, jumps : Nat]
  <2>1. fw \in [chain : BOOLEAN, rules : Nat, jumps : Nat]
      BY DEF Types, Call, Calling
  <2>2. CASE UNCHANGED fw
      BY <2>1, <2>2
  <2>3. CASE Applies(cmd) /\ iptables(cmd)
    <3>1. cmd # "-D" \/ fw.jumps > 0
        BY <2>3 DEF Applies
    <3>2. (IF cmd = "-F" THEN 0 ELSE IF cmd = "-A" THEN fw.rules + 1 ELSE fw.rules) \in Nat
        BY <2>1
    <3>3. (CASE cmd = "-I" -> fw.jumps + 1 [] cmd = "-D" -> fw.jumps - 1 [] OTHER -> fw.jumps) \in Nat
        BY <2>1, <3>1
    <3>4. (cmd # "-X" /\ (fw.chain \/ cmd = "-N")) \in BOOLEAN
        OBVIOUS
    <3>5. QED
        BY <2>3, <3>2, <3>3, <3>4, Zenon DEF iptables
  <2>4. QED
      BY <2>2, <2>3 DEF Call
<1>4. QED
    BY <1>1, <1>2, <1>3, Zenon DEF Types, Call, Calling, histVars

LEMMA psTypeOK ==
  ASSUME Types, NEW p \in Procs, NEW here, NEW change, NEW ok \in PCs, NEW err \in PCs,
         os = "windows" => change \in [default : {"allow", "block"}, allows : SUBSET CarveoutKinds],
         ps(p, here, change, ok, err)
  PROVE  Types'
<1>1. failures' \in 0..MaxFail
    BY FailureCounted DEF Types, ps
<1>2. pc' \in [Procs -> PCs]
    BY DEF Types, ps, Goto
<1>3. fw' \in [default : {"allow", "block"}, allows : SUBSET CarveoutKinds]
    BY DEF Types, ps, Calling
<1>4. QED
    BY <1>1, <1>2, <1>3 DEF Types, ps, Calling, histVars

(* Every step of an invocation keeps the types.                            *)
LEMMA NextTypeOK == Types /\ [Next]_vars => Types'
<1> SUFFICES ASSUME Types, [Next]_vars PROVE Types'
    OBVIOUS
<1>1. CASE UNCHANGED vars
    BY <1>1, Zenon DEF Types, vars, histVars
<1>2. ASSUME NEW p \in Procs, Invocation(p) PROVE Types'
  <2> USE DEF Types, Goto, histVars
  <2>1. CASE Start(p)
      BY <2>1 DEF Start, PCs
  <2>2. CASE Recover(p)
      BY <2>2 DEF Recover, PCs
  <2>3. CASE Dispatch(p)
      BY <2>3 DEF Dispatch, PCs, Ended
  <2>4. CASE Arm(p)
      BY <2>4 DEF Arm, Pass, PCs
  <2>5. CASE InstallMark(p)
      BY <2>5, FailureCounted DEF InstallMark, PCs
  <2>6. CASE Heartbeat(p)
      BY <2>6 DEF Heartbeat
  <2>7. CASE Shutdown(p)
      BY <2>7 DEF Shutdown, PCs, Ended
  <2>8. CASE TeardownUnmark(p)
      BY <2>8 DEF TeardownUnmark, PCs, Ended
  <2>9. CASE Crash(p)
      BY <2>9 DEF Crash, PCs, Ended
  <2>10. QED
      BY <1>2, <2>1, <2>2, <2>3, <2>4, <2>5, <2>6, <2>7, <2>8, <2>9 DEF Invocation
<1>3. ASSUME NEW p \in Procs, Linux(p) PROVE Types'
    BY <1>3, CallTypeOK
    DEF Linux, PCs, InstallNew, InstallFlush, InstallRule, InstallUnsplice, InstallSplice,
        TeardownUnsplice, TeardownFlush, TeardownDelete
<1>4. ASSUME NEW p \in Procs, Windows(p) PROVE Types'
  <2>1. os = "windows" => fw \in [default : {"allow", "block"}, allows : SUBSET CarveoutKinds]
      BY DEF Types
  <2>2. CASE Clear(p)
      BY <2>1, <2>2, psTypeOK, CarveoutNames DEF Clear, PCs
  <2>3. ASSUME NEW c \in CarveoutKinds, NEW next \in PCs, AllowOne(p, c, next) PROVE Types'
    <3>1. CASE ps(p, c, [fw EXCEPT !.allows = @ \union {c}], next, "connected")
        BY <2>1, <3>1, psTypeOK DEF PCs
    <3>2. CASE Calling(p, c) /\ Goto(p, next) /\ UNCHANGED fw /\ Fails
        BY <3>2, FailureCounted DEF Types, Calling, Goto, histVars
    <3>3. QED
        BY <2>3, <3>1, <3>2 DEF AllowOne
  <2>4. CASE Allow(p)
      BY <2>3, <2>4, AllowSteps, CarveoutNames DEF PCs
  <2>5. CASE Block(p)
      BY <2>1, <2>5, psTypeOK DEF Block, Default, PCs
  <2>6. CASE Verify(p)
      BY <2>1, <2>6, psTypeOK DEF Verify, PCs
  <2>7. CASE Unblock(p)
      BY <2>1, <2>7, psTypeOK DEF Unblock, Default, PCs
  <2>8. CASE Ungroup(p)
      BY <2>1, <2>8, psTypeOK DEF Ungroup, PCs
  <2>9. QED
      BY <1>4, <2>2, <2>4, <2>5, <2>6, <2>7, <2>8 DEF Windows
<1>5. QED
    BY <1>1, <1>2, <1>3, <1>4 DEF Next

-----------------------------------------------------------------------------
(* One process moves at a time: what stays, and what it says of overlaps.  *)
Step(p) == Invocation(p) \/ Linux(p) \/ Windows(p)

LEMMA Mover ==
  ASSUME Types, NEW p \in Procs, Step(p)
  PROVE  /\ \A q \in Procs \ {p} : /\ pc'[q] = pc[q] /\ armed'[q] = armed[q]
                                   /\ ret'[q] = ret[q]
         /\ pc' \in [Procs -> PCs]
         /\ \/ Alive(p)
            \/ pc[p] = "new" /\ (overlap' <=> overlap \/ \E q \in Procs : Alive(q))
         /\ overlap => overlap'
<1>1. pc' \in [Procs -> PCs] /\ pc \in [Procs -> PCs]
    BY NextTypeOK DEF Next, Step, Types
<1>2. \A q \in Procs \ {p} : armed'[q] = armed[q] /\ ret'[q] = ret[q]
    BY DEF Types, histVars, Step, Invocation, Start, Recover, Dispatch, Arm, Pass, InstallMark,
           Heartbeat, Shutdown, TeardownUnmark, Crash,
           Linux, Call, Calling, InstallNew, InstallFlush, InstallRule, InstallUnsplice,
           InstallSplice, TeardownUnsplice, TeardownFlush, TeardownDelete,
           Windows, Clear, Allow, Block, Verify, Unblock, Ungroup, ps
<1>3. /\ \A q \in Procs \ {p} : pc'[q] = pc[q]
      /\ (Alive(p) /\ (overlap' <=> overlap)) \/ Start(p)
  <2> USE <1>1 DEF Goto, Alive, Ended, histVars
  <2>1. CASE Invocation(p)
    <3>1. CASE Start(p)
        BY <3>1 DEF Start
    <3>2. CASE Recover(p) \/ Dispatch(p) \/ Arm(p) \/ InstallMark(p)
        BY <3>2 DEF Recover, Dispatch, Arm, Pass, InstallMark
    <3>3. CASE Heartbeat(p)
        BY <3>3 DEF Heartbeat, Beats, Teardown, Undoing
    <3>4. CASE Shutdown(p) \/ TeardownUnmark(p) \/ Crash(p)
        BY <3>4 DEF Shutdown, TeardownUnmark, Crash
    <3>5. QED
        BY <2>1, <3>1, <3>2, <3>3, <3>4 DEF Invocation
  <2>2. CASE Linux(p)
      BY <2>2 DEF Linux, Call, Calling, InstallNew, InstallFlush, InstallRule, InstallUnsplice,
                  InstallSplice, TeardownUnsplice, TeardownFlush, TeardownDelete
  <2>3. CASE Allow(p)
      BY <2>3, AllowSteps DEF AllowOne, ps, Calling
  <2>4. CASE Clear(p) \/ Block(p) \/ Verify(p) \/ Unblock(p) \/ Ungroup(p)
      BY <2>4, CarveoutNames DEF Clear, Block, Verify, Unblock, Ungroup, ps, Calling
  <2>5. QED
      BY <2>1, <2>2, <2>3, <2>4 DEF Step, Windows
<1>4. Start(p) => pc[p] = "new" /\ (overlap' <=> overlap \/ \E q \in Procs : Alive(q))
    BY Zenon DEF Start
<1>5. QED
    BY <1>1, <1>2, <1>3, <1>4

(* Without overlap, nobody else is there before the step or after it.      *)
LEMMA NobodyElse ==
  ASSUME Types, NEW p \in Procs, Step(p), ~overlap => Alone, ~overlap'
  PROVE  ~overlap /\ Alone' /\ \A q \in Procs \ {p} : pc[q] \in Ended /\ pc'[q] \in Ended
<1>1. ~overlap /\ Alone
    BY Mover
<1>2. \A q \in Procs \ {p} : pc[q] \in Ended
    BY <1>1, Mover DEF Alone, Alive
<1>3. QED
    BY <1>1, <1>2, Mover DEF Alone, Alive

(* The facts about a process say nothing once it has ended.                *)
LEMMA EndedSaysNothing ==
  ASSUME NEW q \in Procs
  PROVE  /\ pc[q] \in Ended => Install(q) /\ Torn(q) /\ Told(q) /\ Soft(q)
         /\ pc'[q] \in Ended => Install(q)' /\ Torn(q)' /\ Told(q)' /\ Soft(q)'
BY DEF Ended, Install, InstallLinux, InstallWindows, Claims, Torn, TornLinux, TornWindows,
       Told, Unfiltered, Soft

(* Rules and jumps need their chain: -X fails as long as there are any.    *)
LEMMA StepFirewall == ASSUME Types, Firewall, NEW p \in Procs, Step(p) PROVE Firewall'
<1>1. CASE UNCHANGED fw /\ UNCHANGED os
    BY <1>1 DEF Firewall
<1>2. CASE Linux(p)
    BY <1>2 DEF Types, Firewall, Linux, Call, Calling, Applies, iptables, InstallNew, InstallFlush,
                InstallRule, InstallUnsplice, InstallSplice, TeardownUnsplice, TeardownFlush,
                TeardownDelete
<1>3. CASE Windows(p)
    BY <1>3 DEF Firewall, Windows, Clear, Allow, Block, Verify, Unblock, Ungroup, ps, Calling
<1>4. QED
    BY <1>1, <1>2, <1>3 DEF Step, Invocation, Start, Recover, Dispatch, Arm, Pass, InstallMark,
                            Heartbeat, Shutdown, TeardownUnmark, Crash

(* Only the process that holds the PID lock is about to install.           *)
LEMMA StepLocked ==
  ASSUME Types, \A q \in Procs : Locked(q), NEW p \in Procs, Step(p)
  PROVE  \A q \in Procs : Locked(q)'
<1>1. \A q \in Procs \ {p} : pc'[q] = pc[q]
    BY Mover
<1>2. pc \in [Procs -> PCs] /\ NoHolder \notin Procs
    BY KillSwitchAssumption DEF Types
<1> USE <1>2 DEF Locked, Ended, Teardown, Undoing, Goto
<1>3. CASE Invocation(p)
  <2>1. CASE Start(p)
      BY <1>1, <2>1 DEF Start
  <2>2. CASE Recover(p)
      BY <1>1, <2>2 DEF Recover
  <2>3. CASE Dispatch(p)
      BY <1>1, <2>3 DEF Dispatch
  <2>4. CASE Arm(p) \/ InstallMark(p) \/ Heartbeat(p)
      BY <1>1, <2>4 DEF Arm, Pass, InstallMark, Heartbeat
  <2>5. CASE Shutdown(p)
      BY <1>1, <2>5 DEF Shutdown
  <2>6. CASE TeardownUnmark(p)
    <3>1. pc'[p] \in {"dispatch", "exited"}
        BY <2>6 DEF TeardownUnmark, Types
    <3>2. ASSUME NEW q \in Procs \ {p} PROVE Locked(q)'
        BY <1>1, <2>6 DEF TeardownUnmark
    <3>3. QED
        BY <3>1, <3>2
  <2>7. CASE Crash(p)
      BY <1>1, <2>7 DEF Crash
  <2>8. QED
      BY <1>3, <2>1, <2>2, <2>3, <2>4, <2>5, <2>6, <2>7 DEF Invocation
<1>4. CASE Linux(p)
    BY <1>1, <1>4 DEF Linux, Call, Calling, InstallNew, InstallFlush, InstallRule, InstallUnsplice,
                InstallSplice, TeardownUnsplice, TeardownFlush, TeardownDelete
<1>5. CASE Allow(p)
    BY <1>1, <1>5, AllowSteps DEF AllowOne, ps, Calling
<1>6. CASE Clear(p) \/ Block(p) \/ Verify(p) \/ Unblock(p) \/ Ungroup(p)
    BY <1>1, <1>6, CarveoutNames DEF Clear, Block, Verify, Unblock, Ungroup, ps, Calling
<1>7. QED
    BY <1>3, <1>4, <1>5, <1>6 DEF Step, Windows

(* So nobody puts a rule or a jump between the calls of an install.        *)
LEMMA StepStacks ==
  ASSUME Types, Stacks, \A q \in Procs : Locked(q) /\ Fresh(q), NEW p \in Procs, Step(p)
  PROVE  Stacks' /\ \A q \in Procs : Fresh(q)'
<1>1. \A q \in Procs \ {p} : pc'[q] = pc[q]
    BY Mover
<1>2. /\ pc \in [Procs -> PCs] /\ ret \in [Procs -> {"dispatch", "exited"}]
      /\ failures \in Nat /\ MaxFail \in Nat
    BY KillSwitchAssumption DEF Types
<1>3. os = "linux" => fw \in [chain : BOOLEAN, rules : Nat, jumps : Nat]
    BY DEF Types
<1>4. \A q \in Procs \ {p} : pc[p] \in {"iA", "iI"} => pc[q] \notin {"iA", "iI"}
    BY DEF Locked, Ended, Teardown, Undoing
<1> USE <1>2, <1>3 DEF Stacks, Fresh, Goto
<1>5. CASE Invocation(p)
  <2>1. UNCHANGED <<os, fw>> /\ failures' \in Nat /\ failures' >= failures
      BY <1>5 DEF Fails, Works, Invocation, Start, Recover, Dispatch, Arm, Pass, InstallMark,
                  Heartbeat, Shutdown, TeardownUnmark, Crash
  <2>2. pc'[p] \notin {"iA", "iI"} \/ pc'[p] = pc[p]
      BY <1>5 DEF Invocation, Start, Recover, Dispatch, Arm, Pass, InstallMark,
                  Heartbeat, Shutdown, TeardownUnmark, Crash
  <2>3. QED
      BY <1>1, <2>1, <2>2
<1>6. CASE Linux(p)
  <2>1. UNCHANGED os /\ os = "linux" /\ failures' \in Nat /\ failures' >= failures
      BY <1>6 DEF Linux, Call, Calling, Fails, Works, InstallNew, InstallFlush, InstallRule,
                  InstallUnsplice, InstallSplice, TeardownUnsplice, TeardownFlush, TeardownDelete
  <2> USE <1>1, <1>4, <2>1 DEF Call, Calling, Applies, iptables
  <2>2. CASE InstallNew(p)
      BY <2>2 DEF InstallNew
  <2>3. CASE InstallFlush(p)
      BY <2>3 DEF InstallFlush
  <2>4. CASE InstallRule(p)
      BY <2>4 DEF InstallRule
  <2>5. CASE InstallUnsplice(p)
      BY <2>5 DEF InstallUnsplice, Fails, Works
  <2>6. CASE InstallSplice(p)
      BY <2>6 DEF InstallSplice
  <2>7. CASE TeardownUnsplice(p)
      BY <2>7 DEF TeardownUnsplice
  <2>8. CASE TeardownFlush(p) \/ TeardownDelete(p)
      BY <2>8 DEF TeardownFlush, TeardownDelete
  <2>9. QED
      BY <1>6, <2>2, <2>3, <2>4, <2>5, <2>6, <2>7, <2>8 DEF Linux
<1>7. CASE Windows(p)
    BY <1>7 DEF Windows, Clear, Allow, Block, Verify, Unblock, Ungroup, ps, Calling
<1>8. QED
    BY <1>5, <1>6, <1>7 DEF Step

(* killSwitchArmed is set where an install ends, and by nothing else.      *)
LEMMA StepReport ==
  ASSUME Types, \A q \in Procs : Report(q), NEW p \in Procs, Step(p)
  PROVE  \A q \in Procs : Report(q)'
<1>1. \A q \in Procs \ {p} : Report(q)'
    BY Mover DEF Report
<1>2. Report(p)'
  <2> USE DEF Types, Goto, Report, Teardown, Undoing
  <2>1. CASE Invocation(p)
      BY <2>1 DEF Invocation, Start, Recover, Dispatch, Arm, Pass, InstallMark, Heartbeat, Shutdown,
                  TeardownUnmark, Crash
  <2>2. CASE Linux(p)
      BY <2>2 DEF Linux, Call, Calling, InstallNew, InstallFlush, InstallRule, InstallUnsplice,
                  InstallSplice, TeardownUnsplice, TeardownFlush, TeardownDelete
  <2>3. CASE Allow(p)
      BY <2>3, AllowSteps DEF AllowOne, ps, Calling
  <2>4. CASE Clear(p) \/ Block(p) \/ Verify(p) \/ Unblock(p) \/ Ungroup(p)
      BY <2>4, CarveoutNames DEF Clear, Block, Verify, Unblock, Ungroup, ps, Calling
  <2>5. QED
      BY <2>1, <2>2, <2>3, <2>4 DEF Step, Windows
<1>3. QED
    BY <1>1, <1>2

-----------------------------------------------------------------------------
(* An install goes on only past a call that worked, and to the marker only *)
(* when everything before it did: what Install says of the process that    *)
(* moves is carried along.                                                 *)
LEMMA StepInstallLinux ==
  ASSUME Types, NEW p \in Procs, Step(p), Report(p), os = "linux", InstallLinux(p)
  PROVE  InstallLinux(p)'
<1>1. /\ pc \in [Procs -> PCs] /\ ret \in [Procs -> {"dispatch", "exited"}]
      /\ armed \in [Procs -> BOOLEAN] /\ fw \in [chain : BOOLEAN, rules : Nat, jumps : Nat]
    BY DEF Types
<1> USE <1>1 DEF InstallLinux, Claims, Protected, Report, Teardown, Undoing, Goto
<1>2. CASE Invocation(p)
    BY <1>2 DEF Invocation, Start, Recover, Dispatch, Arm, Pass, InstallMark, Heartbeat, Shutdown,
                TeardownUnmark, Crash
<1>3. CASE Linux(p)
    BY <1>3 DEF Linux, Call, Calling, Applies, iptables, InstallNew, InstallFlush, InstallRule,
                InstallUnsplice, InstallSplice, TeardownUnsplice, TeardownFlush, TeardownDelete
<1>4. ~Windows(p)
    BY DEF Windows, Clear, Allow, Block, Verify, Unblock, Ungroup, ps, Calling
<1>5. QED
    BY <1>2, <1>3, <1>4 DEF Step

LEMMA StepInstallWindows ==
  ASSUME Types, NEW p \in Procs, Step(p), Report(p), os = "windows", InstallWindows(p)
  PROVE  InstallWindows(p)'
<1>1. /\ pc \in [Procs -> PCs] /\ ret \in [Procs -> {"dispatch", "exited"}]
      /\ armed \in [Procs -> BOOLEAN]
      /\ fw \in [default : {"allow", "block"}, allows : SUBSET CarveoutKinds]
    BY DEF Types
<1> USE <1>1 DEF InstallWindows, Claims, Enforced, Blocking, Report, Teardown, Undoing, Goto
<1>2. CASE Invocation(p)
    BY <1>2 DEF Invocation, Start, Recover, Dispatch, Arm, Pass, InstallMark, Heartbeat, Shutdown,
                TeardownUnmark, Crash
<1>3. ~Linux(p)
    BY DEF Linux, Call, Calling, InstallNew, InstallFlush, InstallRule,
           InstallUnsplice, InstallSplice, TeardownUnsplice, TeardownFlush, TeardownDelete
<1>4. CASE Allow(p)
    BY <1>4, AllowSteps DEF AllowOne, ps, Calling
<1>5. CASE Clear(p) \/ Block(p) \/ Unblock(p) \/ Ungroup(p)
    BY <1>5, CarveoutNames DEF Clear, Block, Default, Unblock, Ungroup, ps, Calling
<1>6. CASE Verify(p)
    BY <1>6 DEF Verify, ps, Calling
<1>7. QED
    BY <1>2, <1>3, <1>4, <1>5, <1>6 DEF Step, Windows

(* Without a failure: -D takes away the only jump there may be, -F the     *)
(* rules, -X the chain; and the default is reset before the group goes.    *)
LEMMA StepTornLinux ==
  ASSUME Types, NEW p \in Procs, Step(p), Firewall, failures' = 0,
         os = "linux", OneJump, TornLinux(p)
  PROVE  OneJump' /\ TornLinux(p)'
<1>1. /\ pc \in [Procs -> PCs] /\ ret \in [Procs -> {"dispatch", "exited"}]
      /\ fw \in [chain : BOOLEAN, rules : Nat, jumps : Nat]
    BY DEF Types
<1>2. ~Fails
    BY FailureCounted DEF Types
<1> USE <1>1, <1>2 DEF TornLinux, OneJump, Firewall, NoChain, Goto
<1>3. CASE Invocation(p)
    BY <1>3 DEF Invocation, Start, Recover, Dispatch, Arm, Pass, InstallMark, Heartbeat, Shutdown,
                TeardownUnmark, Crash
<1>4. CASE Linux(p)
  <2> USE DEF Call, Calling, Applies, iptables
  <2>1. CASE InstallNew(p) \/ InstallFlush(p) \/ InstallRule(p)
      BY <2>1 DEF InstallNew, InstallFlush, InstallRule
  <2>2. CASE InstallUnsplice(p) \/ InstallSplice(p)
      BY <2>2 DEF InstallUnsplice, InstallSplice
  <2>3. CASE TeardownUnsplice(p) \/ TeardownFlush(p)
      BY <2>3 DEF TeardownUnsplice, TeardownFlush
  <2>4. CASE TeardownDelete(p)
    <3>1. pc[p] = "tX" /\ fw.jumps = 0 /\ fw.rules = 0
        BY <2>4 DEF TeardownDelete
    <3>2. fw' = NoChain
      <4>1. CASE Applies("-X")
          BY <2>4, <3>1, <4>1 DEF TeardownDelete
      <4>2. CASE ~Applies("-X")
        <5>1. fw.chain = FALSE
            BY <3>1, <4>2
        <5>2. UNCHANGED fw
            BY <2>4, <4>2 DEF TeardownDelete
        <5>3. fw = [chain |-> fw.chain, rules |-> fw.rules, jumps |-> fw.jumps]
            OBVIOUS
        <5>4. QED
            BY <3>1, <5>1, <5>2, <5>3
      <4>3. QED
          BY <4>1, <4>2
    <3>3. pc'[p] = "unmark" /\ UNCHANGED os
        BY <2>4 DEF TeardownDelete
    <3>4. QED
        BY <3>2, <3>3
  <2>5. QED
      BY <1>4, <2>1, <2>2, <2>3, <2>4 DEF Linux
<1>5. ~Windows(p)
    BY DEF Windows, Clear, Allow, Block, Verify, Unblock, Ungroup, ps, Calling
<1>6. QED
    BY <1>3, <1>4, <1>5 DEF Step

LEMMA StepTornWindows ==
  ASSUME Types, NEW p \in Procs, Step(p), failures' = 0, os = "windows", TornWindows(p)
  PROVE  TornWindows(p)'
<1>1. /\ pc \in [Procs -> PCs] /\ ret \in [Procs -> {"dispatch", "exited"}]
      /\ fw \in [default : {"allow", "block"}, allows : SUBSET CarveoutKinds]
    BY DEF Types
<1>2. ~Fails
    BY FailureCounted DEF Types
<1> USE <1>1, <1>2 DEF TornWindows, NoGroup, Goto
<1>3. CASE Invocation(p)
    BY <1>3 DEF Invocation, Start, Recover, Dispatch, Arm, Pass, InstallMark, Heartbeat, Shutdown,
                TeardownUnmark, Crash
<1>4. ~Linux(p)
    BY DEF Linux, Call, Calling, InstallNew, InstallFlush, InstallRule,
           InstallUnsplice, InstallSplice, TeardownUnsplice, TeardownFlush, TeardownDelete
<1>5. CASE Allow(p)
    BY <1>5, AllowSteps DEF AllowOne, ps, Calling
<1>6. CASE Clear(p) \/ Block(p) \/ Verify(p) \/ Unblock(p) \/ Ungroup(p)
    BY <1>6, CarveoutNames DEF Clear, Block, Default, Verify, Unblock, Ungroup, ps, Calling
<1>7. QED
    BY <1>3, <1>4, <1>5, <1>6 DEF Step, Windows

(* A filter without a marker is known to the process between the last      *)
(* firewall call and the marker, when p is the only one there is.          *)
Own(p) == Filtered /\ ~marker => pc[p] \in {"verify", "mark"}

LEMMA StepToldLinux ==
  ASSUME Types, NEW p \in Procs, Step(p), failures' = 0, ~beaconless',
         os = "linux", Report(p), TornLinux(p), Told(p), Own(p)
  PROVE  Told(p)' /\ Own(p)'
<1>1. /\ pc \in [Procs -> PCs] /\ ret \in [Procs -> {"dispatch", "exited"}]
      /\ armed \in [Procs -> BOOLEAN]
      /\ fw \in [chain : BOOLEAN, rules : Nat, jumps : Nat]
    BY DEF Types
<1>2. ~Fails
    BY FailureCounted DEF Types
<1> USE <1>1, <1>2 DEF TornLinux, NoChain, Told, Own, Unfiltered, Filtered, Report, Teardown, Undoing, Goto
<1>3. CASE Invocation(p)
  <2>1. CASE Start(p)
      BY <2>1 DEF Start
  <2>2. CASE Recover(p)
      BY <2>2 DEF Recover
  <2>3. CASE Dispatch(p)
      BY <2>3 DEF Dispatch
  <2>4. CASE Arm(p)
      BY <2>4 DEF Arm, Pass
  <2>5. CASE InstallMark(p)
      BY <2>5 DEF InstallMark
  <2>6. CASE Heartbeat(p)
      BY <2>6 DEF Heartbeat
  <2>7. CASE Shutdown(p)
      BY <2>7 DEF Shutdown
  <2>8. CASE TeardownUnmark(p)
      BY <2>8 DEF TeardownUnmark
  <2>9. CASE Crash(p)
      BY <2>9 DEF Crash
  <2>10. QED
      BY <1>3, <2>1, <2>2, <2>3, <2>4, <2>5, <2>6, <2>7, <2>8, <2>9 DEF Invocation
<1>4. CASE Linux(p)
  <2> USE DEF Call, Calling, Applies, iptables
  <2>1. CASE InstallNew(p) \/ InstallFlush(p) \/ InstallRule(p)
      BY <2>1 DEF InstallNew, InstallFlush, InstallRule
  <2>2. CASE InstallUnsplice(p) \/ InstallSplice(p)
      BY <2>2 DEF InstallUnsplice, InstallSplice
  <2>3. CASE TeardownUnsplice(p) \/ TeardownFlush(p) \/ TeardownDelete(p)
      BY <2>3 DEF TeardownUnsplice, TeardownFlush, TeardownDelete
  <2>4. QED
      BY <1>4, <2>1, <2>2, <2>3 DEF Linux
<1>5. ~Windows(p)
    BY DEF Windows, Clear, Allow, Block, Verify, Unblock, Ungroup, ps, Calling
<1>6. QED
    BY <1>3, <1>4, <1>5 DEF Step

(* On Windows the same, and with it that the default blocks only while all *)
(* of the group is there: Clear and Ungroup run at the default "allow".    *)
LEMMA StepToldWindows ==
  ASSUME Types, NEW p \in Procs, Step(p), failures' = 0, ~beaconless',
         os = "windows", Report(p), TornWindows(p), Told(p), Own(p),
         InstallWindows(p), Soft(p), ~LockedOut
  PROVE  Told(p)' /\ Own(p)' /\ Soft(p)' /\ ~LockedOut'
<1>1. /\ pc \in [Procs -> PCs] /\ ret \in [Procs -> {"dispatch", "exited"}]
      /\ armed \in [Procs -> BOOLEAN]
      /\ fw \in [default : {"allow", "block"}, allows : SUBSET CarveoutKinds]
    BY DEF Types
<1>2. ~Fails
    BY FailureCounted DEF Types
<1> USE <1>1, <1>2
    DEF TornWindows, NoGroup, Told, Own, Unfiltered, Filtered, Blocking, Report, Teardown, Undoing, Goto,
        Soft, LockedOut
<1>3. CASE Invocation(p)
  <2>1. CASE Start(p)
      BY <2>1 DEF Start
  <2>2. CASE Recover(p)
      BY <2>2 DEF Recover
  <2>3. CASE Dispatch(p)
      BY <2>3 DEF Dispatch
  <2>4. CASE Arm(p)
      BY <2>4 DEF Arm, Pass
  <2>5. CASE InstallMark(p)
      BY <2>5 DEF InstallMark
  <2>6. CASE Heartbeat(p)
      BY <2>6 DEF Heartbeat
  <2>7. CASE Shutdown(p)
      BY <2>7 DEF Shutdown
  <2>8. CASE TeardownUnmark(p)
      BY <2>8 DEF TeardownUnmark
  <2>9. CASE Crash(p)
      BY <2>9 DEF Crash
  <2>10. QED
      BY <1>3, <2>1, <2>2, <2>3, <2>4, <2>5, <2>6, <2>7, <2>8, <2>9 DEF Invocation
<1>4. ~Linux(p)
    BY DEF Linux, Call, Calling, InstallNew, InstallFlush, InstallRule,
           InstallUnsplice, InstallSplice, TeardownUnsplice, TeardownFlush, TeardownDelete
<1>5. CASE Allow(p)
    BY <1>5, AllowSteps, CarveoutNames DEF AllowOne, ps, Calling, InstallWindows
<1>6. CASE Clear(p)
    BY <1>6, CarveoutNames DEF Clear, ps, Calling
<1>7. CASE Block(p) \/ Verify(p)
    BY <1>7 DEF Block, Default, Verify, ps, Calling
<1>8. CASE Unblock(p) \/ Ungroup(p)
    BY <1>8 DEF Unblock, Ungroup, Default, ps, Calling
<1>9. QED
    BY <1>3, <1>4, <1>5, <1>6, <1>7, <1>8 DEF Step, Windows

-----------------------------------------------------------------------------
(* Together: the facts about the process that moves follow by platform,    *)
(* those about the others from there being none.                           *)
LEMMA Platform ==
  ASSUME Types, [Next]_vars PROVE os \in {"linux", "windows"} /\ UNCHANGED os
<1>1. os \in {"linux", "windows"}
    BY KillSwitchAssumption DEF Types
<1>2. UNCHANGED os
    BY DEF Next, vars, Invocation, Start, Recover, Dispatch, Arm, Pass, InstallMark, Heartbeat,
           Shutdown, TeardownUnmark, Crash,
           Linux, Call, Calling, InstallNew, InstallFlush, InstallRule, InstallUnsplice,
           InstallSplice, TeardownUnsplice, TeardownFlush, TeardownDelete,
           Windows, Clear, Allow, Block, Verify, Unblock, Ungroup, ps
<1>3. QED
    BY <1>1, <1>2

LEMMA HistoryGrows ==
  ASSUME Types, NEW p \in Procs, Step(p)
  PROVE  (failures' = 0 => failures = 0) /\ (~beaconless' => ~beaconless)
<1>1. Fails \/ Works
    BY DEF Works, Step, Invocation, Start, Recover, Dispatch, Arm, Pass, InstallMark, Heartbeat,
           Shutdown, TeardownUnmark, Crash,
           Linux, Call, InstallNew, InstallFlush, InstallRule, InstallUnsplice,
           InstallSplice, TeardownUnsplice, TeardownFlush, TeardownDelete,
           Windows, Clear, Allow, Block, Verify, Unblock, Ungroup, ps
<1>2. ~beaconless' => ~beaconless
    BY DEF histVars, Step, Invocation, Start, Recover, Dispatch, Arm, Pass, InstallMark, Heartbeat,
           Shutdown, TeardownUnmark, Crash,
           Linux, Call, Calling, InstallNew, InstallFlush, InstallRule, InstallUnsplice,
           InstallSplice, TeardownUnsplice, TeardownFlush, TeardownDelete,
           Windows, Clear, Allow, Block, Verify, Unblock, Ungroup, ps
<1>3. QED
    BY <1>1, <1>2, FailureCounted DEF Types

LEMMA StepInv == ASSUME IInv, NEW p \in Procs, Step(p) PROVE IInv'
<1>1. /\ Types /\ Firewall /\ \A q \in Procs : Report(q)
      /\ [Next]_vars
    BY DEF IInv, Next, Step
<1>2. os \in {"linux", "windows"} /\ UNCHANGED os
    BY <1>1, Platform
<1>3. /\ Types' /\ Firewall' /\ \A q \in Procs : Report(q)'
      /\ Stacks' /\ \A q \in Procs : Locked(q)' /\ Fresh(q)'
    BY <1>1, NextTypeOK, StepFirewall, StepReport, StepLocked, StepStacks DEF IInv
<1>4. ~overlap' => /\ ~overlap /\ Alone' /\ Install(p)
                   /\ \A q \in Procs \ {p} : pc[q] \in Ended /\ pc'[q] \in Ended
    BY <1>1, NobodyElse DEF IInv
<1>5. \A q \in Procs \ {p} : ~overlap' => Install(q)' /\ Torn(q)' /\ Told(q)' /\ Soft(q)'
    BY <1>4, EndedSaysNothing
<1>6. ASSUME ~overlap' PROVE Install(p)'
    BY <1>1, <1>2, <1>4, <1>6, StepInstallLinux, StepInstallWindows DEF Install
<1>7. ASSUME ~overlap', failures' = 0 PROVE OneJump' /\ Torn(p)'
  <2>1. OneJump /\ Torn(p)
      BY <1>1, <1>4, <1>7, HistoryGrows DEF IInv
  <2>2. CASE os = "linux"
      BY <1>1, <1>2, <1>7, <2>1, <2>2, StepTornLinux DEF Torn
  <2>3. CASE os = "windows"
      BY <1>1, <1>2, <1>7, <2>1, <2>3, StepTornWindows DEF Torn, OneJump
  <2>4. QED
      BY <1>2, <2>2, <2>3
<1>8. ASSUME ~overlap', failures' = 0, ~beaconless'
      PROVE  /\ Beacon' /\ Told(p)'
             /\ os = "windows" => ~LockedOut' /\ Soft(p)'
  <2>1. /\ Torn(p) /\ Told(p) /\ Beacon /\ Install(p)
        /\ os = "windows" => ~LockedOut /\ Soft(p)
      BY <1>1, <1>4, <1>8, HistoryGrows DEF IInv
  <2>2. Own(p)
      BY <1>4, <1>8, <2>1 DEF Beacon, Own, Ended
  <2>3. CASE os = "linux"
      BY <1>1, <1>8, <2>1, <2>2, <2>3, StepToldLinux DEF Torn, Own, Beacon
  <2>4. CASE os = "windows"
      BY <1>1, <1>8, <2>1, <2>2, <2>4, StepToldWindows DEF Torn, Install, Own, Beacon
  <2>5. QED
      BY <1>2, <2>3, <2>4
<1>9. QED
    BY <1>2, <1>3, <1>4, <1>5, <1>6, <1>7, <1>8 DEF IInv

LEMMA NextInv == IInv /\ [Next]_vars => IInv'
<1> SUFFICES ASSUME IInv, [Next]_vars PROVE IInv'
    OBVIOUS
<1>1. CASE UNCHANGED vars
  <2> USE <1>1 DEF vars, histVars
  <2>1. Types' /\ \A p \in Procs : Report(p) <=> Report(p)'
      BY NextTypeOK DEF IInv, Report
  <2>2. /\ Firewall <=> Firewall'
        /\ Alone <=> Alone'
        /\ OneJump <=> OneJump'
        /\ Beacon <=> Beacon'
        /\ LockedOut <=> LockedOut'
        /\ Stacks <=> Stacks'
      BY DEF Firewall, Alone, Alive, OneJump, Beacon, Filtered, Blocking, LockedOut, Stacks
  <2>3. \A p \in Procs : /\ Install(p) <=> Install(p)'
                         /\ Torn(p) <=> Torn(p)'
                         /\ Told(p) <=> Told(p)'
                         /\ Soft(p) <=> Soft(p)'
                         /\ Locked(p) <=> Locked(p)'
                         /\ Fresh(p) <=> Fresh(p)'
      BY DEF Install, InstallLinux, InstallWindows, Claims, Protected, Enforced, Blocking,
             Torn, TornLinux, TornWindows, Told, Filtered, Soft, Locked, Fresh
  <2>4. QED
      BY <2>1, <2>2, <2>3 DEF IInv
<1>2. ASSUME NEW p \in Procs, Step(p) PROVE IInv'
    BY <1>2, StepInv
<1>3. QED
    BY <1>1, <1>2 DEF Next, Step

-----------------------------------------------------------------------------
(* Whichever firewall call fails, and wherever a process dies: what holds  *)
(* between the points the properties look at.                              *)
THEOREM KillSwitchInvariant == Spec => []IInv
BY InitInv, NextInv, PTL DEF Spec

(* The variables keep their types; and however many installs, recoveries   *)
(* and teardowns were cut short by failures or crashes, and overlap, the   *)
(* chain never has two rules, and no more jumps lead to it than one and    *)
(* the calls that failed (killswitch_linux.go, installKillSwitch).         *)
THEOREM KillSwitchTypeCorrect == Spec => []TypeOK
<1>1. IInv => TypeOK
  <2> SUFFICES ASSUME IInv PROVE TypeOK
      OBVIOUS
  <2>1. os = "linux" => fw \in [chain : BOOLEAN, rules : 0..1, jumps : 0..failures + 1]
    <3> SUFFICES ASSUME os = "linux"
                 PROVE  fw \in [chain : BOOLEAN, rules : 0..1, jumps : 0..failures + 1]
        OBVIOUS
    <3>1. fw \in [chain : BOOLEAN, rules : Nat, jumps : Nat]
        BY DEF IInv, Types
    <3>2. fw.rules \in 0..1 /\ fw.jumps \in 0..failures + 1
        BY DEF IInv, Stacks
    <3>3. QED
        BY <3>1, <3>2
  <2>2. QED
      BY <2>1 DEF IInv, Types, TypeOK
<1>2. QED
    BY <1>1, KillSwitchInvariant, PTL

(* killSwitchArmed, the value the heartbeat reports, is only true while    *)
(* the rules are in place, unless two invocations overlap, or the run was  *)
(* revoked and its own teardown has begun to take them down.               *)
THEOREM ReportIsHonest == Spec => []HonestUnlessOverlap
<1>1. IInv => HonestUnlessOverlap
  <2> SUFFICES ASSUME IInv, ~overlap, NEW p \in Procs, Beats(p), armed[p], pc[p] \notin Undoing
               PROVE  Active
      BY DEF HonestUnlessOverlap
  <2>1. os \in {"linux", "windows"} /\ Install(p)
      BY KillSwitchAssumption DEF IInv, Types
  <2>2. Claims(p)
      BY DEF Beats, Teardown, Claims
  <2>3. QED
      BY <2>1, <2>2 DEF Active, Install, InstallLinux, InstallWindows
<1>2. QED
    BY <1>1, KillSwitchInvariant, PTL

(* recoverKillSwitchIfLeftArmed leaves neither a filter nor a marker,      *)
(* wherever the run before it died but between enforcing and marking.      *)
THEOREM CrashIsRecovered == Spec => []CrashRecovered
<1>1. IInv => CrashRecovered
    BY DEF IInv, CrashRecovered, Told, Unfiltered
<1>2. QED
    BY <1>1, KillSwitchInvariant, PTL

(* installKillSwitch and teardownKillSwitch on Windows, and every crash    *)
(* that leaves a marker: outbound traffic is blocked by default only with  *)
(* every carve-out in place.                                               *)
THEOREM NobodyIsLockedOut == Spec => []NeverLockedOut
<1>1. IInv => NeverLockedOut
    BY DEF IInv, NeverLockedOut
<1>2. QED
    BY <1>1, KillSwitchInvariant, PTL

(* A teardown, a recovery and a logout that end, with no call failing,     *)
(* have restored the firewall and removed the marker: no jump and no chain *)
(* is left of the installs of any earlier run.                             *)
THEOREM TeardownCompletes == Spec => TeardownIsComplete
<1>1. ASSUME IInv, [Next]_vars, NEW p \in Procs, failures = 0, ~overlap,
             pc[p] = "unmark", pc'[p] # "crashed", pc'[p] # "unmark"
      PROVE  fw' = Untouched /\ ~marker'
  <2>1. Types /\ Torn(p) /\ os \in {"linux", "windows"}
      BY <1>1, Platform DEF IInv
  <2>2. fw = Untouched
      BY <1>1, <2>1 DEF Torn, TornLinux, TornWindows, Untouched
  <2>3. PICK q \in Procs : Step(q)
      BY <1>1 DEF Next, Step, vars
  <2>4. Step(p)
      BY <1>1, <2>1, <2>3, Mover
  <2>5. TeardownUnmark(p)
    <3>1. ~Allow(p)
        BY <1>1, AllowSteps DEF AllowOne, ps, Calling
    <3>2. QED
        BY <1>1, <2>1, <2>4, <3>1, CarveoutNames
        DEF Types, Goto, Step, Alive, Invocation, Start, Recover, Dispatch, Arm, Pass, InstallMark, Heartbeat,
            Shutdown, Crash,
            Linux, Call, Calling, InstallNew, InstallFlush, InstallRule, InstallUnsplice,
            InstallSplice, TeardownUnsplice, TeardownFlush, TeardownDelete,
            Windows, Clear, Block, Verify, Unblock, Ungroup, ps
  <2>6. QED
      BY <2>2, <2>5 DEF TeardownUnmark, Untouched, NoChain, NoGroup
<1>2. IInv /\ [Next]_vars =>
        [\A p \in Procs :
           pc[p] = "unmark" /\ pc'[p] # "crashed" /\ pc'[p] # "unmark" /\ failures = 0 /\ ~overlap
             => fw' = Untouched /\ ~marker']_vars
    BY <1>1
<1>3. QED
    BY <1>2, KillSwitchInvariant, PTL DEF Spec, TeardownIsComplete
=============================================================================
