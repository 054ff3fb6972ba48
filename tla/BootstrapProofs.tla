-------------------------- MODULE BootstrapProofs --------------------------
(***************************************************************************)
(* Proofs about Bootstrap, for any set of invocations, any number of       *)
(* pairings and of failing file operations, and whatever the configs say.  *)
(***************************************************************************)
EXTENDS Bootstrap, TLAPS

Runs   == Kinds \ {"logout"}
Wiping == {"stat", "zero", "unlink"}

(* What an invocation is determines where it can be; a run holds the lock, *)
(* so there is one at most.                                                *)
Role(p) ==
  /\ Alive(p) <=> kind[p] # "none"
  /\ kind[p] = "logout" => pc[p] \in {"logout", "revoke", "leftovers"} \union Wiping
  /\ kind[p] \in Runs =>
       /\ holder = p
       /\ pc[p] \in {"load", "claim", "ping", "connect"} \union Saving \union Wiping

(* What is in memory.  A save saves the peer claimed last, and not on top  *)
(* of itself; a preflight is about the peer in the file, if there is one,  *)
(* and wipes only what has ended.                                          *)
Memory(p) ==
  /\ mem[p] <= issued
  /\ pc[p] \in Saving => mem[p] = issued /\ claimed = issued /\ issued # 0 /\ file # issued
  /\ pc[p] = "rename" => tmp = mem[p]
  /\ pc[p] \in {"ping", "revoke"} \union Wiping => mem[p] # 0
  /\ kind[p] \in Runs /\ pc[p] \in {"ping"} \union Wiping /\ file \in Peers /\ ~unsaved =>
       file = mem[p]
  /\ kind[p] \in Runs /\ pc[p] \in Wiping => status[mem[p]] \in {"revoked", "unknown"}

(* The control plane knows the peers it has issued.                        *)
Ledger == \A q \in Peers : status[q] = "none" <=> q > issued

(* The temporary file belongs to the save in progress, or to a crash.      *)
Disk ==
  /\ unsaved => failures > 0
  /\ \A p \in Procs : pc[p] = "createTmp" /\ tmp # Absent => failures > 0
  /\ tmp # Absent /\ ~lost /\ failures = 0 => \E p \in Procs : pc[p] \in {"writeTmp", "rename"}

(* While nothing has been lost, refused or asked for: the peer claimed     *)
(* last is in the file or being saved, unless it has ended; and the        *)
(* preflight looks at no other.                                            *)
Calm == ~lost /\ ~unsaved /\ ~asked

Kept == claimed # 0 /\ status[claimed] = "active" =>
          file = claimed \/ \E p \in Procs : pc[p] \in Saving

Current(p) == kind[p] \in Runs /\ claimed # 0 /\ status[claimed] = "active" =>
  /\ pc[p] = "ping" => mem[p] = claimed
  /\ pc[p] \notin Wiping

Asked(p) == kind[p] = "logout" /\ pc[p] # "logout" => asked

(* A logout that is alone finds the file until it has removed it.          *)
Alone == \A p, q \in Procs : Alive(p) /\ Alive(q) => p = q

Logout(p) == kind[p] = "logout" =>
  /\ pc[p] \in {"zero", "unlink"} => file # Absent
  /\ pc[p] = "leftovers" => file = Absent

IInv ==
  /\ TypeOK /\ Ledger /\ Disk
  /\ \A p \in Procs : Role(p) /\ Memory(p) /\ Asked(p)
  /\ Calm => Kept /\ \A p \in Procs : Current(p)
  /\ ~overlap => Alone /\ \A p \in Procs : Logout(p)

-----------------------------------------------------------------------------
(* Before any invocation.                                                  *)
LEMMA InitInv == Init => IInv
<1> SUFFICES ASSUME Init PROVE IInv
    OBVIOUS
<1>1. MaxPeers \in Nat /\ MaxFail \in Nat /\ Stored \subseteq Peers /\ NoHolder \notin Procs
    BY BootstrapAssumption
<1>2. /\ issued \in 0..MaxPeers /\ file \in {Absent, Junk} \union 1..issued
      /\ issued # 0 => file = issued
      /\ claimed = issued
    BY <1>1 DEF Init, Peers, Absent, Junk
<1>3. TypeOK
  <2>1. unit \in BOOLEAN /\ {unsaved, lost, asked, overlap} \subseteq BOOLEAN
      BY Zenon DEF Init
  <2>2. QED
      BY <1>1, <1>2, <2>1 DEF Init, TypeOK, PCs, Ended
<1>4. Ledger
    BY <1>1, <1>2 DEF Init, Ledger, Peers
<1>5. \A p \in Procs : kind[p] = "none" /\ pc[p] = "new" /\ mem[p] = 0
    BY DEF Init
<1>6. Disk
    BY <1>5 DEF Init, Disk
<1>7. \A p \in Procs : Role(p) /\ Memory(p) /\ Asked(p) /\ Current(p) /\ Logout(p)
    BY <1>1, <1>2, <1>5
    DEF Role, Memory, Asked, Current, Logout, Alive, Ended, Runs, Kinds, Wiping, Saving
<1>8. Kept /\ Alone
    BY <1>2, <1>5 DEF Kept, Alone, Alive, Ended
<1>9. QED
    BY <1>3, <1>4, <1>6, <1>7, <1>8 DEF IInv

-----------------------------------------------------------------------------
(* A failure is counted, within the bound.                                 *)
LEMMA FailureCounted ==
  ASSUME failures \in 0..MaxFail
  PROVE  /\ Fails \/ Works => failures' \in 0..MaxFail
         /\ Fails => failures' > 0
         /\ Works => failures' = failures
BY BootstrapAssumption DEF Fails, Works

(* One invocation moves at a time.                                         *)
Moves(p) == \/ Start(p) \/ runDefault(p) \/ runLogout(p)
            \/ SaveConfig(p) \/ WipeConfig(p) \/ Crash(p)

(* What LoadConfig returns.                                                *)
LEMMA LoadedType == Loaded \in 1..MaxPeers \union {0}
BY DEF Loaded, Peers

(* Every step keeps the types, because the peer a save writes is issued.   *)
LEMMA StepTypeOK ==
  ASSUME TypeOK, NEW p \in Procs, Memory(p), Moves(p) PROVE TypeOK'
<1> USE BootstrapAssumption, FailureCounted
    DEF TypeOK, Peers, Absent, Junk, PCs, Ended, Saving, Kinds,
        Goto, Step, End, procVars, diskVars, srvVars, histVars, Memory
<1>1. CASE Start(p)
    BY <1>1 DEF Start
<1>2. CASE LoadConfig(p)
    BY <1>2, LoadedType DEF LoadConfig
<1>3. CASE Claim(p)
    BY <1>3 DEF Claim, Issue
<1>4. CASE ClaimFails(p)
    BY <1>4 DEF ClaimFails, Issue
<1>5. CASE pingC2State(p)
    BY <1>5 DEF pingC2State
<1>6. CASE Disconnect(p)
    BY <1>6 DEF Disconnect
<1>7. CASE RemoveTmp(p)
    BY <1>7 DEF RemoveTmp, SaveGoesOn
<1>8. CASE CreateTmp(p)
  <2>1. CASE SaveGoesOn(p, "createTmp", "writeTmp")
      BY <1>8, <2>1 DEF CreateTmp, SaveGoesOn
  <2>2. CASE SaveEnds(p, "createTmp", FALSE)
    <3>1. failures' \in 0..MaxFail /\ tmp' \in {Absent, Junk} \union 1..issued
        BY <1>8 DEF CreateTmp
    <3>2. pc' \in [Procs -> PCs]
        BY <2>2 DEF SaveEnds
    <3>3. {unsaved', lost', asked', overlap'} \subseteq BOOLEAN
        BY <2>2 DEF SaveEnds
    <3>4. UNCHANGED <<kind, mem, ret, holder, file, unit, issued, status, claimed>>
        BY <1>8, <2>2 DEF CreateTmp, SaveEnds
    <3>5. QED
        BY <3>1, <3>2, <3>3, <3>4, Zenon
  <2>3. QED
      BY <1>8, <2>1, <2>2 DEF CreateTmp
<1>9. CASE WriteTmp(p)
  <2>1. CASE tmp' = mem[p] /\ Works /\ SaveGoesOn(p, "writeTmp", "rename")
    <3>1. mem[p] \in 1..issued
        BY <2>1 DEF SaveGoesOn
    <3>2. QED
        BY <1>9, <2>1, <3>1 DEF WriteTmp, SaveGoesOn
  <2>2. CASE tmp' = Absent /\ Fails /\ SaveEnds(p, "writeTmp", FALSE)
      BY <1>9, <2>2 DEF WriteTmp, SaveEnds
  <2>3. QED
      BY <1>9, <2>1, <2>2 DEF WriteTmp
<1>10. CASE Rename(p)
  <2>1. /\ file' \in {Absent, Junk} \union 1..issued /\ tmp' = Absent
        /\ failures' \in 0..MaxFail /\ UNCHANGED <<unit, issued, status, claimed>>
      BY <1>10 DEF Rename
  <2>2. PICK ok \in BOOLEAN : SaveEnds(p, "rename", ok)
      BY <1>10, Zenon DEF Rename
  <2>3. /\ pc' \in [Procs -> PCs] /\ UNCHANGED <<kind, mem, ret, holder>>
        /\ {unsaved', lost', asked', overlap'} \subseteq BOOLEAN
      BY <2>2 DEF SaveEnds
  <2>4. QED
      BY <2>1, <2>3
<1>11. CASE Stat(p)
    BY <1>11 DEF Stat, WipeEnds
<1>12. CASE Zero(p)
    BY <1>12 DEF Zero
<1>13. CASE Unlink(p)
    BY <1>13 DEF Unlink, WipeEnds
<1>14. CASE LogoutLoad(p)
    BY <1>14, LoadedType DEF LogoutLoad
<1>15. CASE bestEffortRevoke(p)
    BY <1>15 DEF bestEffortRevoke
<1>16. CASE Leftovers(p)
    BY <1>16 DEF Leftovers
<1>17. CASE Crash(p)
    BY <1>17 DEF Crash
<1>18. QED
    BY <1>1, <1>2, <1>3, <1>4, <1>5, <1>6, <1>7, <1>8, <1>9, <1>10, <1>11, <1>12, <1>13, <1>14, <1>15, <1>16, <1>17
    DEF Moves, runDefault, runLogout, SaveConfig, WipeConfig

(* The step of one invocation leaves the others where they are.            *)
LEMMA StepFrame ==
  ASSUME TypeOK, NEW p \in Procs, Moves(p)
  PROVE  \A q \in Procs \ {p} : /\ pc'[q] = pc[q] /\ kind'[q] = kind[q] /\ mem'[q] = mem[q]
                                /\ holder = q => holder' = q
<1>1. /\ pc \in [Procs -> PCs] /\ mem \in [Procs -> Peers \union {0}]
      /\ kind \in [Procs -> Kinds \union {"none"}] /\ NoHolder \notin Procs
    BY BootstrapAssumption DEF TypeOK
<1> USE <1>1 DEF Goto, Step, End, procVars
<1>2. CASE Start(p)
    BY <1>2 DEF Start
<1>3. CASE LoadConfig(p)
    BY <1>3 DEF LoadConfig, Loaded
<1>4. CASE Claim(p)
    BY <1>4 DEF Claim, Issue
<1>5. CASE ClaimFails(p)
    BY <1>5 DEF ClaimFails, Issue
<1>6. CASE pingC2State(p)
    BY <1>6 DEF pingC2State
<1>7. CASE Disconnect(p)
    BY <1>7 DEF Disconnect
<1>8. CASE RemoveTmp(p)
    BY <1>8 DEF RemoveTmp, SaveGoesOn
<1>9. CASE CreateTmp(p)
    BY <1>9 DEF CreateTmp, SaveGoesOn, SaveEnds
<1>10. CASE WriteTmp(p)
    BY <1>10 DEF WriteTmp, SaveGoesOn, SaveEnds
<1>11. CASE Rename(p)
    BY <1>11 DEF Rename, SaveEnds
<1>12. CASE Stat(p)
    BY <1>12 DEF Stat, WipeEnds
<1>13. CASE Zero(p)
    BY <1>13 DEF Zero
<1>14. CASE Unlink(p)
    BY <1>14 DEF Unlink, WipeEnds
<1>15. CASE LogoutLoad(p)
    BY <1>15 DEF LogoutLoad, Loaded
<1>16. CASE bestEffortRevoke(p)
    BY <1>16 DEF bestEffortRevoke
<1>17. CASE Leftovers(p)
    BY <1>17 DEF Leftovers
<1>18. CASE Crash(p)
    BY <1>18 DEF Crash
<1>19. QED
    BY <1>2, <1>3, <1>4, <1>5, <1>6, <1>7, <1>8, <1>9, <1>10, <1>11, <1>12, <1>13, <1>14, <1>15, <1>16, <1>17, <1>18
    DEF Moves, runDefault, runLogout, SaveConfig, WipeConfig

(* Only a run passes the lock, and each kind keeps to its own path.        *)
LEMMA StepRole ==
  ASSUME TypeOK, \A q \in Procs : Role(q), NEW p \in Procs, Moves(p)
  PROVE  \A q \in Procs : Role(q)'
<1>1. \A q \in Procs \ {p} : Role(q)'
    BY StepFrame DEF Role, Alive
<1>2. Role(p)'
  <2>1. /\ pc \in [Procs -> PCs] /\ ret \in [Procs -> {"ping", "connect"}]
        /\ kind \in [Procs -> Kinds \union {"none"}]
      BY DEF TypeOK
  <2> USE <2>1 DEF Role, Alive, Ended, Saving, Wiping, Runs, Kinds, Goto, Step, End, procVars
  <2>2. CASE Start(p)
      BY <2>2 DEF Start
  <2>3. CASE LoadConfig(p)
      BY <2>3 DEF LoadConfig, Loaded
  <2>4. CASE Claim(p)
      BY <2>4 DEF Claim, Issue
  <2>5. CASE ClaimFails(p)
      BY <2>5 DEF ClaimFails, Issue
  <2>6. CASE pingC2State(p)
      BY <2>6 DEF pingC2State
  <2>7. CASE Disconnect(p)
      BY <2>7 DEF Disconnect
  <2>8. CASE RemoveTmp(p)
      BY <2>8 DEF RemoveTmp, SaveGoesOn
  <2>9. CASE CreateTmp(p)
      BY <2>9 DEF CreateTmp, SaveGoesOn, SaveEnds
  <2>10. CASE WriteTmp(p)
      BY <2>10 DEF WriteTmp, SaveGoesOn, SaveEnds
  <2>11. CASE Rename(p)
      BY <2>11 DEF Rename, SaveEnds
  <2>12. CASE Stat(p)
      BY <2>12 DEF Stat, WipeEnds
  <2>13. CASE Zero(p)
      BY <2>13 DEF Zero
  <2>14. CASE Unlink(p)
      BY <2>14 DEF Unlink, WipeEnds
  <2>15. CASE LogoutLoad(p)
      BY <2>15 DEF LogoutLoad, Loaded
  <2>16. CASE bestEffortRevoke(p)
      BY <2>16 DEF bestEffortRevoke
  <2>17. CASE Leftovers(p)
      BY <2>17 DEF Leftovers
  <2>18. CASE Crash(p)
      BY <2>18 DEF Crash
  <2>19. QED
      BY <2>2, <2>3, <2>4, <2>5, <2>6, <2>7, <2>8, <2>9, <2>10, <2>11, <2>12, <2>13, <2>14, <2>15, <2>16, <2>17, <2>18
      DEF Moves, runDefault, runLogout, SaveConfig, WipeConfig
<1>3. QED
    BY <1>1, <1>2

(* What the step does to the disk, to the control plane (a claim issues a  *)
(* new peer, an end is final) and to the history.                          *)
Effects(p) ==
  /\ \/ UNCHANGED <<issued, claimed>>
     \/ /\ pc[p] = "claim" /\ issued' = issued + 1
        /\ UNCHANGED claimed \/ claimed' = issued'
  /\ \A q \in Peers :
       /\ status[q] \in {"revoked", "unknown"} => status'[q] \in {"revoked", "unknown"}
       /\ status[q] # "none" => status'[q] # "none"
       /\ UNCHANGED issued \/ q # issued' =>
            /\ status[q] = "none" => status'[q] = "none"
            /\ status'[q] = "active" => status[q] = "active"
       /\ issued' # issued /\ q = issued' => status'[q] # "none"
  /\ \/ UNCHANGED file
     \/ pc[p] = "rename" /\ file' = tmp
     \/ pc[p] \in {"zero", "unlink"} /\ file' \in {Absent, Junk}
  /\ UNCHANGED tmp \/ pc[p] \in Saving

Grows == (unsaved => unsaved') /\ (lost => lost') /\ (asked => asked') /\ (overlap => overlap')

LEMMA StepGrows == ASSUME NEW p \in Procs, Moves(p) PROVE Grows
<1> USE DEF Grows, histVars
<1>a. ASSUME NEW from, NEW to, SaveGoesOn(p, from, to) PROVE Grows
    BY <1>a, Zenon DEF SaveGoesOn
<1>b. ASSUME NEW from, NEW ok, SaveEnds(p, from, ok) PROVE Grows
    BY <1>b, Zenon DEF SaveEnds
<1>1. CASE Start(p)
    BY <1>1, Zenon DEF Start
<1>2. CASE LoadConfig(p)
    BY <1>2, Zenon DEF LoadConfig
<1>3. CASE Claim(p)
    BY <1>3, Zenon DEF Claim, Issue
<1>4. CASE ClaimFails(p)
    BY <1>4, Zenon DEF ClaimFails, Issue
<1>5. CASE pingC2State(p)
    BY <1>5, Zenon DEF pingC2State
<1>6. CASE Disconnect(p)
    BY <1>6, Zenon DEF Disconnect
<1>7. CASE RemoveTmp(p)
    BY <1>7, Zenon DEF RemoveTmp, SaveGoesOn
<1>8. CASE CreateTmp(p)
    BY <1>8, <1>a, <1>b, Zenon DEF CreateTmp
<1>9. CASE WriteTmp(p)
    BY <1>9, <1>a, <1>b, Zenon DEF WriteTmp
<1>10. CASE Rename(p)
    BY <1>10, <1>a, <1>b, Zenon DEF Rename
<1>11. CASE Stat(p)
    BY <1>11, Zenon DEF Stat, WipeEnds
<1>12. CASE Zero(p)
    BY <1>12, Zenon DEF Zero
<1>13. CASE Unlink(p)
    BY <1>13, Zenon DEF Unlink, WipeEnds
<1>14. CASE LogoutLoad(p)
  <2>1. UNCHANGED <<unsaved, lost, overlap>>
      BY <1>14 DEF LogoutLoad
  <2>2. UNCHANGED asked \/ asked' = TRUE
      BY <1>14 DEF LogoutLoad
  <2>3. QED
      BY <2>1, <2>2
<1>15. CASE bestEffortRevoke(p)
    BY <1>15, Zenon DEF bestEffortRevoke
<1>16. CASE Leftovers(p)
    BY <1>16, Zenon DEF Leftovers
<1>17. CASE Crash(p)
    BY <1>17, Zenon DEF Crash
<1>18. QED
    BY <1>1, <1>2, <1>3, <1>4, <1>5, <1>6, <1>7, <1>8, <1>9, <1>10, <1>11, <1>12, <1>13, <1>14, <1>15, <1>16, <1>17
    DEF Moves, runDefault, runLogout, SaveConfig, WipeConfig

LEMMA StepEffects == ASSUME TypeOK, Ledger, NEW p \in Procs, Moves(p) PROVE Effects(p)
<1>1. /\ status \in [Peers -> {"none", "active", "revoked", "unknown"}]
      /\ issued \in 0..MaxPeers /\ MaxPeers \in Nat
      /\ \A q \in Peers : status[q] = "none" <=> q > issued
    BY BootstrapAssumption DEF TypeOK, Ledger
<1> USE <1>1 DEF Effects, Peers, Goto, Step, End, Saving, srvVars, diskVars, histVars
<1>2. CASE Start(p)
    BY <1>2 DEF Start
<1>3. CASE LoadConfig(p)
    BY <1>3 DEF LoadConfig, Loaded
<1>4. CASE Claim(p)
    BY <1>4 DEF Claim, Issue
<1>5. CASE ClaimFails(p)
    BY <1>5 DEF ClaimFails, Issue
<1>6. CASE pingC2State(p)
    BY <1>6 DEF pingC2State
<1>7. CASE Disconnect(p)
    BY <1>7 DEF Disconnect
<1>8. CASE RemoveTmp(p)
    BY <1>8 DEF RemoveTmp, SaveGoesOn
<1>9. CASE CreateTmp(p)
    BY <1>9 DEF CreateTmp, SaveGoesOn, SaveEnds
<1>10. CASE WriteTmp(p)
    BY <1>10 DEF WriteTmp, SaveGoesOn, SaveEnds
<1>11. CASE Rename(p)
    BY <1>11 DEF Rename, SaveEnds
<1>12. CASE Stat(p)
    BY <1>12 DEF Stat, WipeEnds
<1>13. CASE Zero(p)
    BY <1>13 DEF Zero
<1>14. CASE Unlink(p)
    BY <1>14 DEF Unlink, WipeEnds
<1>15. CASE LogoutLoad(p)
    BY <1>15 DEF LogoutLoad, Loaded
<1>16. CASE bestEffortRevoke(p)
    BY <1>16 DEF bestEffortRevoke
<1>17. CASE Leftovers(p)
    BY <1>17 DEF Leftovers
<1>18. CASE Crash(p)
    BY <1>18 DEF Crash
<1>19. QED
    BY <1>2, <1>3, <1>4, <1>5, <1>6, <1>7, <1>8, <1>9, <1>10, <1>11, <1>12, <1>13, <1>14, <1>15, <1>16, <1>17, <1>18
    DEF Moves, runDefault, runLogout, SaveConfig, WipeConfig

(* While somebody else runs, an invocation starts, or is a logout.         *)
LEMMA OthersLogOut ==
  ASSUME TypeOK, \A q \in Procs : Role(q), NEW p \in Procs, NEW q \in Procs \ {p},
         kind[q] \in Runs
  PROVE  pc[p] \in Ended \union {"logout", "revoke", "leftovers"} \union Wiping
BY DEF TypeOK, Role, Alive, Runs, Kinds

(* What the others have in memory stays what it is: their peer's end is    *)
(* final, and nobody but the run that holds the lock stores another one.   *)
LEMMA MemoryOfOthers ==
  ASSUME TypeOK, \A q \in Procs : Role(q), Ledger, NEW p \in Procs, Moves(p),
         NEW q \in Procs \ {p}, Memory(q)
  PROVE  Memory(q)'
<1>1. Effects(p) /\ Grows /\ pc'[q] = pc[q] /\ kind'[q] = kind[q] /\ mem'[q] = mem[q]
    BY StepEffects, StepGrows, StepFrame
<1>2. /\ mem[q] \in Peers \union {0} /\ issued \in 0..MaxPeers /\ MaxPeers \in Nat
    BY BootstrapAssumption DEF TypeOK
<1>3. pc[q] \in Saving \union {"ping"} => kind[q] \in Runs
    BY DEF Role, Alive, Ended, Saving, Wiping, Runs, TypeOK
<1>4. kind[q] \in Runs => /\ UNCHANGED <<issued, claimed, tmp>>
                          /\ UNCHANGED file \/ file' \in {Absent, Junk}
    BY <1>1, OthersLogOut DEF Effects, Ended, Wiping, Saving
<1>5. issued' >= issued
    BY <1>1, <1>2 DEF Effects
<1>6. CASE kind[q] \in Runs
  <2>1. mem[q] <= issued' /\ UNCHANGED <<issued, claimed, tmp>>
      BY <1>4, <1>6 DEF Memory
  <2>2. pc[q] \in Saving => mem[q] = issued /\ claimed = issued /\ issued # 0 /\ file' # issued
      BY <1>2, <1>4, <1>6 DEF Memory, Absent, Junk
  <2>3. file' \in Peers /\ ~unsaved' => UNCHANGED file /\ ~unsaved
      BY <1>1, <1>2, <1>4, <1>6 DEF Grows, Peers, Absent, Junk
  <2>4. pc[q] \in Wiping => status'[mem[q]] \in {"revoked", "unknown"}
    <3>1. pc[q] \in Wiping => mem[q] \in Peers /\ status[mem[q]] \in {"revoked", "unknown"}
        BY <1>2, <1>6 DEF Memory
    <3>2. QED
        BY <1>1, <3>1 DEF Effects
  <2>5. QED
      BY <1>1, <1>6, <2>1, <2>2, <2>3, <2>4 DEF Memory
<1>7. CASE kind[q] \notin Runs
  <2>1. pc[q] \notin Saving /\ pc[q] # "rename"
      BY <1>3, <1>7 DEF Saving
  <2>2. mem'[q] <= issued'
      BY <1>1, <1>2, <1>5 DEF Effects, Memory, Peers
  <2>3. pc'[q] \in {"ping", "revoke"} \union Wiping => mem'[q] # 0
      BY <1>1 DEF Memory
  <2>4. /\ pc'[q] = pc[q] /\ kind'[q] \notin Runs /\ mem'[q] = mem[q]
      BY <1>1, <1>7
  <2>5. QED
      BY <2>1, <2>2, <2>3, <2>4 DEF Memory
<1>8. QED
    BY <1>6, <1>7

(* Its own memory: a claim is what it saves next, a rename stores it, and  *)
(* a preflight wipes what the control plane has ended.                     *)
LEMMA MemoryOfMover ==
  ASSUME TypeOK, Ledger, NEW p \in Procs, Role(p), Memory(p), Moves(p)
  PROVE  Memory(p)'
<1>1. /\ pc \in [Procs -> PCs] /\ ret \in [Procs -> {"ping", "connect"}]
      /\ mem \in [Procs -> 0..MaxPeers] /\ kind \in [Procs -> Kinds \union {"none"}]
      /\ file \in {0, MaxPeers + 1} \union 1..issued
      /\ issued \in 0..MaxPeers /\ MaxPeers \in Nat
      /\ status \in [1..MaxPeers -> {"none", "active", "revoked", "unknown"}]
    BY BootstrapAssumption DEF TypeOK, Peers, Absent, Junk
<1> USE <1>1
    DEF Memory, Role, Alive, Ended, Runs, Kinds, Saving, Wiping, Peers, Absent, Junk,
        Goto, Step, End, procVars, srvVars, diskVars, histVars
<1>2. CASE Start(p)
    BY <1>2 DEF Start
<1>3. CASE LoadConfig(p)
    BY <1>3 DEF LoadConfig, Loaded
<1>4. CASE Claim(p)
    BY <1>4 DEF Claim, Issue
<1>5. CASE ClaimFails(p)
    BY <1>5 DEF ClaimFails, Issue
<1>6. CASE pingC2State(p)
    BY <1>6 DEF pingC2State, Verdicts, Ledger
<1>7. CASE Disconnect(p)
    BY <1>7 DEF Disconnect
<1>8. CASE RemoveTmp(p)
    BY <1>8 DEF RemoveTmp, SaveGoesOn
<1>9. CASE CreateTmp(p)
    BY <1>9 DEF CreateTmp, SaveGoesOn, SaveEnds
<1>10. CASE WriteTmp(p)
    BY <1>10 DEF WriteTmp, SaveGoesOn, SaveEnds
<1>11. CASE Rename(p)
    BY <1>11 DEF Rename, SaveEnds
<1>12. CASE Stat(p)
    BY <1>12 DEF Stat, WipeEnds
<1>13. CASE Zero(p)
    BY <1>13 DEF Zero
<1>14. CASE Unlink(p)
    BY <1>14 DEF Unlink, WipeEnds
<1>15. CASE LogoutLoad(p)
    BY <1>15 DEF LogoutLoad, Loaded
<1>16. CASE bestEffortRevoke(p)
    BY <1>16 DEF bestEffortRevoke
<1>17. CASE Leftovers(p)
    BY <1>17 DEF Leftovers
<1>18. CASE Crash(p)
    BY <1>18 DEF Crash
<1>19. QED
    BY <1>2, <1>3, <1>4, <1>5, <1>6, <1>7, <1>8, <1>9, <1>10, <1>11, <1>12, <1>13, <1>14, <1>15, <1>16, <1>17, <1>18
    DEF Moves, runDefault, runLogout, SaveConfig, WipeConfig

(* A claim issues the next peer, and nothing else issues one.              *)
LEMMA StepLedger == ASSUME TypeOK, Ledger, NEW p \in Procs, Moves(p) PROVE Ledger'
<1>1. Effects(p)
    BY StepEffects
<1>2. issued \in 0..MaxPeers /\ MaxPeers \in Nat
    BY BootstrapAssumption DEF TypeOK
<1>3. CASE UNCHANGED issued
    BY <1>1, <1>2, <1>3 DEF Effects, Ledger, Peers
<1>4. CASE issued' = issued + 1
    BY <1>1, <1>2, <1>4 DEF Effects, Ledger, Peers
<1>5. QED
    BY <1>1, <1>3, <1>4 DEF Effects

(* Whoever saves is a run: the others then leave the temporary file alone. *)
LEMMA SaverAlone ==
  ASSUME TypeOK, \A q \in Procs : Role(q), Ledger, NEW p \in Procs, Moves(p),
         NEW q \in Procs \ {p}, pc[q] \in Saving
  PROVE  UNCHANGED <<tmp, issued>> /\ pc[p] \notin Saving
<1>1. kind[q] \in Runs
    BY DEF TypeOK, Role, Alive, Ended, Saving, Wiping, Runs
<1>2. QED
    BY <1>1, OthersLogOut, StepEffects DEF Effects, Ended, Saving, Wiping

(* The number of failures never decreases.                                 *)
LEMMA FailuresGrow ==
  ASSUME TypeOK, NEW p \in Procs, Moves(p)
  PROVE  /\ failures \in Nat /\ failures' \in Nat /\ failures <= failures'
         /\ Fails \/ UNCHANGED failures
<1>1. Fails \/ UNCHANGED failures
    BY DEF Works, Moves, Start, runDefault, LoadConfig, Claim, ClaimFails, pingC2State,
           Disconnect, runLogout, LogoutLoad, bestEffortRevoke, Leftovers,
           SaveConfig, RemoveTmp, CreateTmp, WriteTmp, Rename,
           WipeConfig, Stat, Zero, Unlink, Crash
<1>2. QED
    BY <1>1, BootstrapAssumption DEF TypeOK, Fails

(* An error of SaveConfig is a failure by chance, or the file of a crash.  *)
LEMMA SaveErrors ==
  ASSUME NEW p \in Procs, Moves(p)
  PROVE  (unsaved' => unsaved) \/ Fails \/ (pc[p] = "createTmp" /\ tmp # Absent)
<1>1. CASE Start(p) \/ runDefault(p) \/ runLogout(p) \/ WipeConfig(p) \/ Crash(p) \/ RemoveTmp(p)
    BY <1>1 DEF histVars, Start, runDefault, LoadConfig, Claim, ClaimFails, pingC2State, Disconnect,
           runLogout, LogoutLoad, bestEffortRevoke, Leftovers, RemoveTmp, SaveGoesOn,
           WipeConfig, Stat, Zero, Unlink, Crash
<1>2. CASE CreateTmp(p)
    BY <1>2, Zenon DEF CreateTmp, SaveGoesOn, SaveEnds, Step, Goto, histVars
<1>3. CASE WriteTmp(p)
    BY <1>3, Zenon DEF WriteTmp, SaveGoesOn, histVars
<1>4. CASE Rename(p)
  <2>1. CASE SaveEnds(p, "rename", TRUE)
    <3>1. unsaved' = (unsaved \/ ~TRUE)
        BY <2>1, Zenon DEF SaveEnds
    <3>2. QED
        BY <3>1
  <2>2. CASE Fails
      BY <2>2
  <2>3. QED
      BY <1>4, <2>1, <2>2 DEF Rename
<1>5. QED
    BY <1>1, <1>2, <1>3, <1>4 DEF Moves, SaveConfig

(* A save that finds the temporary file of a crash has removed it before,  *)
(* unless the removal failed.                                              *)
LEMMA StepDisk ==
  ASSUME TypeOK, \A q \in Procs : Role(q), Ledger, NEW p \in Procs, Moves(p), Disk
  PROVE  Disk'
<1>1. /\ failures \in Nat /\ failures' \in Nat /\ failures <= failures'
      /\ failures > 0 => failures' > 0
      /\ Fails => failures' > 0
  <2>1. failures \in Nat /\ failures' \in Nat /\ failures <= failures'
      BY FailuresGrow
  <2>2. Fails => failures' > 0
      BY <2>1 DEF Fails
  <2>3. QED
      BY <2>1, <2>2
<1>2. pc \in [Procs -> PCs] /\ ret \in [Procs -> {"ping", "connect"}]
    BY DEF TypeOK
<1>3. \A q \in Procs \ {p} : pc'[q] = pc[q] /\ (pc[q] \in Saving => UNCHANGED tmp)
    BY StepFrame, SaverAlone
<1>4. ASSUME unsaved' PROVE failures' > 0
    BY <1>1, <1>4, SaveErrors DEF Disk
<1>5. \A q \in Procs \ {p} : pc'[q] = "createTmp" /\ tmp' # Absent => failures' > 0
    BY <1>1, <1>3 DEF Saving, Disk
<1>6. pc'[p] = "createTmp" /\ tmp' # Absent => failures' > 0
  <2> USE <1>1, <1>2 DEF Goto, Step, End, procVars
  <2>1. CASE Start(p)
      BY <2>1 DEF Start
  <2>2. CASE LoadConfig(p)
      BY <2>2 DEF LoadConfig, Loaded
  <2>3. CASE Claim(p)
      BY <2>3 DEF Claim, Issue
  <2>4. CASE ClaimFails(p)
      BY <2>4 DEF ClaimFails, Issue
  <2>5. CASE pingC2State(p)
      BY <2>5 DEF pingC2State
  <2>6. CASE Disconnect(p)
      BY <2>6 DEF Disconnect
  <2>7. CASE RemoveTmp(p)
      BY <2>7 DEF RemoveTmp, SaveGoesOn
  <2>8. CASE CreateTmp(p)
      BY <2>8 DEF CreateTmp, SaveGoesOn, SaveEnds
  <2>9. CASE WriteTmp(p)
      BY <2>9 DEF WriteTmp, SaveGoesOn, SaveEnds
  <2>10. CASE Rename(p)
      BY <2>10 DEF Rename, SaveEnds
  <2>11. CASE Stat(p)
      BY <2>11 DEF Stat, WipeEnds
  <2>12. CASE Zero(p)
      BY <2>12 DEF Zero
  <2>13. CASE Unlink(p)
      BY <2>13 DEF Unlink, WipeEnds
  <2>14. CASE LogoutLoad(p)
      BY <2>14 DEF LogoutLoad, Loaded
  <2>15. CASE bestEffortRevoke(p)
      BY <2>15 DEF bestEffortRevoke
  <2>16. CASE Leftovers(p)
      BY <2>16 DEF Leftovers
  <2>17. CASE Crash(p)
      BY <2>17 DEF Crash
  <2>18. QED
      BY <2>1, <2>2, <2>3, <2>4, <2>5, <2>6, <2>7, <2>8, <2>9, <2>10, <2>11, <2>12, <2>13, <2>14, <2>15, <2>16, <2>17
      DEF Moves, runDefault, runLogout, SaveConfig, WipeConfig
<1>7. tmp' # Absent /\ ~lost' /\ failures' = 0 =>
        \E q \in Procs : pc'[q] \in {"writeTmp", "rename"}
  <2> SUFFICES ASSUME tmp' # Absent, ~lost', failures' = 0
               PROVE  \E q \in Procs : pc'[q] \in {"writeTmp", "rename"}
      OBVIOUS
  <2>1. ~lost /\ failures = 0 /\ ~Fails
      BY <1>1, StepGrows DEF Grows
  <2>2. CASE UNCHANGED tmp /\ pc[p] \notin {"writeTmp", "rename"}
      BY <1>3, <2>1, <2>2 DEF Disk
  <2>3. CASE pc[p] \in {"writeTmp", "rename"} \/ tmp' # tmp
    <3> USE <1>2, <2>1, <2>3 DEF Goto, Step, End, diskVars, Saving
    <3>1. CASE Start(p)
        BY <3>1 DEF Start
    <3>2. CASE LoadConfig(p)
        BY <3>2 DEF LoadConfig, Loaded
    <3>3. CASE Claim(p)
        BY <3>3 DEF Claim, Issue
    <3>4. CASE ClaimFails(p)
        BY <3>4 DEF ClaimFails, Issue
    <3>5. CASE pingC2State(p)
        BY <3>5 DEF pingC2State
    <3>6. CASE Disconnect(p)
        BY <3>6 DEF Disconnect
    <3>7. CASE RemoveTmp(p)
        BY <3>7 DEF RemoveTmp, SaveGoesOn
    <3>8. CASE CreateTmp(p)
        BY <3>8 DEF CreateTmp, SaveGoesOn, SaveEnds
    <3>9. CASE WriteTmp(p)
        BY <3>9 DEF WriteTmp, SaveGoesOn, SaveEnds
    <3>10. CASE Rename(p)
        BY <3>10 DEF Rename, SaveEnds
    <3>11. CASE Stat(p)
        BY <3>11 DEF Stat, WipeEnds
    <3>12. CASE Zero(p)
        BY <3>12 DEF Zero
    <3>13. CASE Unlink(p)
        BY <3>13 DEF Unlink, WipeEnds
    <3>14. CASE LogoutLoad(p)
        BY <3>14 DEF LogoutLoad, Loaded
    <3>15. CASE bestEffortRevoke(p)
        BY <3>15 DEF bestEffortRevoke
    <3>16. CASE Leftovers(p)
        BY <3>16 DEF Leftovers
    <3>17. CASE Crash(p)
        BY <3>17 DEF Crash
    <3>18. QED
        BY <3>1, <3>2, <3>3, <3>4, <3>5, <3>6, <3>7, <3>8, <3>9, <3>10, <3>11, <3>12, <3>13, <3>14, <3>15, <3>16, <3>17
        DEF Moves, runDefault, runLogout, SaveConfig, WipeConfig
  <2>4. QED
      BY <2>2, <2>3
<1>8. QED
    BY <1>4, <1>5, <1>6, <1>7 DEF Disk

(* Whoever has found a config to remove has been asked to.                 *)
LEMMA StepAsked ==
  ASSUME TypeOK, \A q \in Procs : Role(q) /\ Asked(q), NEW p \in Procs, Moves(p)
  PROVE  \A q \in Procs : Asked(q)'
<1>1. asked => asked'
    BY StepGrows DEF Grows
<1>2. \A q \in Procs \ {p} : Asked(q)'
    BY <1>1, StepFrame DEF Asked
<1>3. Asked(p)'
  <2>1. /\ pc \in [Procs -> PCs] /\ ret \in [Procs -> {"ping", "connect"}]
        /\ kind \in [Procs -> Kinds \union {"none"}]
      BY DEF TypeOK
  <2> USE <1>1, <2>1 DEF Role, Alive, Ended, Saving, Wiping, Runs, Kinds, Asked,
                    Goto, Step, End, procVars
  <2>2. CASE Start(p)
      BY <2>2 DEF Start
  <2>3. CASE LoadConfig(p)
      BY <2>3 DEF LoadConfig, Loaded
  <2>4. CASE Claim(p)
      BY <2>4 DEF Claim, Issue
  <2>5. CASE ClaimFails(p)
      BY <2>5 DEF ClaimFails, Issue
  <2>6. CASE pingC2State(p)
      BY <2>6 DEF pingC2State
  <2>7. CASE Disconnect(p)
      BY <2>7 DEF Disconnect
  <2>8. CASE RemoveTmp(p)
      BY <2>8 DEF RemoveTmp, SaveGoesOn
  <2>9. CASE CreateTmp(p)
      BY <2>9 DEF CreateTmp, SaveGoesOn, SaveEnds
  <2>10. CASE WriteTmp(p)
      BY <2>10 DEF WriteTmp, SaveGoesOn, SaveEnds
  <2>11. CASE Rename(p)
      BY <2>11 DEF Rename, SaveEnds
  <2>12. CASE Stat(p)
      BY <2>12 DEF Stat, WipeEnds
  <2>13. CASE Zero(p)
      BY <2>13 DEF Zero
  <2>14. CASE Unlink(p)
      BY <2>14 DEF Unlink, WipeEnds
  <2>15. CASE LogoutLoad(p)
      BY <2>15 DEF LogoutLoad, Loaded
  <2>16. CASE bestEffortRevoke(p)
      BY <2>16 DEF bestEffortRevoke
  <2>17. CASE Leftovers(p)
      BY <2>17 DEF Leftovers
  <2>18. CASE Crash(p)
      BY <2>18 DEF Crash
  <2>19. QED
      BY <2>2, <2>3, <2>4, <2>5, <2>6, <2>7, <2>8, <2>9, <2>10, <2>11, <2>12, <2>13, <2>14, <2>15, <2>16, <2>17, <2>18
      DEF Moves, runDefault, runLogout, SaveConfig, WipeConfig
<1>4. QED
    BY <1>2, <1>3

(* The peer claimed last, as long as it is active, is in the file unless    *)
(* the run that claimed it is saving it: a save that does not store it     *)
(* leaves a trace in the history, and a wipe is that of another peer.      *)
Held == file = claimed \/ \E q \in Procs : pc[q] \in Saving

LEMMA SaveStores ==
  ASSUME TypeOK, NEW p \in Procs, Memory(p), Moves(p), pc[p] \in Saving, Calm'
  PROVE  pc'[p] \in Saving \/ file' = claimed
<1>1. pc \in [Procs -> PCs] /\ kind \in [Procs -> Kinds \union {"none"}]
    BY DEF TypeOK
<1> USE <1>1 DEF Saving, Memory, Calm, Goto, Step, End, Alive, Ended, procVars, diskVars
<1>2. CASE Start(p)
    BY <1>2 DEF Start
<1>3. CASE LoadConfig(p)
    BY <1>3 DEF LoadConfig, Loaded
<1>4. CASE Claim(p)
    BY <1>4 DEF Claim, Issue
<1>5. CASE ClaimFails(p)
    BY <1>5 DEF ClaimFails, Issue
<1>6. CASE pingC2State(p)
    BY <1>6 DEF pingC2State
<1>7. CASE Disconnect(p)
    BY <1>7 DEF Disconnect
<1>8. CASE RemoveTmp(p)
    BY <1>8 DEF RemoveTmp, SaveGoesOn
<1>9. CASE CreateTmp(p)
    BY <1>9 DEF CreateTmp, SaveGoesOn, SaveEnds
<1>10. CASE WriteTmp(p)
    BY <1>10 DEF WriteTmp, SaveGoesOn, SaveEnds
<1>11. CASE Rename(p)
    BY <1>11 DEF Rename, SaveEnds
<1>12. CASE Stat(p)
    BY <1>12 DEF Stat, WipeEnds
<1>13. CASE Zero(p)
    BY <1>13 DEF Zero
<1>14. CASE Unlink(p)
    BY <1>14 DEF Unlink, WipeEnds
<1>15. CASE LogoutLoad(p)
    BY <1>15 DEF LogoutLoad, Loaded
<1>16. CASE bestEffortRevoke(p)
    BY <1>16 DEF bestEffortRevoke
<1>17. CASE Leftovers(p)
    BY <1>17 DEF Leftovers
<1>18. CASE Crash(p)
    BY <1>18 DEF Crash
<1>19. QED
    BY <1>2, <1>3, <1>4, <1>5, <1>6, <1>7, <1>8, <1>9, <1>10, <1>11, <1>12, <1>13, <1>14, <1>15, <1>16, <1>17, <1>18
    DEF Moves, runDefault, runLogout, SaveConfig, WipeConfig

LEMMA WipesOthers ==
  ASSUME NEW p \in Procs, TypeOK, Role(p), Asked(p), Current(p), Calm,
         claimed # 0, status[claimed] = "active"
  PROVE  pc[p] \notin {"zero", "unlink"}
BY DEF TypeOK, Role, Asked, Current, Calm, Alive, Ended, Runs, Wiping

LEMMA StepKept ==
  ASSUME TypeOK, Ledger, \A q \in Procs : Role(q) /\ Memory(q) /\ Asked(q),
         NEW p \in Procs, Moves(p), Calm', Kept, \A q \in Procs : Current(q),
         claimed' # 0, status'[claimed'] = "active"
  PROVE  /\ file' = claimed' \/ \E q \in Procs : pc'[q] \in Saving
         /\ \A q \in Procs : kind'[q] \in Runs =>
              /\ pc'[q] = "ping" => mem'[q] = claimed'
              /\ pc'[q] \notin Wiping
<1>1. /\ claimed \in 0..issued /\ issued \in 0..MaxPeers /\ MaxPeers \in Nat
      /\ pc \in [Procs -> PCs] /\ ret \in [Procs -> {"ping", "connect"}]
      /\ kind \in [Procs -> Kinds \union {"none"}] /\ mem \in [Procs -> Peers \union {0}]
    BY BootstrapAssumption, StepTypeOK DEF TypeOK
<1>2. Calm /\ Effects(p)
    BY StepGrows, StepEffects DEF Grows, Calm
<1>3. CASE claimed' # claimed
  <2>1. Claim(p)
      BY <1>3 DEF Moves, Start, runDefault, LoadConfig, ClaimFails, pingC2State, Disconnect,
             runLogout, LogoutLoad, bestEffortRevoke, Leftovers, SaveConfig, RemoveTmp, CreateTmp,
             WriteTmp, Rename, WipeConfig, Stat, Zero, Unlink, Crash, srvVars
  <2>2. pc'[p] = "removeTmp" /\ \A q \in Procs \ {p} : kind'[q] \notin Runs
    <3>1. \A q \in Procs \ {p} : kind[q] \notin Runs
        BY <2>1, OthersLogOut DEF Claim, Goto, Ended, Wiping
    <3>2. QED
        BY <1>1, <2>1, <3>1, StepFrame DEF Claim, Goto
  <2>3. QED
      BY <2>2 DEF Saving, Wiping
<1>4. CASE UNCHANGED claimed
  <2>1. claimed \in Peers /\ claimed # 0 /\ status[claimed] = "active"
    <3>1. claimed \in Peers /\ claimed # 0
        BY <1>1, <1>4 DEF Peers
    <3>2. UNCHANGED issued \/ claimed # issued'
        BY <1>1, <1>2 DEF Effects
    <3>3. QED
        BY <1>2, <1>4, <3>1, <3>2 DEF Effects
  <2>2. Held
      BY <2>1 DEF Kept, Held
  <2>3. \A q \in Procs : kind[q] \in Runs => (pc[q] = "ping" => mem[q] = claimed) /\ pc[q] \notin Wiping
      BY <2>1 DEF Current
  <2>4. file' = claimed \/ \E q \in Procs : pc'[q] \in Saving
    <3>1. CASE pc[p] \in Saving
        BY <1>2, <3>1, SaveStores
    <3>2. CASE pc[p] \notin Saving /\ file = claimed
      <4>1. UNCHANGED file
          BY <1>2, <2>1, <3>2, WipesOthers DEF Effects, Saving
      <4>2. QED
          BY <3>2, <4>1
    <3>3. ASSUME NEW q \in Procs \ {p}, pc[q] \in Saving PROVE pc'[q] \in Saving
        BY <3>3, StepFrame
    <3>4. QED
        BY <2>2, <3>1, <3>2, <3>3 DEF Held
  <2>5. \A q \in Procs \ {p} : kind'[q] \in Runs => (pc'[q] = "ping" => mem'[q] = claimed) /\ pc'[q] \notin Wiping
      BY <2>3, StepFrame
  <2>6. ASSUME kind'[p] \in Runs PROVE (pc'[p] = "ping" => mem'[p] = claimed) /\ pc'[p] \notin Wiping
    <3>1. CASE pc[p] = "load" /\ LoadConfig(p)
      <4>1. \A q \in Procs : pc[q] \notin Saving
        <5>1. kind[p] \in Runs
            BY <1>1, <3>1 DEF Role, Alive, Ended, Runs, Wiping
        <5>2. QED
            BY <3>1, <5>1, OthersLogOut DEF Saving, Ended, Wiping
      <4>2. file = claimed
          BY <2>2, <4>1 DEF Held
      <4>3. QED
          BY <1>1, <2>1, <2>6, <3>1, <4>2 DEF LoadConfig, Loaded, Goto, End, Runs, Kinds, Wiping, Fails
    <3>2. CASE ~LoadConfig(p)
      <4> USE <1>1, <2>1, <2>3, <2>6, <3>2
          DEF Memory, Role, Alive, Ended, Runs, Kinds, Saving, Wiping, Goto, Step, End, procVars
      <4>1. CASE Start(p)
          BY <4>1 DEF Start
      <4>2. CASE LoadConfig(p)
          BY <4>2 DEF LoadConfig, Loaded
      <4>3. CASE Claim(p)
          BY <4>3 DEF Claim, Issue
      <4>4. CASE ClaimFails(p)
          BY <4>4 DEF ClaimFails, Issue
      <4>5. CASE pingC2State(p)
          BY <4>5 DEF pingC2State, Verdicts
      <4>6. CASE Disconnect(p)
          BY <4>6 DEF Disconnect
      <4>7. CASE RemoveTmp(p)
          BY <4>7 DEF RemoveTmp, SaveGoesOn
      <4>8. CASE CreateTmp(p)
          BY <4>8 DEF CreateTmp, SaveGoesOn, SaveEnds
      <4>9. CASE WriteTmp(p)
          BY <4>9 DEF WriteTmp, SaveGoesOn, SaveEnds
      <4>10. CASE Rename(p)
          BY <4>10 DEF Rename, SaveEnds
      <4>11. CASE Stat(p)
          BY <4>11 DEF Stat, WipeEnds
      <4>12. CASE Zero(p)
          BY <4>12 DEF Zero
      <4>13. CASE Unlink(p)
          BY <4>13 DEF Unlink, WipeEnds
      <4>14. CASE LogoutLoad(p)
          BY <4>14 DEF LogoutLoad, Loaded
      <4>15. CASE bestEffortRevoke(p)
          BY <4>15 DEF bestEffortRevoke
      <4>16. CASE Leftovers(p)
          BY <4>16 DEF Leftovers
      <4>17. CASE Crash(p)
          BY <4>17 DEF Crash
      <4>18. QED
          BY <4>1, <4>2, <4>3, <4>4, <4>5, <4>6, <4>7, <4>8, <4>9, <4>10, <4>11, <4>12, <4>13, <4>14, <4>15, <4>16, <4>17
          DEF Moves, runDefault, runLogout, SaveConfig, WipeConfig
    <3>3. QED
        BY <3>1, <3>2 DEF LoadConfig, Goto, End
  <2>7. QED
      BY <1>4, <2>4, <2>5, <2>6
<1>5. QED
    BY <1>3, <1>4

(* Without overlap there is nobody else, before the step and after it.     *)
LEMMA NobodyElse ==
  ASSUME TypeOK, NEW p \in Procs, Moves(p), ~overlap => Alone, ~overlap'
  PROVE  ~overlap /\ Alone' /\ \A q \in Procs \ {p} : ~Alive(q) /\ pc'[q] = pc[q]
<1>1. ~overlap /\ Alone
    BY StepGrows DEF Grows
<1>2. \A q \in Procs \ {p} : pc'[q] = pc[q]
    BY StepFrame
<1>3. \A q \in Procs \ {p} : ~Alive(q)
  <2>1. CASE Start(p)
    <3>1. ~\E q \in Procs : Alive(q)
        BY <2>1, Zenon DEF Start
    <3>2. QED
        BY <3>1
  <2>2. CASE ~Start(p)
    <3>1. Alive(p)
        BY <2>2 DEF Alive, Ended, Goto, Step, End, Moves, runDefault, LoadConfig, Claim, ClaimFails,
             pingC2State, Disconnect, runLogout, LogoutLoad, bestEffortRevoke, Leftovers,
             SaveConfig, RemoveTmp, CreateTmp, WriteTmp, Rename, SaveGoesOn, SaveEnds,
             WipeConfig, Stat, Zero, Unlink, WipeEnds, Crash
    <3>2. QED
        BY <1>1, <3>1 DEF Alone
  <2>3. QED
      BY <2>1, <2>2
<1>4. QED
    BY <1>1, <1>2, <1>3 DEF Alone, Alive

(* A logout that is alone finds what it has seen.                          *)
LEMMA StepLogout ==
  ASSUME TypeOK, \A q \in Procs : Role(q), NEW p \in Procs, Moves(p), Logout(p), ~overlap',
         ~overlap => Alone
  PROVE  \A q \in Procs : Logout(q)'
<1>1. \A q \in Procs \ {p} : Logout(q)'
  <2>1. \A q \in Procs \ {p} : kind'[q] = "none"
      BY NobodyElse, StepFrame DEF Role
  <2>2. QED
      BY <2>1 DEF Logout
<1>2. Logout(p)'
  <2>1. /\ pc \in [Procs -> PCs] /\ ret \in [Procs -> {"ping", "connect"}]
        /\ kind \in [Procs -> Kinds \union {"none"}] /\ MaxPeers \in Nat
      BY BootstrapAssumption DEF TypeOK
  <2> USE <2>1 DEF Role, Alive, Ended, Saving, Wiping, Runs, Kinds, Logout, Absent, Junk,
                   Goto, Step, End, procVars, diskVars
  <2>2. CASE Start(p)
      BY <2>2 DEF Start
  <2>3. CASE LoadConfig(p)
      BY <2>3 DEF LoadConfig, Loaded
  <2>4. CASE Claim(p)
      BY <2>4 DEF Claim, Issue
  <2>5. CASE ClaimFails(p)
      BY <2>5 DEF ClaimFails, Issue
  <2>6. CASE pingC2State(p)
      BY <2>6 DEF pingC2State
  <2>7. CASE Disconnect(p)
      BY <2>7 DEF Disconnect
  <2>8. CASE RemoveTmp(p)
      BY <2>8 DEF RemoveTmp, SaveGoesOn
  <2>9. CASE CreateTmp(p)
      BY <2>9 DEF CreateTmp, SaveGoesOn, SaveEnds
  <2>10. CASE WriteTmp(p)
      BY <2>10 DEF WriteTmp, SaveGoesOn, SaveEnds
  <2>11. CASE Rename(p)
      BY <2>11 DEF Rename, SaveEnds
  <2>12. CASE Stat(p)
      BY <2>12 DEF Stat, WipeEnds
  <2>13. CASE Zero(p)
      BY <2>13 DEF Zero
  <2>14. CASE Unlink(p)
      BY <2>14 DEF Unlink, WipeEnds
  <2>15. CASE LogoutLoad(p)
      BY <2>15 DEF LogoutLoad, Loaded
  <2>16. CASE bestEffortRevoke(p)
      BY <2>16 DEF bestEffortRevoke
  <2>17. CASE Leftovers(p)
      BY <2>17 DEF Leftovers
  <2>18. CASE Crash(p)
      BY <2>18 DEF Crash
  <2>19. QED
      BY <2>2, <2>3, <2>4, <2>5, <2>6, <2>7, <2>8, <2>9, <2>10, <2>11, <2>12, <2>13, <2>14, <2>15, <2>16, <2>17, <2>18
      DEF Moves, runDefault, runLogout, SaveConfig, WipeConfig
<1>3. QED
    BY <1>1, <1>2

-----------------------------------------------------------------------------
(* Together.                                                               *)
LEMMA StepInv == ASSUME IInv, NEW p \in Procs, Moves(p) PROVE IInv'
<1>1. /\ TypeOK /\ Ledger /\ Disk
      /\ \A q \in Procs : Role(q) /\ Memory(q) /\ Asked(q)
    BY DEF IInv
<1>2. TypeOK' /\ Ledger' /\ Disk'
    BY <1>1, StepTypeOK, StepLedger, StepDisk
<1>3. \A q \in Procs : Role(q)' /\ Memory(q)' /\ Asked(q)'
    BY <1>1, StepRole, MemoryOfOthers, MemoryOfMover, StepAsked
<1>4. ASSUME Calm' PROVE Kept' /\ \A q \in Procs : Current(q)'
  <2>1. Calm /\ Kept /\ \A q \in Procs : Current(q)
      BY <1>4, StepGrows DEF Grows, Calm, IInv
  <2>2. QED
      BY <1>1, <1>4, <2>1, StepKept DEF Kept, Current
<1>5. ASSUME ~overlap' PROVE Alone' /\ \A q \in Procs : Logout(q)'
  <2>1. ~overlap /\ Alone /\ \A q \in Procs : Logout(q)
      BY <1>1, <1>5, NobodyElse DEF IInv
  <2>2. QED
      BY <1>1, <1>5, <2>1, NobodyElse, StepLogout
<1>6. QED
    BY <1>2, <1>3, <1>4, <1>5 DEF IInv

(* An end of a peer, which the client has not asked for.                   *)
LEMMA WithdrawInv == ASSUME IInv, NEW r \in Peers, Withdraw(r) PROVE IInv'
<1>1. /\ status \in [Peers -> {"none", "active", "revoked", "unknown"}]
      /\ UNCHANGED <<pc, kind, mem, ret, holder, file, tmp, unit, issued, claimed, failures>>
      /\ UNCHANGED <<unsaved, lost, asked, overlap>>
    BY DEF IInv, TypeOK, Withdraw, procVars, diskVars, histVars
<1>2. /\ status' \in [Peers -> {"none", "active", "revoked", "unknown"}]
      /\ \A q \in Peers : /\ status[q] = "none" <=> status'[q] = "none"
                          /\ status[q] \in {"revoked", "unknown"} => status'[q] \in {"revoked", "unknown"}
                          /\ status'[q] = "active" => status[q] = "active"
    BY <1>1 DEF Withdraw
<1>3. TypeOK' /\ Ledger' /\ Disk'
    BY <1>1, <1>2 DEF IInv, TypeOK, Ledger, Disk
<1>4. \A q \in Procs : Role(q)' /\ Asked(q)'
    BY <1>1 DEF IInv, Role, Alive, Asked
<1>5. ASSUME NEW q \in Procs PROVE Memory(q)'
  <2>1. Memory(q) /\ mem[q] \in Peers \union {0}
      BY DEF IInv, TypeOK
  <2>2. kind[q] \in Runs /\ pc[q] \in Wiping => status'[mem[q]] \in {"revoked", "unknown"}
      BY <1>2, <2>1 DEF Memory
  <2>3. QED
      BY <1>1, <2>1, <2>2 DEF Memory
<1>6. ASSUME Calm' PROVE Kept' /\ \A q \in Procs : Current(q)'
  <2>1. Calm /\ Kept /\ \A q \in Procs : Current(q)
      BY <1>1, <1>6 DEF IInv, Calm
  <2>2. claimed # 0 => claimed \in Peers
      BY BootstrapAssumption DEF IInv, TypeOK, Peers
  <2>3. claimed' # 0 /\ status'[claimed'] = "active" => claimed # 0 /\ status[claimed] = "active"
      BY <1>1, <1>2, <2>2
  <2>4. QED
      BY <1>1, <2>1, <2>3 DEF Kept, Current
<1>7. ~overlap' => Alone' /\ \A q \in Procs : Logout(q)'
    BY <1>1 DEF IInv, Alone, Alive, Logout
<1>8. QED
    BY <1>3, <1>4, <1>5, <1>6, <1>7 DEF IInv

LEMMA NextInv == IInv /\ [Next]_vars => IInv'
<1> SUFFICES ASSUME IInv, [Next]_vars PROVE IInv'
    OBVIOUS
<1>1. CASE UNCHANGED vars
    BY <1>1 DEF IInv, vars, procVars, diskVars, srvVars, histVars, TypeOK, Ledger, Disk, Role, Alive,
                Memory, Asked, Calm, Kept, Current, Alone, Logout
<1>2. ASSUME NEW p \in Procs, Moves(p) PROVE IInv'
    BY <1>2, StepInv
<1>3. QED
    BY <1>1, <1>2, WithdrawInv DEF Next, Moves

-----------------------------------------------------------------------------
(* Whatever dies, fails or overlaps, and whenever the control plane ends a *)
(* peer: what each invocation knows of the file while it uses it.          *)
THEOREM BootstrapInvariant == Spec => []IInv
BY InitInv, NextInv, PTL DEF Spec

(* The variables keep their types: config.json is only ever a whole config *)
(* of an issued peer or zeroed, because SaveConfig renames what it has     *)
(* written completely.                                                     *)
THEOREM BootstrapTypeCorrect == Spec => []TypeOK
<1>1. IInv => TypeOK
    BY DEF IInv
<1>2. QED
    BY <1>1, BootstrapInvariant, PTL

(* runDefault: the credentials the client has claimed last are in the file *)
(* or with the run that saves them, unless that run died, the disk refused *)
(* them or a logout was asked for; no preflight wipes those of an active   *)
(* peer, and no later claim whose answer it cannot read replaces them.     *)
THEOREM ClaimIsKept == Spec => []ClaimNotLost
<1>1. IInv => ClaimNotLost
  <2> SUFFICES ASSUME IInv, claimed > 0, status[claimed] = "active", ~lost, ~unsaved, ~asked
               PROVE  file = claimed \/ \E p \in Procs : Alive(p) /\ mem[p] = claimed
      BY DEF ClaimNotLost
  <2>1. Kept /\ claimed \in 0..issued /\ issued \in 0..MaxPeers /\ MaxPeers \in Nat
      BY BootstrapAssumption DEF IInv, Calm, TypeOK
  <2>2. claimed # 0
      BY <2>1
  <2>3. file = claimed \/ \E p \in Procs : pc[p] \in Saving
      BY <2>1, <2>2 DEF Kept
  <2>4. \A p \in Procs : pc[p] \in Saving => Alive(p) /\ mem[p] = claimed
      BY DEF IInv, Memory, Alive, Ended, Saving
  <2>5. QED
      BY <2>3, <2>4
<1>2. QED
    BY <1>1, BootstrapInvariant, PTL

(* SaveConfig fails only when a file operation does: never because of the  *)
(* temporary file that a crash has left behind.                            *)
THEOREM SavesSucceed == Spec => []SaveSucceeds
<1>1. IInv => SaveSucceeds
    BY DEF IInv, Disk, SaveSucceeds
<1>2. QED
    BY <1>1, BootstrapInvariant, PTL

(* runLogout, alone and with no call failing, ends well and leaves neither *)
(* credentials nor the unit, but for the temporary file of a crashed save. *)
THEOREM LogoutCompletes == Spec => LogoutIsComplete
<1>1. ASSUME IInv, [Next]_vars, NEW p \in Procs,
             kind[p] = "logout", pc[p] \in {"stat", "unlink", "leftovers"},
             pc'[p] \in {"exited", "failed"}, ~overlap, failures' = 0
      PROVE  /\ pc'[p] = "exited" /\ file' = Absent /\ ~unit'
             /\ tmp' = Absent \/ lost
  <2>1. /\ TypeOK /\ Ledger /\ Role(p) /\ Logout(p) /\ Disk /\ Alone /\ Alive(p)
        /\ pc \in [Procs -> PCs] /\ ret \in [Procs -> {"ping", "connect"}]
      BY <1>1 DEF IInv, TypeOK, Role
  <2>2. \A q \in Procs : pc[q] \notin {"writeTmp", "rename"}
      BY <1>1, <2>1 DEF Alone, Alive, Ended
  <2>3. \A q \in Procs \ {p} : ~Moves(q)
      BY <1>1, <2>1, StepFrame
  <2>4. Moves(p)
    <3>1. \E q \in Procs : Moves(q)
      <4>1. \A q \in Peers : ~Withdraw(q)
          BY <1>1 DEF Withdraw
      <4>2. ~UNCHANGED vars
          BY <1>1 DEF vars
      <4>3. QED
          BY <1>1, <4>1, <4>2, Zenon DEF Next, Moves
    <3>2. QED
        BY <2>3, <3>1
  <2>5. failures = 0 /\ ~Fails
      BY <1>1, <2>1, <2>4, FailuresGrow DEF Fails
  <2>6. tmp = Absent \/ lost
      BY <2>2, <2>5, <2>1 DEF Disk
  <2>7. Stat(p) \/ Unlink(p) \/ Leftovers(p) \/ Crash(p)
      BY <1>1, <2>4
      DEF Goto, Step, End, Moves, Start, runDefault, LoadConfig, Claim, ClaimFails, pingC2State,
          Disconnect, runLogout, LogoutLoad, bestEffortRevoke, SaveConfig, RemoveTmp, CreateTmp,
          WriteTmp, Rename, SaveGoesOn, SaveEnds, WipeConfig, Zero
  <2>8. ~Crash(p)
      BY <1>1, <2>1 DEF Crash, End, Goto
  <2>9. ~Stat(p) /\ ~Unlink(p)
      BY <1>1, <2>1, <2>5 DEF Stat, Unlink, WipeEnds, Step, End, Goto, Logout
  <2>10. QED
      BY <1>1, <2>1, <2>5, <2>6, <2>7, <2>8, <2>9 DEF Leftovers, End, Goto, Logout
<1>2. IInv /\ [Next]_vars =>
        [\A p \in Procs :
           kind[p] = "logout" /\ pc[p] \in {"stat", "unlink", "leftovers"} /\
           pc'[p] \in {"exited", "failed"} /\ ~overlap /\ failures' = 0 =>
             /\ pc'[p] = "exited" /\ file' = Absent /\ ~unit'
             /\ tmp' = Absent \/ lost]_vars
    BY <1>1
<1>3. QED
    BY <1>2, BootstrapInvariant, PTL DEF Spec, LogoutIsComplete

-----------------------------------------------------------------------------
(* Bootstrap implements ConfigCell: every step is one step of the cell,    *)
(* most of them outside of it.                                             *)
LEMMA CellInit == Init => Cell!Init
<1> SUFFICES ASSUME Init PROVE Cell!Init
    OBVIOUS
<1>1. MaxPeers \in Nat /\ Stored \subseteq 1..MaxPeers
    BY BootstrapAssumption DEF Peers
<1>2. Loaded \in Peers \union {0} /\ issued = Loaded
    BY DEF Init, Loaded
<1>3. \A q \in Peers : q > Loaded => status[q] = "none"
    BY <1>1, <1>2 DEF Init, Peers
<1>4. (\E p \in Procs : kind[p] = "logout" /\ pc[p] \in {"revoke", "stat", "zero", "unlink"}) = FALSE
    BY DEF Init
<1>5. unsaved = FALSE
    BY DEF Init
<1>6. QED
    BY <1>2, <1>3, <1>4, <1>5, Zenon DEF Cell!Init

(* The file changes at three points only, which no other step is at.       *)
LEMMA WhoseStep ==
  ASSUME NEW p \in Procs, Moves(p)
  PROVE  /\ pc[p] \in {"zero", "unlink"} => Zero(p) \/ Unlink(p) \/ Crash(p)
         /\ pc[p] = "rename" => Rename(p) \/ Crash(p)
<1> USE DEF Goto, Step, End
<1>1. Start(p) \/ runDefault(p) \/ runLogout(p) =>
        pc[p] \in {"new", "load", "claim", "ping", "connect", "logout", "revoke", "leftovers"}
    BY DEF Start, runDefault, LoadConfig, Claim, ClaimFails, pingC2State, Disconnect, runLogout,
           LogoutLoad, bestEffortRevoke, Leftovers
<1>2. RemoveTmp(p) \/ CreateTmp(p) \/ WriteTmp(p) =>
        pc[p] \in {"removeTmp", "createTmp", "writeTmp"}
    BY DEF RemoveTmp, CreateTmp, WriteTmp, SaveGoesOn, SaveEnds
<1>3. /\ Rename(p) => pc[p] = "rename"
      /\ Stat(p) => pc[p] = "stat"
      /\ Zero(p) \/ Unlink(p) => pc[p] \in {"zero", "unlink"}
    BY DEF Rename, SaveEnds, Stat, Zero, Unlink, WipeEnds
<1>4. QED
    BY <1>1, <1>2, <1>3 DEF Moves, SaveConfig, WipeConfig

(* As long as the file stays the same, so does the cell.                   *)
LEMMA OutsideTheCell ==
  ASSUME TypeOK, Ledger, NEW p \in Procs, Moves(p), UNCHANGED Loaded
  PROVE  Cell!Outside
BY StepEffects, StepGrows DEF Effects, Grows, Cell!Outside

(* Zeroing and unlinking both forget the pairing, and the one that comes   *)
(* second changes nothing: for a logout, or for a run whose preflight has  *)
(* seen the end of the peer in the file.                                   *)
LEMMA WipeForgets ==
  ASSUME IInv, NEW p \in Procs, Moves(p), pc[p] \in {"zero", "unlink"}, file' \in {Absent, Junk}
  PROVE  Cell!Forget \/ Cell!Outside
<1>1. /\ TypeOK /\ Ledger /\ Role(p) /\ Memory(p) /\ MaxPeers \in Nat
      /\ pc \in [Procs -> PCs] /\ kind \in [Procs -> Kinds \union {"none"}]
    BY BootstrapAssumption DEF IInv, TypeOK
<1>2. Loaded' = 0
    BY <1>1 DEF Loaded, Peers, Absent, Junk
<1>3. CASE Loaded = 0
    BY <1>1, <1>2, <1>3, OutsideTheCell
<1>4. CASE Loaded # 0
  <2>1. file \in Peers /\ Loaded = file
      BY <1>4 DEF Loaded
  <2>2. UNCHANGED <<status, unsaved>>
    <3>1. Zero(p) \/ Unlink(p) \/ Crash(p)
        BY WhoseStep
    <3>2. QED
        BY <3>1 DEF Zero, Unlink, Crash, srvVars, histVars
  <2>3. kind[p] = "logout" \/ unsaved \/ status[file] # "active"
      BY <1>1, <2>1 DEF Role, Memory, Alive, Ended, Runs, Wiping
  <2>4. \/ \E r \in Procs : kind[r] = "logout" /\ pc[r] \in {"revoke", "stat", "zero", "unlink"}
        \/ unsaved \/ (Loaded # 0 /\ status[Loaded] # "active")
      BY <1>4, <2>1, <2>3
  <2>5. QED
      BY <1>2, <2>2, <2>4, Zenon DEF Cell!Forget
<1>5. QED
    BY <1>3, <1>4

(* The rename is the step that stores the claim: a younger pairing than    *)
(* the one in the file, and it ends no logout.                             *)
LEMMA RenameStores ==
  ASSUME IInv, NEW p \in Procs, Rename(p), file' # file
  PROVE  Cell!Store
<1>1. /\ TypeOK /\ Ledger /\ Role(p) /\ Memory(p) /\ MaxPeers \in Nat /\ issued \in 0..MaxPeers
      /\ pc \in [Procs -> PCs] /\ kind \in [Procs -> Kinds \union {"none"}]
      /\ ret \in [Procs -> {"ping", "connect"}]
      /\ file \in {0, MaxPeers + 1} \union 1..issued
    BY BootstrapAssumption DEF IInv, TypeOK, Absent, Junk
<1>2. pc[p] = "rename" /\ file' = tmp /\ SaveEnds(p, "rename", TRUE)
    BY DEF Rename, SaveEnds, Step, Goto
<1>3. file' = issued /\ issued \in Peers /\ file # issued
    BY <1>1, <1>2 DEF Memory, Saving, Peers
<1>4. Loaded' = issued /\ issued > Loaded /\ status[issued] # "none"
    BY <1>1, <1>3 DEF Loaded, Ledger, Peers
<1>5. kind[p] # "logout" /\ UNCHANGED <<kind, status>>
    BY <1>1, <1>2 DEF Role, Wiping, Rename, SaveEnds, Step, procVars, srvVars
<1>6. \A q \in Procs : kind[q] = "logout" => pc'[q] = pc[q]
    BY <1>1, <1>2, <1>5 DEF SaveEnds, Step, Goto
<1>7. (\E q \in Procs : kind'[q] = "logout" /\ pc'[q] \in {"revoke", "stat", "zero", "unlink"})
        = (\E q \in Procs : kind[q] = "logout" /\ pc[q] \in {"revoke", "stat", "zero", "unlink"})
    BY <1>5, <1>6
<1>8. unsaved' = unsaved
  <2>1. unsaved \in BOOLEAN /\ unsaved' = (unsaved \/ ~TRUE)
      BY <1>1, <1>2, Zenon DEF TypeOK, SaveEnds
  <2>2. QED
      BY <2>1
<1>9. QED
    BY <1>3, <1>4, <1>5, <1>7, <1>8 DEF Cell!Store

LEMMA CellNext == IInv /\ [Next]_vars => [Cell!Next]_Cell!vars
<1> SUFFICES ASSUME IInv, [Next]_vars PROVE [Cell!Next]_Cell!vars
    OBVIOUS
<1>1. TypeOK /\ Ledger
    BY DEF IInv
<1>2. CASE UNCHANGED vars
    BY <1>2 DEF vars, procVars, diskVars, srvVars, histVars, Cell!vars, Loaded
<1>3. ASSUME NEW p \in Procs, Moves(p) PROVE Cell!Next
  <2>1. CASE UNCHANGED file
      BY <1>1, <1>3, <2>1, OutsideTheCell DEF Loaded, Cell!Next
  <2>2. CASE file' # file /\ pc[p] = "rename"
    <3>1. Rename(p) \/ Crash(p)
        BY <1>3, <2>2, WhoseStep
    <3>2. ~Crash(p)
        BY <2>2 DEF Crash, diskVars
    <3>3. QED
        BY <2>2, <3>1, <3>2, RenameStores DEF Cell!Next
  <2>3. CASE pc[p] \in {"zero", "unlink"} /\ file' \in {Absent, Junk}
      BY <1>3, <2>3, WipeForgets DEF Cell!Next
  <2>4. QED
      BY <1>1, <1>3, <2>1, <2>2, <2>3, StepEffects DEF Effects
<1>4. ASSUME NEW q \in Peers, Withdraw(q) PROVE Cell!Outside
  <2>1. UNCHANGED Loaded /\ UNCHANGED unsaved
      BY <1>4 DEF Withdraw, diskVars, histVars, Loaded
  <2>2. \A r \in Peers : status[r] # "none" => status'[r] # "none"
      BY <1>1, <1>4 DEF Withdraw, TypeOK
  <2>3. QED
      BY <2>1, <2>2 DEF Cell!Outside
<1>5. QED
    BY <1>2, <1>3, <1>4 DEF Next, Moves, Cell!Next

(* The config file keeps its promise: a start finds the stored pairing or  *)
(* none, a pairing is replaced by a younger one only, and it is forgotten  *)
(* only for a logout or because of the end of a peer, in a single step,    *)
(* whatever crashes, fails or overlaps in SaveConfig and WipeConfig.       *)
THEOREM ImplementsCell == Spec => StoredPairing
BY CellInit, CellNext, BootstrapInvariant, PTL DEF Spec, StoredPairing, Cell!Spec
=============================================================================
