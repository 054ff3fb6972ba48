--------------------------- MODULE PidLockProofs ---------------------------
(***************************************************************************)
(* Proofs about PidLock: its type invariant and, for any set of processes  *)
(* and any ceiling on the attempts, that the lock admits one process as    *)
(* long as no two starts have overlapped.                                  *)
(***************************************************************************)
EXTENDS PidLock, TLAPS

(* SingleUnlessRaced says nothing about the processes still on their way   *)
(* to the lock.  What they know about the holder makes it inductive: one   *)
(* of them at a time; the file is its own while it fills it; a process it  *)
(* is about to probe is the holder, if there is one; and when it is about  *)
(* to remove the file, nobody holds the lock.                              *)
Solitary ==
  /\ \A p, q \in Procs : InAcquire(p) /\ InAcquire(q) => p = q
  /\ \A p \in Procs : Holds(p) => file = p /\ written[p]
  /\ \A p \in Procs : InAcquire(p) \/ Holds(p) => alive[p]
  /\ \A p \in Procs : pc[p] = "write" => file = p
  /\ \A p, q \in Procs : pc[p] = "probe" /\ Holds(q) => seen[p] = q
  /\ \A p, q \in Procs : pc[p] = "remove" => ~Holds(q)
  /\ \A p \in Procs : pc[p] = "probe" => seen[p] \in Procs

LockInv == ~raced => Solitary

-----------------------------------------------------------------------------
(* Before any process starts.                                              *)
LEMMA InitTypeOK == Init => TypeOK
<1> SUFFICES ASSUME Init PROVE TypeOK
    OBVIOUS
<1>1. attempt \in [Procs -> 0..maxAttempts]
    BY LockAssumption DEF Init
<1>2. pc \in [Procs -> PCs]
    BY DEF Init, PCs
<1>3. /\ alive \in [Procs -> BOOLEAN] /\ written \in [Procs -> BOOLEAN]
      /\ raced \in BOOLEAN
    BY Zenon DEF Init
<1>4. file \in Procs \union {NoFile} /\ seen \in [Procs -> Procs \union {NoFile}]
    BY DEF Init
<1>5. QED
    BY <1>1, <1>2, <1>3, <1>4, Zenon DEF TypeOK

(* Every step of a process keeps the types.                                *)
LEMMA NextTypeOK == TypeOK /\ [Next]_vars => TypeOK'
<1> SUFFICES ASSUME TypeOK, [Next]_vars PROVE TypeOK'
    OBVIOUS
<1> USE LockAssumption DEF TypeOK, PCs
<1>1. CASE UNCHANGED vars
    BY <1>1 DEF vars
<1>2. ASSUME NEW p \in Procs, Start(p) PROVE TypeOK'
    BY <1>2 DEF Start, Goto
<1>3. ASSUME NEW p \in Procs, OpenExcl(p) PROVE TypeOK'
    BY <1>3 DEF OpenExcl, Goto
<1>4. ASSUME NEW p \in Procs, WritePid(p) PROVE TypeOK'
    BY <1>4 DEF WritePid, Goto
<1>5. ASSUME NEW p \in Procs, ReadFile(p) PROVE TypeOK'
    BY <1>5 DEF ReadFile, Goto
<1>6. ASSUME NEW p \in Procs, Probe(p) PROVE TypeOK'
    BY <1>6 DEF Probe, Goto
<1>7. ASSUME NEW p \in Procs, Remove(p) PROVE TypeOK'
    BY <1>7 DEF Remove, Goto
<1>8. ASSUME NEW p \in Procs, Release(p) PROVE TypeOK'
    BY <1>8 DEF Release, Goto
<1>9. ASSUME NEW p \in Procs, RefusedExits(p) PROVE TypeOK'
    BY <1>9 DEF RefusedExits
<1>10. ASSUME NEW p \in Procs, Crash(p) PROVE TypeOK'
    BY <1>10 DEF Crash, Goto
<1>11. QED
    BY <1>1, <1>2, <1>3, <1>4, <1>5, <1>6, <1>7, <1>8, <1>9, <1>10
    DEF Next, acquirePIDLock

(* The variables of acquirePIDLock keep their types: in particular the     *)
(* loop counter of main.go:375 never passes its ceiling.                   *)
THEOREM TypeCorrect == Spec => []TypeOK
<1>1. QED
    BY InitTypeOK, NextTypeOK, PTL DEF Spec

-----------------------------------------------------------------------------
(* Before any process starts.                                              *)
LEMMA InitLockInv == Init => LockInv
BY DEF Init, LockInv, Solitary, InAcquire, Holds

(* Every step that does not overlap two starts keeps LockInv.              *)
LEMMA NextLockInv == TypeOK /\ LockInv /\ [Next]_vars => LockInv'
<1> SUFFICES ASSUME TypeOK, LockInv, [Next]_vars, ~raced' PROVE Solitary'
    BY DEF LockInv
<1> USE LockAssumption DEF TypeOK, Solitary, InAcquire, Holds
<1>1. CASE UNCHANGED vars
    BY <1>1 DEF vars, LockInv
<1>2. ASSUME NEW p \in Procs, Start(p) PROVE Solitary'
    BY <1>2 DEF Start, Goto, LockInv
<1>3. ASSUME NEW p \in Procs, OpenExcl(p) PROVE Solitary'
    BY <1>3 DEF OpenExcl, Goto, LockInv
<1>4. ASSUME NEW p \in Procs, WritePid(p) PROVE Solitary'
    BY <1>4 DEF WritePid, Goto, LockInv
<1>5. ASSUME NEW p \in Procs, ReadFile(p) PROVE Solitary'
    BY <1>5 DEF ReadFile, HasPid, Goto, LockInv
<1>6. ASSUME NEW p \in Procs, Probe(p) PROVE Solitary'
    BY <1>6 DEF Probe, processExists, Goto, LockInv
<1>7. ASSUME NEW p \in Procs, Remove(p) PROVE Solitary'
    BY <1>7 DEF Remove, Goto, LockInv
<1>8. ASSUME NEW p \in Procs, Release(p) PROVE Solitary'
    BY <1>8 DEF Release, Goto, LockInv
<1>9. ASSUME NEW p \in Procs, RefusedExits(p) PROVE Solitary'
    BY <1>9 DEF RefusedExits, LockInv
<1>10. ASSUME NEW p \in Procs, Crash(p) PROVE Solitary'
    BY <1>10 DEF Crash, Goto, LockInv
<1>11. QED
    BY <1>1, <1>2, <1>3, <1>4, <1>5, <1>6, <1>7, <1>8, <1>9, <1>10
    DEF Next, acquirePIDLock

(* One instance at a time, the promise of main.go:583, for any number of   *)
(* processes, crashes and stale files, as long as no two starts overlap.   *)
THEOREM SingleInstanceUnlessRaced == Spec => []SingleUnlessRaced
<1>1. LockInv => SingleUnlessRaced
    BY DEF LockInv, Solitary, SingleUnlessRaced, Holds
<1>2. QED
    BY <1>1, InitTypeOK, NextTypeOK, InitLockInv, NextLockInv, PTL DEF Spec
=============================================================================
