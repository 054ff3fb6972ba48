------------------------------ MODULE PidLock ------------------------------
(***************************************************************************)
(* The single-instance lock of the client (client/main.go, acquirePIDLock  *)
(* and releasePIDLock, with processExists of pid_unix.go).                 *)
(*                                                                         *)
(* A lock file is created empty and filled by a second system call, so a   *)
(* path and the inode behind it are told apart: the inode a process        *)
(* creates is named after the process, which creates at most one, and a    *)
(* write goes to the inode even when the path no longer leads to it.       *)
(***************************************************************************)
EXTENDS Naturals, FiniteSets

CONSTANTS Procs,       \* the processes (pids) that ever run the client
          NoFile,      \* nothing at pidFilePath
          maxAttempts  \* 5 in the code

ASSUME LockAssumption == NoFile \notin Procs /\ maxAttempts \in Nat \ {0}

VARIABLES
  pc,       \* pc[p]: where p stands in acquirePIDLock, or its outcome
  alive,    \* alive[p]: kill(p, 0) succeeds
  attempt,  \* attempt[p]: the loop counter
  file,     \* the inode at pidFilePath, or NoFile
  written,  \* written[p]: p's inode holds p's pid
  seen,     \* seen[p]: the pid p has read, or NoFile
  raced     \* history: two processes have been inside acquirePIDLock at once

vars == <<pc, alive, attempt, file, written, seen, raced>>

InAcquire(p) == pc[p] \in {"open", "write", "read", "probe", "remove"}
Holds(p)     == pc[p] = "holding"
HasPid       == \E q \in Procs : file = q /\ written[q]

Init ==
  /\ pc = [p \in Procs |-> "new"]
  /\ alive = [p \in Procs |-> FALSE]
  /\ attempt = [p \in Procs |-> 0]
  /\ file = NoFile
  /\ written = [p \in Procs |-> FALSE]
  /\ seen = [p \in Procs |-> NoFile]
  /\ raced = FALSE

Goto(p, point) == pc' = [pc EXCEPT ![p] = point]

Start(p) ==
  /\ pc[p] = "new"
  /\ Goto(p, "open")
  /\ alive' = [alive EXCEPT ![p] = TRUE]
  /\ attempt' = [attempt EXCEPT ![p] = 1]
  /\ raced' = (raced \/ \E q \in Procs : InAcquire(q))
  /\ UNCHANGED <<file, written, seen>>

(* OpenFile(O_CREATE|O_EXCL).  Any error but "exists" refuses the start.   *)
OpenExcl(p) ==
  /\ pc[p] = "open"
  /\ \/ file = NoFile /\ file' = p /\ Goto(p, "write")
     \/ file # NoFile /\ Goto(p, "read") /\ UNCHANGED file
     \/ Goto(p, "refused") /\ UNCHANGED file
  /\ UNCHANGED <<alive, attempt, written, seen, raced>>

(* Fprintf of the pid: the lock is taken whatever became of the path.      *)
WritePid(p) ==
  /\ pc[p] = "write"
  /\ written' = [written EXCEPT ![p] = TRUE]
  /\ Goto(p, "holding")
  /\ UNCHANGED <<alive, attempt, file, seen, raced>>

(* ReadFile and Sscan: no file, or one with no pid in it yet, is stale.    *)
ReadFile(p) ==
  /\ pc[p] = "read"
  /\ \/ /\ file # NoFile /\ written[file]
        /\ seen' = [seen EXCEPT ![p] = file]
        /\ Goto(p, "probe")
     \/ /\ ~HasPid
        /\ seen' = [seen EXCEPT ![p] = NoFile]
        /\ Goto(p, "remove")
  /\ UNCHANGED <<alive, attempt, file, written, raced>>

(* Mutant: pid_windows.go, where no process ever exists.                   *)
processExistsNever(q) == FALSE

processExists(q) == alive[q]

Probe(p) ==
  /\ pc[p] = "probe"
  /\ Goto(p, IF processExists(seen[p]) THEN "refused" ELSE "remove")
  /\ UNCHANGED <<alive, attempt, file, written, seen, raced>>

(* Mutant: the ceiling is tested after the counter has passed it.          *)
RemoveOffByOne(p) ==
  /\ pc[p] = "remove"
  /\ file' \in {NoFile, file}
  /\ IF attempt[p] <= maxAttempts
       THEN Goto(p, "open") /\ attempt' = [attempt EXCEPT ![p] = @ + 1]
       ELSE Goto(p, "refused") /\ UNCHANGED attempt
  /\ UNCHANGED <<alive, written, seen, raced>>

(* Remove whatever is at the path now (the error, in a sticky directory,   *)
(* is ignored), sleep, and try again or give up.                           *)
Remove(p) ==
  /\ pc[p] = "remove"
  /\ file' \in {NoFile, file}
  /\ IF attempt[p] < maxAttempts
       THEN Goto(p, "open") /\ attempt' = [attempt EXCEPT ![p] = @ + 1]
       ELSE Goto(p, "refused") /\ UNCHANGED attempt
  /\ UNCHANGED <<alive, written, seen, raced>>

(* releasePIDLock unlinks the path unconditionally; the process exits.     *)
Release(p) ==
  /\ Holds(p)
  /\ file' \in {NoFile, file}
  /\ Goto(p, "exited")
  /\ alive' = [alive EXCEPT ![p] = FALSE]
  /\ UNCHANGED <<attempt, written, seen, raced>>

RefusedExits(p) ==
  /\ pc[p] = "refused" /\ alive[p]
  /\ alive' = [alive EXCEPT ![p] = FALSE]
  /\ UNCHANGED <<pc, attempt, file, written, seen, raced>>

(* SIGKILL, power loss or a panic: deferred calls do not run.              *)
Crash(p) ==
  /\ alive[p] /\ pc[p] # "refused"
  /\ alive' = [alive EXCEPT ![p] = FALSE]
  /\ Goto(p, "crashed")
  /\ UNCHANGED <<attempt, file, written, seen, raced>>

acquirePIDLock(p) == OpenExcl(p) \/ WritePid(p) \/ ReadFile(p)
                       \/ Probe(p) \/ Remove(p)

Next == \E p \in Procs : \/ Start(p) \/ acquirePIDLock(p) \/ Release(p)
                         \/ RefusedExits(p) \/ Crash(p)

Spec == Init /\ [][Next]_vars

-----------------------------------------------------------------------------
(* Properties *)

PCs == {"new", "open", "write", "read", "probe", "remove",
        "holding", "refused", "exited", "crashed"}

(* The variables keep their types; no process makes more than maxAttempts  *)
(* attempts, even while starts keep removing each other's files.           *)
TypeOK ==
  /\ pc \in [Procs -> PCs]
  /\ alive \in [Procs -> BOOLEAN]
  /\ attempt \in [Procs -> 0..maxAttempts]
  /\ file \in Procs \union {NoFile}
  /\ written \in [Procs -> BOOLEAN]
  /\ seen \in [Procs -> Procs \union {NoFile}]
  /\ raced \in BOOLEAN

(* "Enforce single-instance via PID lock file" (client/main.go:583): two   *)
(* processes never both hold the lock.                                     *)
SingleInstance == \A p, q \in Procs : Holds(p) /\ Holds(q) => p = q

(* As long as no two starts have overlapped, the promise is kept, through  *)
(* any number of crashes and stale files: one holder at most, its own pid  *)
(* in the file.                                                            *)
SingleUnlessRaced ==
  ~raced => \A p \in Procs : Holds(p) =>
              /\ file = p /\ written[p]
              /\ \A q \in Procs : Holds(q) => q = p
=============================================================================
