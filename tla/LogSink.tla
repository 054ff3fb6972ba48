------------------------------ MODULE LogSink ------------------------------
(***************************************************************************)
(* The durable log (client/logsink.go): every default invocation appends   *)
(* to one live file and rotates it by size.  The log is opened before the  *)
(* PID lock is taken, so a second start, refused a moment later, writes    *)
(* and may rotate the files of the first.                                  *)
(*                                                                         *)
(* A file that is open is known by the name it has now: fd follows it when *)
(* it is renamed, and is Unlinked when its name is gone.  A record is its  *)
(* number, repeated once per unit of its length.                           *)
(***************************************************************************)
EXTENDS Naturals, Sequences, FiniteSets

CONSTANTS Procs,      \* invocations of the binary
          maxSize,    \* logMaxBytes, in units
          keep,       \* logKeep, the number of archives
          Lengths,    \* how long a record may be
          MaxRecords, \* bound: records written
          MaxFail     \* bound: calls that fail by chance

ASSUME SinkAssumption ==
  /\ IsFiniteSet(Procs) /\ keep \in Nat \ {0} /\ maxSize \in Nat
  /\ Lengths \subseteq 1..maxSize /\ {MaxRecords, MaxFail} \subseteq Nat

Slots    == 0..keep   \* 0 is the live file, i is path.i
Missing  == <<0>>     \* what a name that does not exist refers to
Unlinked == keep + 1
Closed   == keep + 2

VARIABLES
  dir,       \* dir[i]: the content of the file that slot i names, or Missing
  pc,        \* pc[p]: where p stands; the semaphore is free only at "idle"
  fd,        \* fd[p]: the slot of the file p has open, Unlinked or Closed
  appends,   \* appends[p]: it was opened with O_APPEND
  n,         \* n[p]: the size p believes the live file has
  slot,      \* slot[p]: the archive the shifting loop has reached
  record,    \* record[p]: the record being written, <<>> for none
  created,   \* created[p]: createdByUs
  last,      \* number of the last record
  failures,  \* history: calls that failed by chance
  overlap    \* history: two invocations have been alive at once

sink  == <<fd, appends, n>>
vars  == <<dir, pc, sink, slot, record, created, last, failures, overlap>>

Alive(p) == pc[p] \notin {"new", "ended"}

Init ==
  /\ dir = [i \in Slots |-> Missing]
  /\ pc = [p \in Procs |-> "new"]
  /\ fd = [p \in Procs |-> Closed] /\ appends = [p \in Procs |-> TRUE]
  /\ n = [p \in Procs |-> 0]
  /\ slot = [p \in Procs |-> 0]
  /\ record = [p \in Procs |-> <<>>]
  /\ created = [p \in Procs |-> FALSE]
  /\ last = 0 /\ failures = 0 /\ overlap = FALSE

Goto(p, from, to) == pc[p] = from /\ pc' = [pc EXCEPT ![p] = to]

Fails == failures < MaxFail /\ failures' = failures + 1
Works == UNCHANGED failures

(* p goes from one point to another with its sink as it is.                *)
Step(p, from, to) ==
  /\ Goto(p, from, to)
  /\ UNCHANGED <<appends, n, record, created, last, overlap>>

(* p gives up the record at hand.                                          *)
GiveUp(p, from) ==
  /\ Goto(p, from, "idle")
  /\ record' = [record EXCEPT ![p] = <<>>]
  /\ UNCHANGED <<dir, sink, created, last, overlap>>

-----------------------------------------------------------------------------
(* rotatingSink.open *)

(* Mutant: a sink that reopens the file starts counting at zero.           *)
OpenedUncounted(p, truncate) ==
  /\ dir' = [dir EXCEPT ![0] = IF truncate \/ @ = Missing THEN <<>> ELSE @]
  /\ fd' = [fd EXCEPT ![p] = 0]
  /\ appends' = [appends EXCEPT ![p] = ~truncate]
  /\ n' = [n EXCEPT ![p] = 0]

(* Mutant: O_TRUNC is forgotten; the write position is still the start.    *)
OpenedUntruncated(p, truncate) ==
  /\ dir' = [dir EXCEPT ![0] = IF @ = Missing THEN <<>> ELSE @]
  /\ fd' = [fd EXCEPT ![p] = 0]
  /\ appends' = [appends EXCEPT ![p] = ~truncate]
  /\ n' = [n EXCEPT ![p] = IF truncate THEN 0 ELSE Len(dir'[0])]

(* open(truncate): a truncating open does not ask for O_APPEND.            *)
Opened(p, truncate) ==
  /\ dir' = [dir EXCEPT ![0] = IF truncate \/ @ = Missing THEN <<>> ELSE @]
  /\ fd' = [fd EXCEPT ![p] = 0]
  /\ appends' = [appends EXCEPT ![p] = ~truncate]
  /\ n' = [n EXCEPT ![p] = Len(dir'[0])]

(* osRename and osRemove.  A source that is missing changes nothing.       *)
Rename(i, j) ==
  IF dir[i] = Missing THEN UNCHANGED <<dir, fd>> ELSE
  /\ dir' = [dir EXCEPT ![j] = dir[i], ![i] = Missing]
  /\ fd' = [q \in Procs |-> CASE fd[q] = i -> j
                               [] fd[q] = j -> Unlinked
                               [] OTHER     -> fd[q]]

Remove(i) ==
  /\ dir' = [dir EXCEPT ![i] = Missing]
  /\ fd' = [q \in Procs |-> IF fd[q] = i THEN Unlinked ELSE fd[q]]

-----------------------------------------------------------------------------
(* newRotatingSink.  A run without a durable log is not followed further.  *)

Start(p) ==
  /\ Goto(p, "new", "open")
  /\ created' = [created EXCEPT ![p] = dir[0] = Missing]
  /\ overlap' = (overlap \/ \E q \in Procs : Alive(q))
  /\ UNCHANGED <<dir, sink, slot, record, last, failures>>

OpenFirst(p) ==
  /\ \/ Goto(p, "open", "protect") /\ Opened(p, FALSE) /\ Works
     \/ Goto(p, "open", "ended") /\ UNCHANGED <<dir, sink>> /\ Fails
  /\ UNCHANGED <<slot, record, created, last, overlap>>

(* restrictToOwner: a file that cannot be protected is removed, if this    *)
(* start has created it.                                                   *)
Protect(p) ==
  /\ \/ Goto(p, "protect", "idle") /\ UNCHANGED <<dir, fd>> /\ Works
     \/ /\ Goto(p, "protect", "ended") /\ Fails
        /\ LET fdAfter == [fd EXCEPT ![p] = Closed] IN
             IF created[p]
             THEN /\ dir' = [dir EXCEPT ![0] = Missing]
                  /\ fd' = [q \in Procs |-> IF fdAfter[q] = 0 THEN Unlinked ELSE fdAfter[q]]
             ELSE fd' = fdAfter /\ UNCHANGED dir
  /\ UNCHANGED <<appends, n, slot, record, created, last, overlap>>

-----------------------------------------------------------------------------
(* Write *)

(* Mutant: a rotation leaves the file open and the write goes on.          *)
WriteOpen(p) ==
  /\ last < MaxRecords
  /\ last' = last + 1
  /\ \E len \in Lengths :
       /\ record' = [record EXCEPT ![p] = [i \in 1..len |-> last']]
       /\ Goto(p, "idle", IF n[p] + len > maxSize THEN "remove" ELSE "put")
  /\ UNCHANGED <<dir, fd, appends, n, slot, created, failures, overlap>>

(* The semaphore, then the size check; a rotation closes the file first.   *)
Write(p) ==
  /\ last < MaxRecords
  /\ last' = last + 1
  /\ \E len \in Lengths :
       /\ record' = [record EXCEPT ![p] = [i \in 1..len |-> last']]
       /\ IF n[p] + len > maxSize
          THEN Goto(p, "idle", "remove") /\ fd' = [fd EXCEPT ![p] = Closed]
          ELSE Goto(p, "idle", "put") /\ UNCHANGED fd
  /\ UNCHANGED <<dir, appends, n, slot, created, failures, overlap>>

(* Mutant: the shifting loop starts one archive too low.                   *)
RemoveOldestShort(p) ==
  /\ slot' = [slot EXCEPT ![p] = keep - 2]
  /\ \/ Step(p, "remove", "shift") /\ Remove(keep) /\ Works
     \/ Step(p, "remove", "truncate") /\ UNCHANGED <<dir, fd>> /\ Fails

(* rotate: remove the oldest archive ...                                   *)
RemoveOldest(p) ==
  /\ slot' = [slot EXCEPT ![p] = keep - 1]
  /\ \/ Step(p, "remove", "shift") /\ Remove(keep) /\ Works
     \/ Step(p, "remove", "truncate") /\ UNCHANGED <<dir, fd>> /\ Fails

(* ... shift the others, oldest first; a missing one is skipped ...        *)
Shift(p) ==
  /\ slot[p] > 0
  /\ slot' = [slot EXCEPT ![p] = @ - 1]
  /\ \/ Step(p, "shift", "shift") /\ Rename(slot[p], slot[p] + 1) /\ Works
     \/ Step(p, "shift", "truncate") /\ UNCHANGED <<dir, fd>> /\ Fails

(* ... and archive the live file, which has to exist.                      *)
Archive(p) ==
  /\ slot[p] = 0
  /\ \/ Step(p, "shift", "append") /\ dir[0] # Missing /\ Rename(0, 1) /\ Works
     \/ /\ Step(p, "shift", "truncate") /\ UNCHANGED <<dir, fd>>
        /\ (dir[0] = Missing /\ Works) \/ Fails
  /\ UNCHANGED slot

(* Mutant: the failure is reported through the logger, whose Write waits   *)
(* for the semaphore its caller holds.                                     *)
ReportDirectlyNot(p) == pc[p] = "idle"

(* The failure is reported on stderr, which takes no semaphore.            *)
ReportDirectly(p) == pc[p] = "truncate"

(* Either open; when it fails the record is lost and the file stays        *)
(* closed, with n as it was.                                               *)
Reopen(p, from, truncate) ==
  /\ \/ /\ Goto(p, from, "put") /\ Opened(p, truncate) /\ Works
        /\ UNCHANGED <<record, created, last, overlap>>
     \/ GiveUp(p, from) /\ Fails
  /\ UNCHANGED slot

Truncate(p)  == ReportDirectly(p) /\ Reopen(p, "truncate", TRUE)
OpenFresh(p) == Reopen(p, "append", FALSE)

(* A write past the end leaves a hole, here of zeros.                      *)
Written(c, at, s) ==
  [i \in 1..(IF at + Len(s) > Len(c) THEN at + Len(s) ELSE Len(c)) |->
     IF i \in at + 1..at + Len(s) THEN s[i - at]
     ELSE IF i <= Len(c) THEN c[i] ELSE 0]

(* Mutant: what is written is not counted.                                 *)
PutUncounted(p) ==
  /\ fd[p] # Closed
  /\ dir' = [i \in Slots |-> IF i # fd[p] THEN dir[i] ELSE
       Written(dir[i], IF appends[p] THEN Len(dir[i]) ELSE n[p], record[p])]
  /\ Goto(p, "put", "idle")
  /\ record' = [record EXCEPT ![p] = <<>>]
  /\ UNCHANGED <<fd, appends, n, slot, created, last, failures, overlap>>

(* f.Write: at the end with O_APPEND, else where this process has got to;  *)
(* what goes to an unlinked file is gone.  On a closed file it fails.      *)
Put(p) ==
  /\ \/ /\ fd[p] # Closed
        /\ dir' = [i \in Slots |-> IF i # fd[p] THEN dir[i] ELSE
             Written(dir[i], IF appends[p] THEN Len(dir[i]) ELSE n[p], record[p])]
        /\ n' = [n EXCEPT ![p] = @ + Len(record[p])]
        /\ Goto(p, "put", "idle")
        /\ record' = [record EXCEPT ![p] = <<>>]
        /\ UNCHANGED <<fd, appends, created, last, overlap>> /\ Works
     \/ GiveUp(p, "put") /\ (IF fd[p] = Closed THEN Works ELSE Fails)
  /\ UNCHANGED slot

-----------------------------------------------------------------------------
(* Close at the end of the run, or the death of the process at any point.  *)
End(p) ==
  /\ Alive(p)
  /\ pc' = [pc EXCEPT ![p] = "ended"]
  /\ fd' = [fd EXCEPT ![p] = Closed] /\ appends' = [appends EXCEPT ![p] = TRUE]
  /\ n' = [n EXCEPT ![p] = 0] /\ slot' = [slot EXCEPT ![p] = 0]
  /\ record' = [record EXCEPT ![p] = <<>>] /\ created' = [created EXCEPT ![p] = FALSE]
  /\ UNCHANGED <<dir, last, failures, overlap>>

rotate(p)    == RemoveOldest(p) \/ Shift(p) \/ Archive(p)
Returning(p) == rotate(p) \/ Truncate(p) \/ OpenFresh(p) \/ Put(p)

Next == \E p \in Procs : \/ Start(p) \/ OpenFirst(p) \/ Protect(p) \/ Write(p)
                         \/ Returning(p) \/ End(p)

(* File operations return.                                                 *)
Fairness == \A p \in Procs : WF_vars(Returning(p))

Spec == Init /\ [][Next]_vars /\ Fairness

-----------------------------------------------------------------------------
(* Properties *)

Contents == UNION {[1..k -> 0..MaxRecords] : k \in 0..(Cardinality(Procs) * maxSize)}

(* The variables keep their types.  No file outgrows the limit by more     *)
(* than the number of processes that count it separately.                  *)
TypeOK ==
  /\ dir \in [Slots -> Contents \union {Missing}]
  /\ pc \in [Procs -> {"new", "open", "protect", "idle", "put", "remove", "shift",
                       "truncate", "append", "ended"}]
  /\ fd \in [Procs -> Slots \union {Unlinked, Closed}]
  /\ appends \in [Procs -> BOOLEAN] /\ created \in [Procs -> BOOLEAN]
  /\ n \in [Procs -> 0..(Cardinality(Procs) * maxSize)]
  /\ slot \in [Procs -> 0..keep - 1]
  /\ record \in [Procs -> Contents]
  /\ last \in 0..MaxRecords /\ failures \in 0..MaxFail /\ overlap \in BOOLEAN

(* "Bounded growth beats silent inflation": whatever fails and whenever    *)
(* the process dies and starts again, no file exceeds the limit.           *)
Bounded ==
  ~overlap => \A i \in Slots : dir[i] # Missing => Len(dir[i]) <= maxSize

(* The log from the oldest archive to the live file.                       *)
Slot(i) == IF dir[i] = Missing THEN <<>> ELSE dir[i]
Chronicle[i \in Slots] == IF i = keep THEN Slot(i) ELSE Chronicle[i + 1] \o Slot(i)
Log == Chronicle[0]

(* The log reads in the order it was written, across archives, failed      *)
(* rotations, restarts and crashes half way through a rotation.            *)
Chronological ==
  ~overlap => \A i \in 1..Len(Log) - 1 : Log[i] <= Log[i + 1]

(* Nothing is dropped early: when no call fails and no process dies, the   *)
(* log is the latest records without a gap, and one goes only when every   *)
(* archive is in use.                                                      *)
KeepsTheLatest ==
  ~overlap /\ failures = 0 /\ (\A p \in Procs : pc[p] \in {"new", "idle"}) /\ Log # <<>> =>
    /\ \A i \in 1..Len(Log) - 1 : Log[i + 1] - Log[i] \in {0, 1}
    /\ Log[Len(Log)] = last
    /\ Log[1] = 1 \/ \A i \in Slots : dir[i] # Missing

(* Between two records an open sink is on the live file: no failure sends  *)
(* the following records into an archive or an unlinked file.              *)
OnLiveFile ==
  ~overlap => \A p \in Procs : pc[p] = "idle" /\ fd[p] # Closed => fd[p] = 0

(* A write returns: rotation, its failure and the report of it never wait  *)
(* for the semaphore the write itself holds.                               *)
WriteReturns ==
  \A p \in Procs : pc[p] = "remove" ~> pc[p] \in {"idle", "ended"}
=============================================================================
