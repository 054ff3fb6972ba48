---------------------------- MODULE LogSinkProofs ----------------------------
(***************************************************************************)
(* Proofs about LogSink, for any number of invocations that share the log, *)
(* any size limit, any number of archives and any failures: no file        *)
(* outgrows one limit per invocation; without overlapping invocations none *)
(* outgrows the limit, an open sink is on the live file, the log is in the *)
(* order it was written, and nothing of it is dropped early.  LogSink      *)
(* implements RecordLog.                                                   *)
(***************************************************************************)
EXTENDS LogSink, FiniteSetTheorems, SequenceTheorems, WellFoundedInduction, TLAPS

Text    == Seq(0..MaxRecords)
Points  == {"new", "open", "protect", "idle", "put", "remove", "shift", "truncate",
            "append", "ended"}
Writing == {"put", "remove", "shift", "truncate", "append"}
Shut    == {"new", "open", "remove", "shift", "truncate", "append", "ended"}
Most    == Cardinality(Procs) * maxSize

(* The types without the sizes, which need the ledger below.               *)
Types ==
  /\ dir \in [Slots -> Text]
  /\ pc \in [Procs -> Points]
  /\ fd \in [Procs -> Slots \union {Unlinked, Closed}]
  /\ appends \in [Procs -> BOOLEAN] /\ created \in [Procs -> BOOLEAN]
  /\ n \in [Procs -> Nat]
  /\ slot \in [Procs -> 0..keep - 1]
  /\ record \in [Procs -> Text]
  /\ last \in 0..MaxRecords /\ failures \in 0..MaxFail /\ overlap \in BOOLEAN

(* A record in hand is not empty, and made of its number, never of the     *)
(* zeros of a hole.                                                        *)
Holding(p) ==
  /\ Len(record[p]) <= maxSize
  /\ pc[p] \in Writing =>
       Len(record[p]) > 0 /\ \A i \in 1..Len(record[p]) : record[p][i] # 0

(* An open file exists, and rotation works with the file closed.           *)
Files(p) ==
  /\ fd[p] \in Slots => dir[fd[p]] # Missing
  /\ pc[p] \in Shut => fd[p] = Closed

Shape == Types /\ \A p \in Procs : Holding(p) /\ Files(p)

-----------------------------------------------------------------------------
(* Sizes, slots and texts *)

LEMMA Sizes ==
  /\ keep \in Nat /\ keep > 0 /\ maxSize \in Nat
  /\ MaxRecords \in Nat /\ MaxFail \in Nat
  /\ \A len \in Lengths : len \in Nat /\ 1 <= len /\ len <= maxSize
BY SinkAssumption

LEMMA SlotFacts ==
  /\ 0 \in Slots /\ 1 \in Slots /\ keep \in Slots
  /\ Unlinked \notin Slots /\ Closed \notin Slots /\ Unlinked # Closed
  /\ \A i \in Slots : i \in Nat
  /\ \A i \in 0..keep - 1 : i \in Slots /\ i + 1 \in Slots /\ i # i + 1
BY Sizes DEF Slots, Unlinked, Closed

LEMMA MissingFacts ==
  /\ Missing \in Text /\ Len(Missing) = 1 /\ Missing[1] = 0
  /\ <<>> \in Text /\ Len(<<>>) = 0 /\ <<>> # Missing
<1>1. 0 \in 0..MaxRecords
    BY Sizes
<1>2. <<0>> \in Text /\ Len(<<0>>) = 1 /\ <<0>>[1] = 0
    BY <1>1 DEF Text
<1>3. <<>> \in Text /\ Len(<<>>) = 0
    BY DEF Text
<1>4. QED
    BY <1>2, <1>3 DEF Missing

LEMMA TextFacts ==
  ASSUME NEW c \in Text
  PROVE  Len(c) \in Nat /\ \A i \in 1..Len(c) : c[i] \in 0..MaxRecords
BY LenProperties DEF Text

(* A record is its number, len times.                                      *)
LEMMA RecordFacts ==
  ASSUME NEW len \in Lengths, NEW r \in 1..MaxRecords
  PROVE  LET s == [i \in 1..len |-> r] IN
           /\ s \in Text /\ Len(s) = len /\ \A i \in 1..Len(s) : s[i] # 0
<1> DEFINE s == [i \in 1..len |-> r]
<1>1. len \in Nat /\ r \in 0..MaxRecords /\ r # 0
    BY Sizes
<1>2. s \in Text /\ Len(s) = len
    BY <1>1 DEF Text
<1>3. \A i \in 1..len : s[i] # 0
    BY <1>1
<1>4. QED
    BY <1>2, <1>3

(* What a file contains after a write, and that it is still a file: the    *)
(* zeros of a hole are followed by the record.                             *)
LEMMA WrittenFacts ==
  ASSUME NEW c \in Text, c # Missing, NEW at \in Nat, NEW s \in Text,
         Len(s) > 0, \A i \in 1..Len(s) : s[i] # 0
  PROVE  /\ Written(c, at, s) \in Text
         /\ Len(Written(c, at, s)) = (IF at + Len(s) > Len(c) THEN at + Len(s) ELSE Len(c))
         /\ Written(c, at, s) # Missing
<1> DEFINE size == IF at + Len(s) > Len(c) THEN at + Len(s) ELSE Len(c)
           w == Written(c, at, s)
<1>1. Len(s) \in Nat /\ Len(c) \in Nat
    BY TextFacts
<1>2. size \in Nat /\ 0 \in 0..MaxRecords
    BY <1>1, Sizes
<1>3. w = [i \in 1..size |-> IF i \in at + 1..at + Len(s) THEN s[i - at]
                             ELSE IF i <= Len(c) THEN c[i] ELSE 0]
    BY DEF Written
<1>4. ASSUME NEW i \in 1..size PROVE w[i] \in 0..MaxRecords
  <2>1. CASE i \in at + 1..at + Len(s)
    <3>1. i - at \in 1..Len(s)
        BY <1>1, <1>2, <2>1
    <3>2. w[i] = s[i - at]
        BY <1>3, <2>1
    <3>3. QED
        BY <3>1, <3>2, TextFacts
  <2>2. CASE i \notin at + 1..at + Len(s) /\ i <= Len(c)
    <3>1. w[i] = c[i] /\ i \in 1..Len(c)
        BY <1>1, <1>2, <1>3, <2>2
    <3>2. QED
        BY <3>1, TextFacts
  <2>3. CASE i \notin at + 1..at + Len(s) /\ ~(i <= Len(c))
      BY <1>2, <1>3, <2>3
  <2>4. QED
      BY <2>1, <2>2, <2>3
<1> HIDE DEF size, w
<1>5. w \in Text /\ Len(w) = size
  <2>1. w = [i \in 1..size |-> w[i]]
      BY <1>3
  <2>2. w \in [1..size -> 0..MaxRecords]
      BY <1>4, <2>1
  <2>3. w \in Text
    <3>1. [i \in 1..size |-> w[i]] \in Seq(0..MaxRecords)
        BY <1>2, <1>4
    <3>2. QED
        BY <2>1, <3>1 DEF Text
  <2>4. QED
      BY <1>2, <2>2, <2>3, LenProperties, SeqDef DEF Text
<1>6. w # Missing
  <2>1. SUFFICES ASSUME size = 1, w[1] = 0 PROVE FALSE
      BY <1>5, MissingFacts
  <2>2. at = 0 /\ Len(s) = 1
    <3>1. at + Len(s) <= 1
        BY <1>1, <2>1 DEF size
    <3>2. \A a, b \in Nat : b > 0 /\ a + b <= 1 => a = 0 /\ b = 1
        OBVIOUS
    <3>3. QED
        BY <1>1, <3>1, <3>2
  <2>3. w[1] = s[1]
    <3>1. 1 \in at + 1..at + Len(s) /\ 1 \in 1..size /\ 1 - at = 1
        BY <2>1, <2>2
    <3>2. QED
        BY <1>3, <3>1
  <2>4. QED
      BY <2>1, <2>2, <2>3
<1>7. QED
    BY <1>5, <1>6 DEF size, w

-----------------------------------------------------------------------------
(* The operations on files *)

(* An open file that exists stays where it is: what Opened, Rename, Remove *)
(* and Put have to keep for every process but the one at work.             *)
Follows(q) ==
  /\ fd[q] = Closed => fd'[q] = Closed
  /\ fd'[q] \in Slots => dir'[fd'[q]] # Missing

LEMMA OpenedFacts ==
  ASSUME Types, NEW p \in Procs, NEW truncate \in BOOLEAN, Opened(p, truncate)
  PROVE  /\ dir' \in [Slots -> Text]
         /\ fd' \in [Procs -> Slots \union {Unlinked, Closed}]
         /\ appends' \in [Procs -> BOOLEAN] /\ n' \in [Procs -> Nat]
         /\ dir'[0] # Missing /\ \A i \in Slots \ {0} : dir'[i] = dir[i]
         /\ dir'[0] = (IF truncate \/ dir[0] = Missing THEN <<>> ELSE dir[0])
         /\ fd'[p] = 0 /\ n'[p] = Len(dir'[0]) /\ appends'[p] = ~truncate
         /\ \A q \in Procs \ {p} : fd'[q] = fd[q] /\ n'[q] = n[q] /\ appends'[q] = appends[q]
<1> USE SlotFacts, MissingFacts DEF Types, Opened
<1>1. dir'[0] = (IF truncate \/ dir[0] = Missing THEN <<>> ELSE dir[0])
    OBVIOUS
<1>2. dir' \in [Slots -> Text] /\ \A i \in Slots \ {0} : dir'[i] = dir[i]
    OBVIOUS
<1>3. dir'[0] # Missing
    BY <1>1
<1>4. Len(dir'[0]) \in Nat
    BY <1>2, TextFacts
<1>5. /\ n' \in [Procs -> Nat] /\ n'[p] = Len(dir'[0])
      /\ \A q \in Procs \ {p} : n'[q] = n[q]
    BY <1>4
<1>6. /\ fd' \in [Procs -> Slots \union {Unlinked, Closed}] /\ fd'[p] = 0
      /\ \A q \in Procs \ {p} : fd'[q] = fd[q]
    OBVIOUS
<1>7. /\ appends' \in [Procs -> BOOLEAN] /\ appends'[p] = ~truncate
      /\ \A q \in Procs \ {p} : appends'[q] = appends[q]
  <2>1. appends' = [appends EXCEPT ![p] = ~truncate]
      OBVIOUS
  <2>2. (~truncate) \in BOOLEAN
      OBVIOUS
  <2>3. appends \in [Procs -> BOOLEAN]
      OBVIOUS
  <2> HIDE DEF Types, Opened
  <2>4. QED
      BY <2>1, <2>2, <2>3, Zenon
<1>8. QED
    BY <1>1, <1>2, <1>3, <1>5, <1>6, <1>7

LEMMA RenameFacts ==
  ASSUME Types, NEW i \in 0..keep - 1, Rename(i, i + 1)
  PROVE  /\ dir' \in [Slots -> Text]
         /\ fd' \in [Procs -> Slots \union {Unlinked, Closed}]
         /\ dir[i] = Missing => UNCHANGED <<dir, fd>>
         /\ dir[i] # Missing =>
              /\ dir'[i + 1] = dir[i] /\ dir'[i] = Missing
              /\ \A j \in Slots \ {i, i + 1} : dir'[j] = dir[j]
              /\ \A q \in Procs :
                   /\ fd[q] = i => fd'[q] = i + 1
                   /\ fd[q] = i + 1 => fd'[q] = Unlinked
                   /\ fd[q] \notin {i, i + 1} => fd'[q] = fd[q]
<1> USE DEF Types
<1>1. i \in Slots /\ i + 1 \in Slots /\ i # i + 1
    BY SlotFacts
<1>2. CASE dir[i] = Missing
    BY <1>2 DEF Rename
<1>3. CASE dir[i] # Missing
  <2>1. dir' = [dir EXCEPT ![i + 1] = dir[i], ![i] = Missing]
      BY <1>3 DEF Rename
  <2>2. fd' = [q \in Procs |-> CASE fd[q] = i -> i + 1
                                 [] fd[q] = i + 1 -> Unlinked
                                 [] OTHER -> fd[q]]
      BY <1>3 DEF Rename
  <2>3. ASSUME NEW q \in Procs
        PROVE  /\ fd[q] = i => fd'[q] = i + 1
               /\ fd[q] = i + 1 => fd'[q] = Unlinked
               /\ fd[q] \notin {i, i + 1} => fd'[q] = fd[q]
      BY <1>1, <2>2
  <2>4. fd' \in [Procs -> Slots \union {Unlinked, Closed}]
    <3>1. \A q \in Procs : fd'[q] \in Slots \union {Unlinked, Closed}
        BY <1>1, <2>3
    <3>2. QED
        BY <2>2, <3>1
  <2>5. /\ dir' \in [Slots -> Text] /\ dir'[i + 1] = dir[i] /\ dir'[i] = Missing
        /\ \A j \in Slots \ {i, i + 1} : dir'[j] = dir[j]
      BY <1>1, <2>1, MissingFacts
  <2>6. QED
      BY <1>3, <2>3, <2>4, <2>5
<1>4. QED
    BY <1>2, <1>3

LEMMA RemoveFacts ==
  ASSUME Types, NEW i \in Slots, Remove(i)
  PROVE  /\ dir' \in [Slots -> Text]
         /\ fd' \in [Procs -> Slots \union {Unlinked, Closed}]
         /\ dir'[i] = Missing /\ \A j \in Slots \ {i} : dir'[j] = dir[j]
         /\ \A q \in Procs : /\ fd[q] = i => fd'[q] = Unlinked
                             /\ fd[q] # i => fd'[q] = fd[q]
BY MissingFacts DEF Types, Remove

LEMMA RenameFollows ==
  ASSUME Shape, NEW i \in 0..keep - 1, Rename(i, i + 1), NEW q \in Procs
  PROVE  Follows(q)
<1>1. Types /\ (fd[q] \in Slots => dir[fd[q]] # Missing)
      /\ i \in Slots /\ i + 1 \in Slots /\ i # i + 1
    BY SlotFacts DEF Shape, Files
<1>2. fd[q] \in Slots \union {Unlinked, Closed}
    BY <1>1 DEF Types
<1>3. QED
    BY <1>1, <1>2, RenameFacts, SlotFacts DEF Follows

LEMMA RemoveFollows ==
  ASSUME Shape, NEW i \in Slots, Remove(i), NEW q \in Procs
  PROVE  Follows(q)
<1>1. Types /\ (fd[q] \in Slots => dir[fd[q]] # Missing)
    BY DEF Shape, Files
<1>2. fd[q] \in Slots \union {Unlinked, Closed}
    BY <1>1 DEF Types
<1>3. QED
    BY <1>1, <1>2, RemoveFacts, SlotFacts DEF Follows

LEMMA OpenedFollows ==
  ASSUME Shape, NEW p \in Procs, NEW truncate \in BOOLEAN, Opened(p, truncate),
         NEW q \in Procs \ {p}
  PROVE  Follows(q)
<1>1. Types /\ (fd[q] \in Slots => dir[fd[q]] # Missing)
    BY DEF Shape, Files
<1>2. fd'[q] = fd[q] /\ dir'[0] # Missing /\ \A i \in Slots \ {0} : dir'[i] = dir[i]
    BY <1>1, OpenedFacts
<1>3. QED
    BY <1>1, <1>2 DEF Follows

(* Where a write goes.                                                     *)
Offset(p) == IF appends[p] THEN Len(dir[fd[p]]) ELSE n[p]

Writes(p) ==
  dir' = [i \in Slots |-> IF i # fd[p] THEN dir[i] ELSE
            Written(dir[i], IF appends[p] THEN Len(dir[i]) ELSE n[p], record[p])]

LEMMA WriteFacts ==
  ASSUME Shape, NEW p \in Procs, pc[p] = "put", Writes(p)
  PROVE  /\ dir' \in [Slots -> Text]
         /\ fd[p] \notin Slots => dir' = dir
         /\ fd[p] \in Slots =>
              /\ dir'[fd[p]] # Missing /\ \A i \in Slots \ {fd[p]} : dir'[i] = dir[i]
              /\ Len(dir'[fd[p]]) = (IF Offset(p) + Len(record[p]) > Len(dir[fd[p]])
                                     THEN Offset(p) + Len(record[p]) ELSE Len(dir[fd[p]]))
<1>1. /\ dir \in [Slots -> Text] /\ record[p] \in Text /\ n[p] \in Nat
      /\ Len(record[p]) > 0 /\ \A i \in 1..Len(record[p]) : record[p][i] # 0
      /\ fd[p] \in Slots => dir[fd[p]] # Missing
    BY DEF Shape, Types, Holding, Files, Writing
<1>2. CASE fd[p] \notin Slots
  <2>1. \A i \in Slots : dir'[i] = dir[i]
      BY <1>2 DEF Writes
  <2>2. dir' = [i \in Slots |-> dir'[i]]
      BY DEF Writes
  <2>3. dir = [i \in Slots |-> dir[i]]
      BY <1>1
  <2>4. dir' = dir
      BY <2>1, <2>2, <2>3
  <2>5. QED
      BY <1>1, <1>2, <2>4
<1>3. CASE fd[p] \in Slots
  <2> DEFINE w == Written(dir[fd[p]], Offset(p), record[p])
  <2>1. Offset(p) \in Nat
      BY <1>1, <1>3, TextFacts DEF Offset
  <2>2. /\ w \in Text /\ w # Missing
        /\ Len(w) = (IF Offset(p) + Len(record[p]) > Len(dir[fd[p]])
                     THEN Offset(p) + Len(record[p]) ELSE Len(dir[fd[p]]))
      BY <1>1, <1>3, <2>1, WrittenFacts
  <2>3. dir'[fd[p]] = w
      BY <1>3 DEF Writes, Offset
  <2>4. \A i \in Slots \ {fd[p]} : dir'[i] = dir[i]
      BY DEF Writes
  <2> HIDE DEF w
  <2>5. \A i \in Slots : dir'[i] \in Text
      BY <1>1, <2>2, <2>3, <2>4
  <2>6. dir' \in [Slots -> Text]
      BY <2>5 DEF Writes
  <2>7. QED
      BY <1>3, <2>2, <2>3, <2>4, <2>6
<1>4. QED
    BY <1>2, <1>3

-----------------------------------------------------------------------------
(* Types and shape *)

Acts(p) == \/ Start(p) \/ OpenFirst(p) \/ Protect(p) \/ Write(p)
           \/ Returning(p) \/ End(p)

LEMMA GotoFacts ==
  ASSUME Types, NEW p \in Procs, NEW from, NEW to \in Points, Goto(p, from, to)
  PROVE  /\ pc' \in [Procs -> Points] /\ pc[p] = from /\ pc'[p] = to
         /\ \A q \in Procs \ {p} : pc'[q] = pc[q]
BY DEF Types, Goto

LEMMA CountFacts == ASSUME Types, Fails \/ Works PROVE failures' \in 0..MaxFail
BY Sizes DEF Types, Fails, Works

LEMMA GiveUpFacts ==
  ASSUME Types, NEW p \in Procs, NEW from, GiveUp(p, from)
  PROVE  /\ pc' \in [Procs -> Points] /\ pc[p] = from /\ pc'[p] = "idle"
         /\ record' \in [Procs -> Text] /\ record'[p] = <<>>
         /\ \A q \in Procs \ {p} : pc'[q] = pc[q] /\ record'[q] = record[q]
         /\ UNCHANGED <<dir, fd, appends, n, created, last, overlap>>
<1>1. "idle" \in Points /\ Goto(p, from, "idle")
    BY DEF GiveUp, Points
<1>2. <<>> \in Text
    BY MissingFacts
<1>3. /\ record' \in [Procs -> Text] /\ record'[p] = <<>>
      /\ \A q \in Procs \ {p} : record'[q] = record[q]
    BY <1>2 DEF GiveUp, Types
<1>4. QED
    BY <1>1, <1>3, GotoFacts DEF GiveUp, sink

(* The steps before the first record.                                      *)
LEMMA FirstTypes ==
  ASSUME Shape, NEW p \in Procs, Start(p) \/ OpenFirst(p) \/ Protect(p) PROVE Types'
<1>0. Types /\ {"new", "open", "protect", "idle", "ended"} \subseteq Points
    BY DEF Shape, Points
<1>1. CASE Start(p)
  <2>1. pc' \in [Procs -> Points]
      BY <1>0, <1>1, GotoFacts DEF Start
  <2>2. created' \in [Procs -> BOOLEAN]
    <3>1. created' = [created EXCEPT ![p] = (dir[0] = Missing)]
        BY <1>1 DEF Start
    <3>2. created \in [Procs -> BOOLEAN] /\ (dir[0] = Missing) \in BOOLEAN
        BY <1>0 DEF Types
    <3>3. QED
        BY <3>1, <3>2, Zenon
  <2>3. overlap' \in BOOLEAN
      BY <1>1 DEF Start
  <2>4. QED
      BY <1>0, <1>1, <2>1, <2>2, <2>3 DEF Start, Types, sink
<1>2. CASE OpenFirst(p)
  <2>1. pc' \in [Procs -> Points]
      BY <1>0, <1>2, GotoFacts DEF OpenFirst
  <2>2. failures' \in 0..MaxFail
      BY <1>0, <1>2, CountFacts DEF OpenFirst
  <2>3. /\ dir' \in [Slots -> Text]
        /\ fd' \in [Procs -> Slots \union {Unlinked, Closed}]
        /\ appends' \in [Procs -> BOOLEAN] /\ n' \in [Procs -> Nat]
    <3>1. CASE Opened(p, FALSE)
        BY <1>0, <3>1, OpenedFacts
    <3>2. CASE UNCHANGED <<dir, sink>>
        BY <1>0, <3>2 DEF Types, sink
    <3>3. QED
        BY <1>2, <3>1, <3>2 DEF OpenFirst
  <2>4. QED
      BY <1>0, <1>2, <2>1, <2>2, <2>3 DEF OpenFirst, Types
<1>3. CASE Protect(p)
  <2>1. pc' \in [Procs -> Points]
      BY <1>0, <1>3, GotoFacts DEF Protect
  <2>2. failures' \in 0..MaxFail
      BY <1>0, <1>3, CountFacts DEF Protect
  <2>3. dir' \in [Slots -> Text]
    <3>1. dir' = dir \/ dir' = [dir EXCEPT ![0] = Missing]
        BY <1>3 DEF Protect
    <3>2. QED
        BY <1>0, <3>1, MissingFacts DEF Types
  <2>4. fd' \in [Procs -> Slots \union {Unlinked, Closed}]
      BY <1>0, <1>3 DEF Protect, Types
  <2>5. QED
      BY <1>0, <1>3, <2>1, <2>2, <2>3, <2>4 DEF Protect, Types
<1>4. QED
    BY <1>1, <1>2, <1>3

(* What a step of rotate does: it removes, renames, or fails.              *)
LEMMA RotateFacts ==
  ASSUME Types, NEW p \in Procs, rotate(p)
  PROVE  /\ pc' \in [Procs -> Points] /\ failures' \in 0..MaxFail
         /\ slot' \in [Procs -> 0..keep - 1]
         /\ pc[p] \in {"remove", "shift"} /\ pc'[p] \in {"shift", "truncate", "append"}
         /\ \A q \in Procs \ {p} : pc'[q] = pc[q]
         /\ UNCHANGED <<appends, n, record, created, last, overlap>>
         /\ \/ UNCHANGED <<dir, fd>> /\ pc'[p] # "append"
            \/ Remove(keep) /\ pc'[p] # "append"
            \/ \E i \in 0..keep - 1 :
                 Rename(i, i + 1) /\ (pc'[p] = "append" => i = 0 /\ dir[0] # Missing)
<1> USE DEF Step
<1>0. {"shift", "truncate", "append"} \subseteq Points
    BY DEF Points
<1>1. 0 \in 0..keep - 1 /\ keep - 1 \in 0..keep - 1 /\ 0 + 1 = 1 /\ slot[p] \in 0..keep - 1
    BY Sizes DEF Types
<1>2. CASE RemoveOldest(p)
  <2>1. \/ Goto(p, "remove", "shift") /\ Remove(keep)
        \/ Goto(p, "remove", "truncate") /\ UNCHANGED <<dir, fd>>
      BY <1>2 DEF RemoveOldest
  <2>2. failures' \in 0..MaxFail
      BY <1>2, CountFacts DEF RemoveOldest
  <2>3. slot' \in [Procs -> 0..keep - 1]
      BY <1>1, <1>2 DEF RemoveOldest, Types
  <2>4. QED
      BY <1>0, <1>2, <2>1, <2>2, <2>3, GotoFacts DEF RemoveOldest
<1>3. CASE Shift(p)
  <2>1. \/ Goto(p, "shift", "shift") /\ Rename(slot[p], slot[p] + 1)
        \/ Goto(p, "shift", "truncate") /\ UNCHANGED <<dir, fd>>
      BY <1>3 DEF Shift
  <2>2. failures' \in 0..MaxFail
      BY <1>3, CountFacts DEF Shift
  <2>3. slot' \in [Procs -> 0..keep - 1]
    <3>1. slot[p] - 1 \in 0..keep - 1
        BY <1>1, <1>3, Sizes DEF Shift
    <3>2. QED
        BY <1>3, <3>1 DEF Shift, Types
  <2>4. QED
      BY <1>0, <1>1, <1>3, <2>1, <2>2, <2>3, GotoFacts DEF Shift
<1>4. CASE Archive(p)
  <2>1. \/ Goto(p, "shift", "append") /\ dir[0] # Missing /\ Rename(0, 0 + 1)
        \/ Goto(p, "shift", "truncate") /\ UNCHANGED <<dir, fd>>
      BY <1>1, <1>4 DEF Archive
  <2>2. failures' \in 0..MaxFail
      BY <1>4, CountFacts DEF Archive
  <2>3. slot' \in [Procs -> 0..keep - 1]
      BY <1>4 DEF Archive, Types
  <2>4. QED
      BY <1>0, <1>1, <1>4, <2>1, <2>2, <2>3, GotoFacts DEF Archive
<1>5. QED
    BY <1>2, <1>3, <1>4 DEF rotate

LEMMA RotateTypes == ASSUME Shape, NEW p \in Procs, rotate(p) PROVE Types'
<1>1. Types
    BY DEF Shape
<1>2. /\ dir' \in [Slots -> Text]
      /\ fd' \in [Procs -> Slots \union {Unlinked, Closed}]
  <2>1. CASE UNCHANGED <<dir, fd>>
      BY <1>1, <2>1 DEF Types
  <2>2. CASE Remove(keep)
      BY <1>1, <2>2, SlotFacts, RemoveFacts
  <2>3. CASE \E i \in 0..keep - 1 : Rename(i, i + 1)
      BY <1>1, <2>3, RenameFacts
  <2>4. QED
      BY <1>1, <2>1, <2>2, <2>3, RotateFacts
<1>3. QED
    BY <1>1, <1>2, RotateFacts DEF Types

(* What Write leaves to do.                                                *)
LEMMA WriteStarts ==
  ASSUME Types, NEW p \in Procs, Write(p)
  PROVE  /\ Types' /\ pc[p] = "idle" /\ \A q \in Procs \ {p} : pc'[q] = pc[q]
         /\ UNCHANGED <<dir, appends, n, slot, created, failures, overlap>>
         /\ \A q \in Procs \ {p} : record'[q] = record[q] /\ fd'[q] = fd[q]
         /\ Len(record'[p]) \in 1..maxSize
         /\ \A i \in 1..Len(record'[p]) : record'[p][i] # 0
         /\ \/ pc'[p] = "remove" /\ fd'[p] = Closed
            \/ pc'[p] = "put" /\ fd' = fd /\ n[p] + Len(record'[p]) <= maxSize
<1> USE DEF Types
<1>1. last' \in 1..MaxRecords
    BY Sizes DEF Write
<1>2. PICK len \in Lengths :
        /\ record' = [record EXCEPT ![p] = [i \in 1..len |-> last']]
        /\ IF n[p] + len > maxSize
           THEN Goto(p, "idle", "remove") /\ fd' = [fd EXCEPT ![p] = Closed]
           ELSE Goto(p, "idle", "put") /\ UNCHANGED fd
    BY DEF Write
<1> DEFINE s == [i \in 1..len |-> last']
<1>3. s \in Text /\ Len(s) = len /\ \A i \in 1..Len(s) : s[i] # 0
    BY <1>1, RecordFacts
<1>4. len \in 1..maxSize
    BY Sizes
<1> HIDE DEF s
<1>5. /\ record' \in [Procs -> Text] /\ record'[p] = s
      /\ \A q \in Procs \ {p} : record'[q] = record[q]
    BY <1>2, <1>3 DEF s
<1>6. {"remove", "put"} \subseteq Points
    BY DEF Points
<1>7. UNCHANGED <<dir, appends, n, slot, created, failures, overlap>>
    BY DEF Write
<1>8. /\ \/ n[p] + len > maxSize /\ Goto(p, "idle", "remove")
            /\ fd' = [fd EXCEPT ![p] = Closed]
         \/ ~(n[p] + len > maxSize) /\ Goto(p, "idle", "put") /\ fd' = fd
    BY <1>2
<1>9. /\ pc' \in [Procs -> Points] /\ pc[p] = "idle"
      /\ \A q \in Procs \ {p} : pc'[q] = pc[q]
      /\ \/ pc'[p] = "remove" /\ fd' = [fd EXCEPT ![p] = Closed]
         \/ pc'[p] = "put" /\ fd' = fd /\ ~(n[p] + len > maxSize)
    BY <1>6, <1>8, GotoFacts
<1>10. last' \in 0..MaxRecords
    BY <1>1
<1>11. Types'
    BY <1>5, <1>7, <1>9, <1>10
<1>12. ~(n[p] + len > maxSize) => n[p] + len <= maxSize
    BY <1>4, Sizes
<1>13. QED
    BY <1>3, <1>4, <1>5, <1>7, <1>9, <1>11, <1>12

(* Either open of a rotation, or the record is given up.                   *)
LEMMA ReopenFacts ==
  ASSUME Types, NEW p \in Procs, Truncate(p) \/ OpenFresh(p)
  PROVE  /\ Types' /\ pc[p] \in {"truncate", "append"}
         /\ \A q \in Procs \ {p} : pc'[q] = pc[q] /\ record'[q] = record[q]
         /\ UNCHANGED <<slot, created, last, overlap>>
         /\ \/ /\ pc'[p] = "put" /\ UNCHANGED record
               /\ \E truncate \in BOOLEAN :
                    Opened(p, truncate) /\ (truncate <=> pc[p] = "truncate")
            \/ /\ pc'[p] = "idle" /\ UNCHANGED <<dir, fd, appends, n>> /\ record'[p] = <<>>
<1>1. ASSUME NEW from \in {"truncate", "append"}, NEW truncate \in BOOLEAN,
             Reopen(p, from, truncate), truncate <=> from = "truncate"
      PROVE  /\ Types' /\ pc[p] = from
             /\ \A q \in Procs \ {p} : pc'[q] = pc[q] /\ record'[q] = record[q]
             /\ UNCHANGED <<slot, created, last, overlap>>
             /\ \/ /\ pc'[p] = "put" /\ UNCHANGED record
                   /\ Opened(p, truncate)
                \/ /\ pc'[p] = "idle" /\ UNCHANGED <<dir, fd, appends, n>>
                   /\ record'[p] = <<>>
  <2>0. UNCHANGED slot /\ "put" \in Points
      BY <1>1 DEF Reopen, Points
  <2>1. CASE /\ Goto(p, from, "put") /\ Opened(p, truncate) /\ Works
             /\ UNCHANGED <<record, created, last, overlap>>
    <3>1. /\ pc' \in [Procs -> Points] /\ pc[p] = from /\ pc'[p] = "put"
          /\ \A q \in Procs \ {p} : pc'[q] = pc[q]
        BY <2>0, <2>1, GotoFacts
    <3>2. failures' \in 0..MaxFail
        BY <2>1, CountFacts
    <3>3. /\ dir' \in [Slots -> Text]
          /\ fd' \in [Procs -> Slots \union {Unlinked, Closed}]
          /\ appends' \in [Procs -> BOOLEAN] /\ n' \in [Procs -> Nat]
        BY <2>1, OpenedFacts
    <3>4. Types'
        BY <2>0, <2>1, <3>1, <3>2, <3>3 DEF Types
    <3>5. QED
        BY <2>0, <2>1, <3>1, <3>4
  <2>2. CASE GiveUp(p, from) /\ Fails
    <3>1. /\ pc' \in [Procs -> Points] /\ pc[p] = from /\ pc'[p] = "idle"
          /\ record' \in [Procs -> Text] /\ record'[p] = <<>>
          /\ \A q \in Procs \ {p} : pc'[q] = pc[q] /\ record'[q] = record[q]
          /\ UNCHANGED <<dir, fd, appends, n, created, last, overlap>>
        BY <2>2, GiveUpFacts
    <3>2. failures' \in 0..MaxFail
        BY <2>2, CountFacts
    <3>3. Types'
        BY <2>0, <3>1, <3>2 DEF Types
    <3>4. QED
        BY <2>0, <3>1, <3>3
  <2>3. QED
      BY <1>1, <2>1, <2>2 DEF Reopen
<1>2. CASE Truncate(p)
  <2>1. Reopen(p, "truncate", TRUE)
      BY <1>2 DEF Truncate
  <2>2. QED
      BY <2>1, <1>1
<1>3. CASE OpenFresh(p)
  <2>1. Reopen(p, "append", FALSE)
      BY <1>3 DEF OpenFresh
  <2>2. QED
      BY <2>1, <1>1
<1>4. QED
    BY <1>2, <1>3

(* A record is written, or given up.                                       *)
LEMMA PutFacts ==
  ASSUME Shape, NEW p \in Procs, Put(p)
  PROVE  /\ Types' /\ pc[p] = "put" /\ pc'[p] = "idle" /\ record'[p] = <<>>
         /\ \A q \in Procs \ {p} : pc'[q] = pc[q] /\ record'[q] = record[q]
         /\ UNCHANGED <<fd, appends, slot, created, last, overlap>>
         /\ \/ /\ Writes(p) /\ fd[p] # Closed
               /\ n' = [n EXCEPT ![p] = n[p] + Len(record[p])]
            \/ UNCHANGED <<dir, n>>
<1>0. UNCHANGED slot /\ Types /\ "idle" \in Points
    BY DEF Put, Shape, Points
<1>1. CASE GiveUp(p, "put") /\ (Works \/ Fails)
  <2>1. /\ pc' \in [Procs -> Points] /\ pc[p] = "put" /\ pc'[p] = "idle"
        /\ record' \in [Procs -> Text] /\ record'[p] = <<>>
        /\ \A q \in Procs \ {p} : pc'[q] = pc[q] /\ record'[q] = record[q]
        /\ UNCHANGED <<dir, fd, appends, n, created, last, overlap>>
      BY <1>0, <1>1, GiveUpFacts
  <2>2. failures' \in 0..MaxFail
      BY <1>0, <1>1, CountFacts
  <2>3. Types'
      BY <1>0, <2>1, <2>2 DEF Types
  <2>4. QED
      BY <1>0, <2>1, <2>3
<1>2. CASE /\ fd[p] # Closed /\ Writes(p) /\ Works
           /\ n' = [n EXCEPT ![p] = n[p] + Len(record[p])]
           /\ Goto(p, "put", "idle")
           /\ record' = [record EXCEPT ![p] = <<>>]
           /\ UNCHANGED <<fd, appends, created, last, overlap>>
  <2>1. /\ pc' \in [Procs -> Points] /\ pc[p] = "put" /\ pc'[p] = "idle"
        /\ \A q \in Procs \ {p} : pc'[q] = pc[q]
      BY <1>0, <1>2, GotoFacts
  <2>2. dir' \in [Slots -> Text]
      BY <1>2, <2>1, WriteFacts
  <2>3. n' \in [Procs -> Nat]
    <3>1. record[p] \in Text /\ n[p] \in Nat
        BY <1>0 DEF Types
    <3>2. Len(record[p]) \in Nat
        BY <3>1, TextFacts
    <3>3. n[p] + Len(record[p]) \in Nat
        BY <3>1, <3>2
    <3>4. QED
        BY <1>0, <1>2, <3>3 DEF Types
  <2>4. /\ record' \in [Procs -> Text] /\ record'[p] = <<>>
        /\ \A q \in Procs \ {p} : record'[q] = record[q]
      BY <1>0, <1>2, MissingFacts DEF Types
  <2>5. failures' \in 0..MaxFail
      BY <1>0, <1>2, CountFacts
  <2>6. Types'
      BY <1>0, <1>2, <2>1, <2>2, <2>3, <2>4, <2>5 DEF Types
  <2>7. QED
      BY <1>0, <1>2, <2>1, <2>4, <2>6
<1>3. QED
    BY <1>1, <1>2 DEF Put, Writes

(* The death or the end of a process.                                      *)
LEMMA EndFacts ==
  ASSUME Types, NEW p \in Procs, End(p)
  PROVE  /\ Types' /\ pc'[p] = "ended" /\ fd'[p] = Closed /\ record'[p] = <<>>
         /\ \A q \in Procs \ {p} :
              /\ pc'[q] = pc[q] /\ fd'[q] = fd[q] /\ appends'[q] = appends[q]
              /\ n'[q] = n[q] /\ record'[q] = record[q]
         /\ UNCHANGED <<dir, last, failures, overlap>>
<1>1. "ended" \in Points /\ 0 \in 0..keep - 1 /\ <<>> \in Text
    BY Sizes, MissingFacts DEF Points
<1>2. appends' \in [Procs -> BOOLEAN] /\ created' \in [Procs -> BOOLEAN]
    BY DEF Types, End
<1>3. /\ pc' \in [Procs -> Points] /\ pc'[p] = "ended"
      /\ fd' \in [Procs -> Slots \union {Unlinked, Closed}] /\ fd'[p] = Closed
      /\ n' \in [Procs -> Nat] /\ slot' \in [Procs -> 0..keep - 1]
      /\ record' \in [Procs -> Text] /\ record'[p] = <<>>
    BY <1>1 DEF Types, End
<1>4. \A q \in Procs \ {p} :
        /\ pc'[q] = pc[q] /\ fd'[q] = fd[q] /\ appends'[q] = appends[q]
        /\ n'[q] = n[q] /\ record'[q] = record[q]
    BY DEF Types, End
<1>5. Types'
    BY <1>2, <1>3 DEF Types, End
<1>6. QED
    BY <1>3, <1>4, <1>5 DEF End

(* What a step leaves alone of the other processes.                        *)
Frame(p) == \A q \in Procs \ {p} :
              /\ pc'[q] = pc[q] /\ record'[q] = record[q]
              /\ appends'[q] = appends[q] /\ n'[q] = n[q]

LEMMA ShapeOf ==
  ASSUME Shape, Types', NEW p \in Procs, Frame(p), \A q \in Procs \ {p} : Follows(q),
         Holding(p)', Files(p)'
  PROVE  Shape'
<1>1. ASSUME NEW q \in Procs \ {p} PROVE Holding(q)' /\ Files(q)'
  <2>1. Holding(q) /\ Files(q)
      BY DEF Shape
  <2>2. Holding(q)'
      BY <2>1 DEF Frame, Holding
  <2>3. Files(q)'
      BY <2>1 DEF Frame, Follows, Files
  <2>4. QED
      BY <2>2, <2>3
<1>2. QED
    BY <1>1 DEF Shape

(* The steps before the first record: what they do to the files.           *)
LEMMA FirstFacts ==
  ASSUME Shape, NEW p \in Procs, Start(p) \/ OpenFirst(p) \/ Protect(p)
  PROVE  /\ \A q \in Procs \ {p} : pc'[q] = pc[q]
         /\ UNCHANGED <<slot, record, last>>
         /\ \/ /\ Start(p) /\ pc[p] = "new" /\ pc'[p] = "open"
               /\ UNCHANGED <<dir, fd, appends, n>>
            \/ /\ UNCHANGED overlap /\ pc[p] = "open" /\ pc'[p] = "protect"
               /\ Opened(p, FALSE)
            \/ /\ UNCHANGED overlap /\ pc[p] = "open" /\ pc'[p] = "ended"
               /\ UNCHANGED <<dir, fd, appends, n>>
            \/ /\ UNCHANGED <<overlap, appends, n>> /\ pc[p] = "protect" /\ pc'[p] = "idle"
               /\ UNCHANGED <<dir, fd>>
            \/ /\ UNCHANGED <<overlap, appends, n>> /\ pc[p] = "protect" /\ pc'[p] = "ended"
               /\ UNCHANGED dir /\ fd' = [fd EXCEPT ![p] = Closed]
            \/ /\ UNCHANGED <<overlap, appends, n>> /\ pc[p] = "protect" /\ pc'[p] = "ended"
               /\ dir' = [dir EXCEPT ![0] = Missing] /\ fd'[p] = Closed
               /\ \A q \in Procs \ {p} : fd'[q] = IF fd[q] = 0 THEN Unlinked ELSE fd[q]
<1>0. Types /\ {"open", "protect", "idle", "ended"} \subseteq Points
    BY DEF Shape, Points
<1>1. CASE Start(p)
    BY <1>0, <1>1, GotoFacts DEF Start, sink
<1>2. CASE OpenFirst(p)
  <2>1. \/ Goto(p, "open", "protect") /\ Opened(p, FALSE)
        \/ Goto(p, "open", "ended") /\ UNCHANGED <<dir, sink>>
      BY <1>2 DEF OpenFirst
  <2>2. QED
      BY <1>0, <1>2, <2>1, GotoFacts DEF OpenFirst, sink
<1>3. CASE Protect(p)
  <2>1. UNCHANGED <<appends, n, slot, record, created, last, overlap>>
      BY <1>3 DEF Protect
  <2>2. CASE Goto(p, "protect", "idle") /\ UNCHANGED <<dir, fd>> /\ Works
      BY <1>0, <2>1, <2>2, GotoFacts
  <2>3. CASE /\ Goto(p, "protect", "ended") /\ Fails
             /\ LET fdAfter == [fd EXCEPT ![p] = Closed] IN
                  IF created[p]
                  THEN /\ dir' = [dir EXCEPT ![0] = Missing]
                       /\ fd' = [q \in Procs |-> IF fdAfter[q] = 0 THEN Unlinked
                                                 ELSE fdAfter[q]]
                  ELSE fd' = fdAfter /\ UNCHANGED dir
    <3>1. pc[p] = "protect" /\ pc'[p] = "ended" /\ \A q \in Procs \ {p} : pc'[q] = pc[q]
        BY <1>0, <2>3, GotoFacts
    <3>2. CASE created[p]
      <4>1. /\ dir' = [dir EXCEPT ![0] = Missing]
            /\ fd' = [q \in Procs |-> IF [fd EXCEPT ![p] = Closed][q] = 0 THEN Unlinked
                                      ELSE [fd EXCEPT ![p] = Closed][q]]
          BY <2>3, <3>2
      <4>2. fd'[p] = Closed
          BY <1>0, <4>1, Sizes DEF Types, Closed
      <4>3. \A q \in Procs \ {p} : fd'[q] = IF fd[q] = 0 THEN Unlinked ELSE fd[q]
          BY <1>0, <4>1 DEF Types
      <4>4. QED
          BY <2>1, <3>1, <4>1, <4>2, <4>3
    <3>3. CASE ~created[p]
        BY <2>1, <2>3, <3>1, <3>3
    <3>4. QED
        BY <3>2, <3>3
  <2>4. QED
      BY <1>3, <2>2, <2>3 DEF Protect
<1>4. QED
    BY <1>1, <1>2, <1>3

LEMMA FrameHolds == ASSUME Shape, NEW p \in Procs, Acts(p) PROVE Frame(p)
<1>0. Types
    BY DEF Shape
<1>1. CASE Start(p) \/ OpenFirst(p) \/ Protect(p)
  <2>1. CASE Opened(p, FALSE)
      BY <1>0, <1>1, <2>1, FirstFacts, OpenedFacts DEF Frame
  <2>2. CASE UNCHANGED <<appends, n>>
      BY <1>1, <2>2, FirstFacts DEF Frame
  <2>3. QED
      BY <1>1, <2>1, <2>2, FirstFacts
<1>2. CASE Write(p)
    BY <1>0, <1>2, WriteStarts DEF Frame
<1>3. CASE rotate(p)
    BY <1>0, <1>3, RotateFacts DEF Frame
<1>4. CASE Truncate(p) \/ OpenFresh(p)
  <2>1. CASE \E truncate \in BOOLEAN : Opened(p, truncate)
      BY <1>0, <1>4, <2>1, ReopenFacts, OpenedFacts DEF Frame
  <2>2. CASE UNCHANGED <<appends, n>>
      BY <1>0, <1>4, <2>2, ReopenFacts DEF Frame
  <2>3. QED
      BY <1>0, <1>4, <2>1, <2>2, ReopenFacts
<1>5. CASE Put(p)
    BY <1>0, <1>5, PutFacts DEF Frame, Types
<1>6. CASE End(p)
    BY <1>0, <1>6, EndFacts DEF Frame
<1>7. QED
    BY <1>1, <1>2, <1>3, <1>4, <1>5, <1>6 DEF Acts, Returning

(* Files that other processes have open stay files.                        *)
LEMMA OthersFollow ==
  ASSUME Shape, NEW p \in Procs, Acts(p), NEW q \in Procs \ {p}
  PROVE  Follows(q)
<1>0. Types /\ Files(q)
    BY DEF Shape
<1>a. ASSUME UNCHANGED dir, fd'[q] = fd[q] PROVE Follows(q)
    BY <1>0, <1>a DEF Files, Follows
<1>1. CASE Start(p) \/ OpenFirst(p) \/ Protect(p)
  <2>1. CASE UNCHANGED dir /\ (UNCHANGED fd \/ fd' = [fd EXCEPT ![p] = Closed])
      BY <1>0, <1>a, <2>1 DEF Types
  <2>2. CASE Opened(p, FALSE)
      BY <2>2, OpenedFollows
  <2>3. CASE /\ dir' = [dir EXCEPT ![0] = Missing] /\ fd'[p] = Closed
             /\ \A r \in Procs \ {p} : fd'[r] = IF fd[r] = 0 THEN Unlinked ELSE fd[r]
    <3>1. fd'[q] = IF fd[q] = 0 THEN Unlinked ELSE fd[q]
        BY <2>3
    <3>2. \A i \in Slots \ {0} : dir'[i] = dir[i]
        BY <1>0, <2>3 DEF Types
    <3>3. QED
        BY <1>0, <3>1, <3>2, SlotFacts DEF Files, Follows
  <2>4. \/ UNCHANGED dir /\ (UNCHANGED fd \/ fd' = [fd EXCEPT ![p] = Closed])
        \/ Opened(p, FALSE)
        \/ /\ dir' = [dir EXCEPT ![0] = Missing] /\ fd'[p] = Closed
           /\ \A r \in Procs \ {p} : fd'[r] = IF fd[r] = 0 THEN Unlinked ELSE fd[r]
      BY <1>1, FirstFacts
  <2>5. QED
      BY <2>1, <2>2, <2>3, <2>4
<1>2. CASE Write(p)
    BY <1>0, <1>2, <1>a, WriteStarts
<1>3. CASE rotate(p)
  <2>1. CASE UNCHANGED <<dir, fd>>
      BY <1>a, <2>1
  <2>2. CASE Remove(keep)
      BY <2>2, RemoveFollows, SlotFacts
  <2>3. CASE \E i \in 0..keep - 1 : Rename(i, i + 1)
      BY <2>3, RenameFollows
  <2>4. QED
      BY <1>0, <1>3, <2>1, <2>2, <2>3, RotateFacts
<1>4. CASE Truncate(p) \/ OpenFresh(p)
  <2>1. CASE \E t \in BOOLEAN : Opened(p, t)
      BY <2>1, OpenedFollows
  <2>2. CASE UNCHANGED <<dir, fd>>
      BY <1>a, <2>2
  <2>3. QED
      BY <1>0, <1>4, <2>1, <2>2, ReopenFacts
<1>5. CASE Put(p)
  <2>1. pc[p] = "put" /\ UNCHANGED fd /\ (Writes(p) \/ UNCHANGED dir)
      BY <1>5, PutFacts
  <2>2. \A i \in Slots : dir[i] # Missing => dir'[i] # Missing
      BY <2>1, WriteFacts
  <2>3. QED
      BY <1>0, <2>1, <2>2 DEF Files, Follows
<1>6. CASE End(p)
    BY <1>0, <1>6, <1>a, EndFacts
<1>7. QED
    BY <1>1, <1>2, <1>3, <1>4, <1>5, <1>6 DEF Acts, Returning

(* A rotation works with the file closed.                                  *)
LEMMA RotateShut ==
  ASSUME Shape, NEW p \in Procs, rotate(p) PROVE fd[p] = Closed /\ fd'[p] = Closed
<1>1. Types /\ pc[p] \in Shut /\ Files(p)
    BY RotateFacts DEF Shape, Shut
<1>2. fd[p] = Closed
    BY <1>1 DEF Files
<1>3. Closed # keep /\ \A i \in 0..keep - 1 : Closed \notin {i, i + 1}
    BY SlotFacts
<1>4. QED
    BY <1>1, <1>2, <1>3, RotateFacts, RemoveFacts, RenameFacts, SlotFacts

LEMMA ShapeStep == ASSUME Shape, NEW p \in Procs, Acts(p) PROVE Shape'
<1>0. Types /\ Holding(p) /\ Files(p)
    BY DEF Shape
<1>a. record[p] \in Text /\ Len(record[p]) \in Nat /\ Len(<<>>) = 0
    BY <1>0, TextFacts, MissingFacts DEF Types
<1>b. ASSUME record'[p] = <<>>, pc'[p] \notin Writing PROVE Holding(p)'
    BY <1>a, <1>b, Sizes DEF Holding
<1>c. SUFFICES Types' /\ Holding(p)' /\ Files(p)'
    BY FrameHolds, OthersFollow, ShapeOf
<1>1. CASE Start(p) \/ OpenFirst(p) \/ Protect(p)
  <2>1. Types'
      BY <1>1, FirstTypes
  <2>2. UNCHANGED record /\ pc'[p] \notin Writing
      BY <1>1, FirstFacts DEF Writing
  <2>3. Holding(p)'
      BY <1>0, <2>2 DEF Holding
  <2>4. Files(p)'
    <3>1. CASE UNCHANGED <<dir, fd>> /\ (pc[p] \in Shut \/ pc'[p] = "idle")
        BY <1>0, <3>1 DEF Files, Shut
    <3>2. CASE Opened(p, FALSE) /\ pc'[p] = "protect"
        BY <1>0, <3>2, OpenedFacts DEF Files, Shut
    <3>3. CASE fd'[p] = Closed
        BY <3>3, SlotFacts DEF Files
    <3>4. fd' = [fd EXCEPT ![p] = Closed] => fd'[p] = Closed
        BY <1>0 DEF Types
    <3>5. \/ UNCHANGED <<dir, fd>> /\ (pc[p] \in Shut \/ pc'[p] = "idle")
          \/ Opened(p, FALSE) /\ pc'[p] = "protect"
          \/ fd' = [fd EXCEPT ![p] = Closed]
          \/ fd'[p] = Closed
        BY <1>1, FirstFacts DEF Shut
    <3>6. QED
        BY <3>1, <3>2, <3>3, <3>4, <3>5
  <2>5. QED
      BY <2>1, <2>3, <2>4
<1>2. CASE Write(p)
  <2>1. Types'
      BY <1>0, <1>2, WriteStarts
  <2>2. Holding(p)'
      BY <1>0, <1>2, WriteStarts, Sizes DEF Holding
  <2>3. Files(p)'
      BY <1>0, <1>2, WriteStarts, SlotFacts DEF Files, Shut
  <2>4. QED
      BY <2>1, <2>2, <2>3
<1>3. CASE rotate(p)
  <2>1. Types' /\ UNCHANGED record /\ pc[p] \in Shut /\ pc[p] \in Writing
      BY <1>0, <1>3, RotateTypes, RotateFacts DEF Shut, Writing
  <2>2. Holding(p)'
      BY <1>0, <2>1 DEF Holding
  <2>3. Files(p)'
      BY <1>3, RotateShut, SlotFacts DEF Files
  <2>4. QED
      BY <2>1, <2>2, <2>3
<1>4. CASE Truncate(p) \/ OpenFresh(p)
  <2>1. Types' /\ pc[p] \in Writing
      BY <1>0, <1>4, ReopenFacts DEF Writing
  <2>2. CASE pc'[p] = "put" /\ UNCHANGED record /\ \E t \in BOOLEAN : Opened(p, t)
    <3>1. Holding(p)'
        BY <1>0, <2>1, <2>2 DEF Holding
    <3>2. fd'[p] = 0 /\ dir'[0] # Missing
        BY <1>0, <2>2, OpenedFacts
    <3>3. Files(p)'
        BY <2>2, <3>2 DEF Files, Shut
    <3>4. QED
        BY <2>1, <3>1, <3>3
  <2>3. CASE pc'[p] = "idle" /\ UNCHANGED <<dir, fd>> /\ record'[p] = <<>>
    <3>1. Holding(p)'
        BY <1>b, <2>3 DEF Writing
    <3>2. Files(p)'
        BY <1>0, <2>3 DEF Files, Shut
    <3>3. QED
        BY <2>1, <3>1, <3>2
  <2>4. QED
      BY <1>0, <1>4, <2>2, <2>3, ReopenFacts
<1>5. CASE Put(p)
  <2>1. /\ Types' /\ pc[p] = "put" /\ pc'[p] = "idle" /\ record'[p] = <<>>
        /\ UNCHANGED fd /\ (Writes(p) \/ UNCHANGED dir)
      BY <1>5, PutFacts
  <2>2. \A i \in Slots : dir[i] # Missing => dir'[i] # Missing
      BY <2>1, WriteFacts
  <2>3. Holding(p)'
      BY <1>b, <2>1 DEF Writing
  <2>4. Files(p)'
      BY <1>0, <2>1, <2>2 DEF Files, Shut
  <2>5. QED
      BY <2>1, <2>3, <2>4
<1>6. CASE End(p)
  <2>1. Types' /\ pc'[p] = "ended" /\ fd'[p] = Closed /\ record'[p] = <<>>
      BY <1>0, <1>6, EndFacts
  <2>2. Holding(p)'
      BY <1>b, <2>1 DEF Writing
  <2>3. Files(p)'
      BY <2>1, SlotFacts DEF Files
  <2>4. QED
      BY <2>1, <2>2, <2>3
<1>7. QED
    BY <1>1, <1>2, <1>3, <1>4, <1>5, <1>6 DEF Acts, Returning

-----------------------------------------------------------------------------
(* Without overlapping invocations *)

Single  == \A p, q \in Procs : Alive(p) /\ Alive(q) => p = q
Fitting == \A i \in Slots : dir[i] # Missing => Len(dir[i]) <= maxSize

(* The sink counts what is in the live file, and a record that is about to *)
(* be written fits.                                                        *)
Solo(p) ==
  /\ fd[p] \in {0, Closed}
  /\ fd[p] = 0 => n[p] = Len(dir[0])
  /\ pc[p] = "append" => dir[0] = Missing
  /\ pc[p] = "put" /\ fd[p] = 0 => n[p] + Len(record[p]) <= maxSize

Alone == ~overlap => Single /\ Fitting /\ \A p \in Procs : Solo(p)

(* The process that acts is the only one alive, after its start too.       *)
LEMMA OnlyOne ==
  ASSUME Shape, Alone, NEW p \in Procs, Acts(p), ~overlap'
  PROVE  /\ ~overlap
         /\ \A q \in Procs \ {p} : ~Alive(q) /\ ~Alive(q)' /\ fd'[q] = Closed
<1>0. Types
    BY DEF Shape
<1>1. \/ Start(p) \/ (UNCHANGED overlap /\ Alive(p))
  <2>1. CASE Start(p) \/ OpenFirst(p) \/ Protect(p)
      BY <2>1, FirstFacts DEF Alive
  <2>2. CASE Write(p)
      BY <1>0, <2>2, WriteStarts DEF Alive
  <2>3. CASE rotate(p)
      BY <1>0, <2>3, RotateFacts DEF Alive
  <2>4. CASE Truncate(p) \/ OpenFresh(p)
      BY <1>0, <2>4, ReopenFacts DEF Alive
  <2>5. CASE Put(p)
      BY <2>5, PutFacts DEF Alive
  <2>6. CASE End(p)
      BY <2>6 DEF End
  <2>7. QED
      BY <2>1, <2>2, <2>3, <2>4, <2>5, <2>6 DEF Acts, Returning
<1>2. ~overlap
    BY <1>1 DEF Start
<1>3. ASSUME NEW q \in Procs \ {p} PROVE ~Alive(q)
  <2>1. CASE Start(p)
      BY <2>1 DEF Start
  <2>2. CASE Alive(p)
      BY <1>2, <2>2 DEF Alone, Single
  <2>3. QED
      BY <1>1, <2>1, <2>2
<1>4. ASSUME NEW q \in Procs \ {p} PROVE ~Alive(q)' /\ fd'[q] = Closed
  <2>1. pc[q] \in {"new", "ended"} /\ pc'[q] = pc[q]
      BY <1>3, FrameHolds DEF Alive, Frame
  <2>2. fd[q] = Closed
      BY <2>1 DEF Shape, Files, Shut
  <2>3. fd'[q] = Closed
      BY <2>2, OthersFollow DEF Follows
  <2>4. QED
      BY <2>1, <2>3 DEF Alive
<1>5. QED
    BY <1>2, <1>3, <1>4

LEMMA AloneStep == ASSUME Shape, Alone, NEW p \in Procs, Acts(p) PROVE Alone'
<1> SUFFICES ASSUME ~overlap' PROVE Single' /\ Fitting' /\ \A q \in Procs : Solo(q)'
    BY DEF Alone
<1>0. /\ Types /\ Fitting /\ Solo(p) /\ Holding(p) /\ Files(p) /\ ~overlap
      /\ \A q \in Procs \ {p} : ~Alive(q) /\ ~Alive(q)' /\ fd'[q] = Closed
    BY OnlyOne DEF Alone, Shape
<1>1. Single'
    BY <1>0 DEF Single
<1>2. ASSUME NEW q \in Procs \ {p} PROVE Solo(q)'
    BY <1>0, SlotFacts DEF Solo, Alive
<1>3. SUFFICES Fitting' /\ Solo(p)'
    BY <1>1, <1>2
<1>a. 0 <= maxSize /\ Closed # 0
    BY Sizes, SlotFacts
<1>b. ASSUME UNCHANGED dir PROVE Fitting'
    BY <1>0, <1>b DEF Fitting
<1>c. ASSUME fd'[p] = Closed, pc'[p] = "append" => dir'[0] = Missing PROVE Solo(p)'
    BY <1>a, <1>c DEF Solo
<1>d. ASSUME NEW t \in BOOLEAN, Opened(p, t) PROVE Fitting'
  <2>1. /\ dir'[0] = <<>> \/ (dir[0] # Missing /\ dir'[0] = dir[0])
        /\ \A i \in Slots \ {0} : dir'[i] = dir[i]
      BY <1>0, <1>d, OpenedFacts
  <2>2. dir'[0] # Missing => Len(dir'[0]) <= maxSize
      BY <1>0, <1>a, <2>1, MissingFacts, SlotFacts DEF Fitting
  <2>3. QED
      BY <1>0, <2>1, <2>2 DEF Fitting
<1>4. CASE Start(p) \/ OpenFirst(p) \/ Protect(p)
  <2>0. pc'[p] \notin {"append", "put"}
      BY <1>4, FirstFacts
  <2>1. CASE Opened(p, FALSE)
      BY <1>0, <1>a, <1>d, <2>0, <2>1, OpenedFacts DEF Solo
  <2>2. CASE UNCHANGED <<dir, fd, n>>
      BY <1>0, <1>b, <2>0, <2>2 DEF Solo
  <2>3. CASE UNCHANGED dir /\ fd'[p] = Closed
      BY <1>b, <1>c, <2>0, <2>3
  <2>4. CASE dir' = [dir EXCEPT ![0] = Missing] /\ fd'[p] = Closed
    <3>1. Fitting'
        BY <1>0, <2>4 DEF Fitting, Types
    <3>2. QED
        BY <1>c, <2>0, <2>4, <3>1
  <2>5. fd' = [fd EXCEPT ![p] = Closed] => fd'[p] = Closed
      BY <1>0 DEF Types
  <2>6. \/ Opened(p, FALSE) \/ UNCHANGED <<dir, fd, n>>
        \/ UNCHANGED dir /\ fd' = [fd EXCEPT ![p] = Closed]
        \/ dir' = [dir EXCEPT ![0] = Missing] /\ fd'[p] = Closed
      BY <1>4, FirstFacts
  <2>7. QED
      BY <2>1, <2>2, <2>3, <2>4, <2>5, <2>6
<1>5. CASE Write(p)
  <2>1. Fitting'
      BY <1>0, <1>5, <1>b, WriteStarts
  <2>2. CASE pc'[p] = "remove" /\ fd'[p] = Closed
      BY <1>c, <2>1, <2>2
  <2>3. CASE pc'[p] = "put" /\ fd' = fd /\ n[p] + Len(record'[p]) <= maxSize
    <3>1. UNCHANGED <<dir, n>>
        BY <1>0, <1>5, WriteStarts
    <3>2. QED
        BY <1>0, <2>1, <2>3, <3>1 DEF Solo
  <2>4. QED
      BY <1>0, <1>5, <2>2, <2>3, WriteStarts
<1>6. CASE rotate(p)
  <2>1. Fitting'
    <3>1. CASE UNCHANGED <<dir, fd>>
        BY <1>b, <3>1
    <3>2. CASE Remove(keep)
        BY <1>0, <3>2, SlotFacts, RemoveFacts DEF Fitting
    <3>3. ASSUME NEW i \in 0..keep - 1, Rename(i, i + 1) PROVE Fitting'
      <4>1. i \in Slots /\ i + 1 \in Slots
          BY SlotFacts
      <4>2. QED
          BY <1>0, <3>3, <4>1, RenameFacts DEF Fitting
    <3>4. QED
        BY <1>0, <1>6, <3>1, <3>2, <3>3, RotateFacts
  <2>2. pc'[p] = "append" => dir'[0] = Missing
    <3>1. ASSUME pc'[p] = "append" PROVE Rename(0, 0 + 1) /\ dir[0] # Missing
        BY <1>0, <1>6, <3>1, RotateFacts
    <3>2. 0 \in 0..keep - 1
        BY Sizes
    <3>3. QED
        BY <1>0, <3>1, <3>2, RenameFacts
  <2>3. Solo(p)'
      BY <1>6, <1>c, <2>2, RotateShut
  <2>4. QED
      BY <2>1, <2>3
<1>7. CASE Truncate(p) \/ OpenFresh(p)
  <2>1. CASE pc'[p] = "idle" /\ UNCHANGED <<dir, fd, n>>
      BY <1>0, <1>b, <2>1 DEF Solo
  <2>2. ASSUME pc'[p] = "put", UNCHANGED record, NEW t \in BOOLEAN, Opened(p, t),
               t <=> pc[p] = "truncate"
        PROVE  Solo(p)' /\ Fitting'
    <3>1. dir'[0] = <<>>
      <4>1. pc[p] = "append" => dir[0] = Missing
          BY <1>0 DEF Solo
      <4>2. t \/ pc[p] = "append"
          BY <1>0, <1>7, <2>2, ReopenFacts
      <4>3. QED
          BY <1>0, <2>2, <4>1, <4>2, OpenedFacts
    <3>2. n'[p] = 0 /\ fd'[p] = 0 /\ Len(dir'[0]) = 0
        BY <1>0, <2>2, <3>1, OpenedFacts, MissingFacts
    <3>3. record[p] \in Text /\ Len(record[p]) <= maxSize
        BY <1>0 DEF Holding, Types
    <3>4. Len(record[p]) \in Nat
        BY <3>3, TextFacts
    <3>5. Solo(p)'
        BY <2>2, <3>2, <3>3, <3>4 DEF Solo
    <3>6. QED
        BY <1>d, <2>2, <3>5
  <2>3. \/ pc'[p] = "idle" /\ UNCHANGED <<dir, fd, n>>
        \/ /\ pc'[p] = "put" /\ UNCHANGED record
           /\ \E t \in BOOLEAN : Opened(p, t) /\ (t <=> pc[p] = "truncate")
      BY <1>0, <1>7, ReopenFacts
  <2>4. QED
      BY <2>1, <2>2, <2>3
<1>8. CASE Put(p)
  <2>0. pc[p] = "put" /\ pc'[p] = "idle" /\ UNCHANGED fd
      BY <1>8, PutFacts
  <2>1. CASE UNCHANGED <<dir, n>>
      BY <1>0, <1>b, <2>0, <2>1 DEF Solo
  <2>2. CASE /\ Writes(p) /\ fd[p] # Closed
             /\ n' = [n EXCEPT ![p] = n[p] + Len(record[p])]
    <3>1. /\ fd[p] = 0 /\ n[p] = Len(dir[0]) /\ n[p] + Len(record[p]) <= maxSize
          /\ Offset(p) = n[p]
        BY <1>0, <2>0, <2>2 DEF Solo, Offset
    <3>2. Len(record[p]) \in Nat /\ n[p] \in Nat /\ Len(record[p]) > 0
      <4>1. record[p] \in Text /\ n[p] \in Nat /\ Len(record[p]) > 0
          BY <1>0, <2>0 DEF Types, Holding, Writing
      <4>2. QED
          BY <4>1, TextFacts
    <3>3. /\ \A i \in Slots \ {0} : dir'[i] = dir[i]
          /\ Len(dir'[0]) = IF n[p] + Len(record[p]) > n[p] THEN n[p] + Len(record[p])
                            ELSE n[p]
        BY <2>0, <2>2, <3>1, SlotFacts, WriteFacts
    <3>4. Len(dir'[0]) = n[p] + Len(record[p])
        BY <3>2, <3>3
    <3>5. n'[p] = n[p] + Len(record[p])
        BY <1>0, <2>2 DEF Types
    <3>6. Fitting'
        BY <1>0, <3>1, <3>3, <3>4 DEF Fitting
    <3>7. Solo(p)'
        BY <2>0, <3>1, <3>4, <3>5 DEF Solo
    <3>8. QED
        BY <3>6, <3>7
  <2>3. QED
      BY <1>8, <2>1, <2>2, PutFacts
<1>9. CASE End(p)
  <2>1. UNCHANGED dir /\ fd'[p] = Closed /\ pc'[p] = "ended"
      BY <1>0, <1>9, EndFacts
  <2>2. QED
      BY <1>b, <1>c, <2>1
<1>10. QED
    BY <1>4, <1>5, <1>6, <1>7, <1>8, <1>9 DEF Acts, Returning

-----------------------------------------------------------------------------
(* With overlapping invocations: the ledger                                *)
(*                                                                         *)
(* Each process may add maxSize units to a file, each of them once.  What  *)
(* is in a file is paid for by a set of such units, so that no file is     *)
(* longer than all units together.                                         *)

Units   == Procs \X (1..maxSize)
Ledgers == [Slots -> SUBSET Units]

(* The units of p in S are among its first m.                              *)
Below(p, S, m) == \A k \in 1..maxSize : <<p, k>> \in S => k <= m

Paid(U) == \A i \in Slots : /\ dir[i] # Missing => Len(dir[i]) <= Cardinality(U[i])
                            /\ dir[i] = Missing => U[i] = {}

(* What p has used up in the file it has open: at most what it has         *)
(* counted, and exactly that if it writes where it has got to; nothing     *)
(* before it opens the live file, and before a write that does not fit.    *)
Share(p, U) ==
  /\ fd[p] \in Slots => Below(p, U[fd[p]], n[p])
  /\ fd[p] \in Slots /\ ~appends[p] =>
       n[p] <= maxSize /\ \A k \in 1..n[p] : <<p, k>> \in U[fd[p]]
  /\ pc[p] \in {"new", "open", "append"} => Below(p, U[0], 0)
  /\ pc[p] = "put" /\ fd[p] \in Slots =>
       \/ n[p] + Len(record[p]) <= maxSize
       \/ appends[p] /\ Below(p, U[fd[p]], 0)

Ledger(U) == Paid(U) /\ \A p \in Procs : Share(p, U)

(* No process counts more than all units together.                         *)
Room(p) == n[p] <= Most /\ (pc[p] = "put" => n[p] + Len(record[p]) <= Most)

Sized == \A p \in Procs : Room(p)

LEMMA UnitFacts ==
  /\ IsFiniteSet(Units) /\ Cardinality(Units) = Most /\ Most \in Nat
  /\ \A S \in SUBSET Units :
       IsFiniteSet(S) /\ Cardinality(S) \in Nat /\ Cardinality(S) <= Most
<1>1. IsFiniteSet(1..maxSize) /\ Cardinality(1..maxSize) = maxSize
    BY Sizes, FS_Interval
<1>2. IsFiniteSet(Procs)
    BY SinkAssumption
<1>3. IsFiniteSet(Units) /\ Cardinality(Units) = Most
    BY <1>1, <1>2, FS_Product DEF Units, Most
<1>4. Most \in Nat
    BY <1>3, FS_CardinalityType
<1>5. ASSUME NEW S \in SUBSET Units
      PROVE  IsFiniteSet(S) /\ Cardinality(S) \in Nat /\ Cardinality(S) <= Most
    BY <1>3, FS_Subset, FS_CardinalityType
<1>6. QED
    BY <1>3, <1>4, <1>5

(* p uses up len more of its units, beyond the first a.                    *)
LEMMA AddUnits ==
  ASSUME NEW S \in SUBSET Units, NEW p \in Procs, NEW a \in Nat, NEW len \in Nat,
         a + len <= maxSize, Below(p, S, a)
  PROVE  LET T == S \union ({p} \X (a + 1..a + len)) IN
           /\ T \in SUBSET Units /\ Cardinality(T) = Cardinality(S) + len
<1> DEFINE R == {p} \X (a + 1..a + len)
<1>1. IsFiniteSet(a + 1..a + len) /\ Cardinality(a + 1..a + len) = len
    BY FS_Interval
<1>2. IsFiniteSet({p}) /\ Cardinality({p}) = 1
    BY FS_Singleton
<1>3. IsFiniteSet(R) /\ Cardinality(R) = len
    BY <1>1, <1>2, FS_Product
<1>4. R \in SUBSET Units
    BY Sizes DEF Units
<1>5. S \cap R = {}
  <2>1. SUFFICES ASSUME NEW u \in S \cap R PROVE FALSE
      OBVIOUS
  <2>2. PICK k \in a + 1..a + len : u = <<p, k>>
      OBVIOUS
  <2>3. k \in 1..maxSize /\ ~(k <= a)
      BY Sizes
  <2>4. QED
      BY <2>2, <2>3 DEF Below
<1>6. Cardinality(S \cap R) = 0
    BY <1>5, FS_EmptySet
<1>7. IsFiniteSet(S) /\ Cardinality(S) \in Nat
    BY UnitFacts
<1>8. Cardinality(S \union R) = Cardinality(S) + len
  <2> HIDE DEF R
  <2>1. Cardinality(S \union R) = Cardinality(S) + Cardinality(R) - Cardinality(S \cap R)
      BY <1>3, <1>7, FS_Union
  <2>2. QED
      BY <1>3, <1>6, <1>7, <2>1
<1>9. QED
    BY <1>4, <1>8

(* All units of one process are units.                                     *)
LEMMA OneShare == ASSUME NEW p \in Procs PROVE maxSize <= Most
<1>1. {} \in SUBSET Units /\ Below(p, {}, 0) /\ Cardinality({}) = 0
    BY FS_EmptySet DEF Below
<1>2. /\ {} \union ({p} \X (0 + 1..0 + maxSize)) \in SUBSET Units
      /\ Cardinality({} \union ({p} \X (0 + 1..0 + maxSize))) = 0 + maxSize
    BY <1>1, Sizes, AddUnits
<1>3. QED
    BY <1>2, Sizes, UnitFacts

(* Processes that do not act keep their share of the file they have open,  *)
(* under whatever name.                                                    *)
LEMMA ShareKept ==
  ASSUME NEW q \in Procs, NEW U, NEW W, Share(q, U),
         pc'[q] = pc[q], record'[q] = record[q], appends'[q] = appends[q], n'[q] = n[q],
         n[q] \in Nat,
         fd'[q] \in Slots => fd[q] \in Slots /\ \A k \in 1..maxSize :
                               <<q, k>> \in W[fd'[q]] <=> <<q, k>> \in U[fd[q]],
         \A k \in 1..maxSize : <<q, k>> \in W[0] => <<q, k>> \in U[0]
  PROVE  Share(q, W)'
<1>1. fd'[q] \in Slots => (\A m : Below(q, U[fd[q]], m) <=> Below(q, W[fd'[q]], m))
    BY DEF Below
<1>2. Below(q, U[0], 0) => Below(q, W[0], 0)
    BY DEF Below
<1>3. ASSUME fd'[q] \in Slots, ~appends'[q]
      PROVE  n'[q] <= maxSize /\ \A k \in 1..n'[q] : <<q, k>> \in W[fd'[q]]
  <2>1. n[q] <= maxSize /\ \A k \in 1..n[q] : <<q, k>> \in U[fd[q]]
      BY <1>3 DEF Share
  <2>2. \A k \in 1..n[q] : k \in 1..maxSize
      BY <2>1, Sizes
  <2>3. QED
      BY <1>3, <2>1, <2>2
<1>4. fd'[q] \in Slots => Below(q, W[fd'[q]], n'[q])
    BY <1>1 DEF Share
<1>5. pc'[q] \in {"new", "open", "append"} => Below(q, W[0], 0)
    BY <1>2 DEF Share
<1>6. pc'[q] = "put" /\ fd'[q] \in Slots =>
        \/ n'[q] + Len(record'[q]) <= maxSize
        \/ appends'[q] /\ Below(q, W[fd'[q]], 0)
    BY <1>1 DEF Share
<1>7. QED
    BY <1>3, <1>4, <1>5, <1>6 DEF Share, Below

(* A process whose file is closed has to account for nothing until it      *)
(* opens the live file.                                                    *)
LEMMA ShareOfClosed ==
  ASSUME NEW p \in Procs, NEW W, fd'[p] = Closed, pc'[p] \notin {"new", "open"},
         pc'[p] = "append" => W[0] = {}
  PROVE  Share(p, W)'
BY SlotFacts DEF Share, Below

(* The other processes, when their files stay where they are.              *)
LEMMA ShareOfOthers ==
  ASSUME Shape, NEW p \in Procs, Acts(p), NEW U, NEW W, NEW q \in Procs \ {p}, Share(q, U),
         fd'[q] \in Slots => fd[q] \in Slots /\ \A k \in 1..maxSize :
                               <<q, k>> \in W[fd'[q]] <=> <<q, k>> \in U[fd[q]],
         \A k \in 1..maxSize : <<q, k>> \in W[0] => <<q, k>> \in U[0]
  PROVE  Share(q, W)'
<1>1. /\ pc'[q] = pc[q] /\ record'[q] = record[q]
      /\ appends'[q] = appends[q] /\ n'[q] = n[q]
    BY FrameHolds DEF Frame
<1>2. n[q] \in Nat
    BY DEF Shape, Types
<1>3. QED
    BY <1>1, <1>2, ShareKept

LEMMA LedgerSame ==
  ASSUME Shape, NEW p \in Procs, Acts(p), NEW U \in Ledgers, Ledger(U),
         UNCHANGED dir, \A q \in Procs \ {p} : fd'[q] = fd[q], Share(p, U)'
  PROVE  Ledger(U)'
<1>1. \A q \in Procs \ {p} : Share(q, U)'
    BY ShareOfOthers DEF Ledger
<1>2. Paid(U)'
    BY DEF Ledger, Paid
<1>3. QED
    BY <1>1, <1>2 DEF Ledger

LEMMA LedgerRemove ==
  ASSUME Shape, NEW p \in Procs, Acts(p), NEW U \in Ledgers, Ledger(U), NEW i \in Slots,
         dir'[i] = Missing, \A j \in Slots \ {i} : dir'[j] = dir[j],
         \A q \in Procs \ {p} : fd'[q] = IF fd[q] = i THEN Unlinked ELSE fd[q],
         fd'[p] = Closed, pc'[p] \notin {"new", "open", "append"}
  PROVE  LET W == [U EXCEPT ![i] = {}] IN W \in Ledgers /\ Ledger(W)'
<1> DEFINE W == [U EXCEPT ![i] = {}]
<1>1. W \in Ledgers /\ W[i] = {} /\ \A j \in Slots \ {i} : W[j] = U[j]
    BY DEF Ledgers
<1> HIDE DEF W
<1>2. Paid(W)'
    BY <1>1 DEF Ledger, Paid
<1>3. Share(p, W)'
    BY ShareOfClosed
<1>4. ASSUME NEW q \in Procs \ {p} PROVE Share(q, W)'
  <2>1. fd'[q] \in Slots => fd[q] = fd'[q] /\ W[fd'[q]] = U[fd[q]]
      BY <1>1, SlotFacts
  <2>2. \A k \in 1..maxSize : <<q, k>> \in W[0] => <<q, k>> \in U[0]
      BY <1>1, SlotFacts
  <2>3. QED
      BY <2>1, <2>2, ShareOfOthers DEF Ledger
<1>5. QED
    BY <1>1, <1>2, <1>3, <1>4 DEF Ledger, W

LEMMA LedgerRename ==
  ASSUME Shape, NEW p \in Procs, rotate(p), NEW U \in Ledgers, Ledger(U),
         NEW i \in 0..keep - 1, Rename(i, i + 1), dir[i] # Missing,
         pc'[p] = "append" => i = 0
  PROVE  LET W == [U EXCEPT ![i + 1] = U[i], ![i] = {}] IN W \in Ledgers /\ Ledger(W)'
<1> DEFINE W == [U EXCEPT ![i + 1] = U[i], ![i] = {}]
<1>1. i \in Slots /\ i + 1 \in Slots /\ i # i + 1 /\ i + 1 # 0 /\ Types
    BY SlotFacts DEF Shape
<1>2. /\ W \in Ledgers /\ W[i + 1] = U[i] /\ W[i] = {}
      /\ \A j \in Slots \ {i, i + 1} : W[j] = U[j]
    BY <1>1 DEF Ledgers
<1> HIDE DEF W
<1>3. /\ dir'[i + 1] = dir[i] /\ dir'[i] = Missing
      /\ \A j \in Slots \ {i, i + 1} : dir'[j] = dir[j]
      /\ \A q \in Procs : /\ fd[q] = i => fd'[q] = i + 1
                          /\ fd[q] = i + 1 => fd'[q] = Unlinked
                          /\ fd[q] \notin {i, i + 1} => fd'[q] = fd[q]
    BY <1>1, RenameFacts
<1>4. Paid(W)'
    BY <1>1, <1>2, <1>3 DEF Ledger, Paid
<1>5. Share(p, W)'
  <2>1. fd'[p] = Closed /\ pc'[p] \in {"shift", "truncate", "append"}
      BY <1>1, RotateShut, RotateFacts
  <2>2. QED
      BY <1>2, <2>1, ShareOfClosed
<1>6. ASSUME NEW q \in Procs \ {p} PROVE Share(q, W)'
  <2>1. fd'[q] \in Slots => fd[q] \in Slots /\ W[fd'[q]] = U[fd[q]]
    <3>1. CASE fd[q] = i
        BY <1>1, <1>2, <1>3, <3>1
    <3>2. CASE fd[q] = i + 1
        BY <1>3, <3>2, SlotFacts
    <3>3. CASE fd[q] \notin {i, i + 1}
        BY <1>2, <1>3, <3>3
    <3>4. QED
        BY <3>1, <3>2, <3>3
  <2>2. W[0] = {} \/ W[0] = U[0]
      BY <1>1, <1>2, SlotFacts
  <2>3. \A k \in 1..maxSize : <<q, k>> \in W[0] => <<q, k>> \in U[0]
      BY <2>2
  <2>4. Acts(p) /\ Share(q, U)
      BY DEF Acts, Returning, Ledger
  <2>5. QED
      BY <2>1, <2>3, <2>4, ShareOfOthers
<1>7. QED
    BY <1>2, <1>4, <1>5, <1>6 DEF Ledger, W

(* Opening the live file takes nothing: p has no unit in it, or truncates  *)
(* it and gets its own back.                                               *)
LEMMA LedgerOpen ==
  ASSUME Shape, NEW p \in Procs, Acts(p), NEW U \in Ledgers, Ledger(U),
         NEW truncate \in BOOLEAN, Opened(p, truncate),
         ~truncate => pc[p] \in {"open", "append"},
         pc'[p] \in {"protect", "put"}, Len(record'[p]) \in 0..maxSize
  PROVE  \E W \in Ledgers : Ledger(W)' /\ Below(p, W[0], 0)
<1> DEFINE S == IF truncate THEN {u \in U[0] : u[1] # p} ELSE U[0]
           W == [U EXCEPT ![0] = S]
<1>0. Types /\ Share(p, U) /\ Paid(U)
    BY DEF Shape, Ledger
<1>1. /\ W \in Ledgers /\ W[0] = S /\ (\A j \in Slots \ {0} : W[j] = U[j])
      /\ S \in SUBSET U[0] /\ \A q \in Procs \ {p}, k \in 1..maxSize :
                                <<q, k>> \in S <=> <<q, k>> \in U[0]
    BY SlotFacts DEF Ledgers
<1>2. Below(p, S, 0)
  <2>1. CASE truncate
      BY <2>1 DEF Below
  <2>2. CASE ~truncate
      BY <1>0, <2>2 DEF Share
  <2>3. QED
      BY <2>1, <2>2
<1> HIDE DEF S, W
<1>3. /\ dir'[0] = (IF truncate \/ dir[0] = Missing THEN <<>> ELSE dir[0])
      /\ dir'[0] # Missing /\ \A j \in Slots \ {0} : dir'[j] = dir[j]
      /\ fd'[p] = 0 /\ n'[p] = Len(dir'[0]) /\ appends'[p] = ~truncate
      /\ \A q \in Procs \ {p} : fd'[q] = fd[q]
      /\ n' \in [Procs -> Nat]
    BY <1>0, OpenedFacts
<1>4. Cardinality(S) \in Nat
  <2>1. S \in SUBSET Units
      BY <1>1, SlotFacts DEF Ledgers
  <2>2. QED
      BY <2>1, UnitFacts
<1>5. Len(dir'[0]) <= Cardinality(S)
  <2>1. CASE dir'[0] = <<>>
      BY <1>4, <2>1, MissingFacts
  <2>2. CASE ~truncate /\ dir[0] # Missing
      BY <1>0, <1>3, <2>2, SlotFacts DEF Paid, S
  <2>3. QED
      BY <1>3, <2>1, <2>2
<1>6. Paid(W)'
    BY <1>0, <1>1, <1>3, <1>5 DEF Paid
<1>7. Share(p, W)'
  <2>1. Below(p, W[0], n'[p])
      BY <1>1, <1>2, <1>3 DEF Below
  <2>2. truncate => n'[p] = 0
      BY <1>3, MissingFacts
  <2>3. truncate => n'[p] + Len(record'[p]) <= maxSize
      BY <2>2, Sizes
  <2>4. ~appends'[p] => n'[p] <= maxSize /\ \A k \in 1..n'[p] : <<p, k>> \in W[fd'[p]]
    <3>1. ~appends'[p] => truncate
        BY <1>3, Zenon
    <3>2. n'[p] = 0 => n'[p] <= maxSize /\ \A k \in 1..n'[p] : <<p, k>> \in W[fd'[p]]
        BY Sizes
    <3>3. QED
        BY <2>2, <3>1, <3>2, Zenon
  <2>5. \/ n'[p] + Len(record'[p]) <= maxSize
        \/ appends'[p] /\ Below(p, W[fd'[p]], 0)
      BY <1>1, <1>2, <1>3, <2>3
  <2>6. fd'[p] = 0 /\ pc'[p] \notin {"new", "open", "append"}
      BY <1>3
  <2>7. QED
      BY <2>1, <2>4, <2>5, <2>6 DEF Share, Below
<1>8. ASSUME NEW q \in Procs \ {p} PROVE Share(q, W)'
  <2>1. \A k \in 1..maxSize : <<q, k>> \in W[0] <=> <<q, k>> \in U[0]
      BY <1>1
  <2>2. fd'[q] \in Slots => fd[q] \in Slots /\ \A k \in 1..maxSize :
                              <<q, k>> \in W[fd'[q]] <=> <<q, k>> \in U[fd[q]]
      BY <1>1, <1>3, <2>1
  <2>3. QED
      BY <2>1, <2>2, ShareOfOthers DEF Ledger
<1>9. QED
    BY <1>1, <1>2, <1>6, <1>7, <1>8 DEF Ledger

(* The next len units of p, or its first ones if it has none.              *)
LEMMA Spend ==
  ASSUME NEW V \in SUBSET Units, NEW p \in Procs, NEW a \in Nat, NEW len \in Nat,
         NEW seeks \in BOOLEAN, len <= maxSize, Below(p, V, a),
         a + len <= maxSize \/ (~seeks /\ Below(p, V, 0)),
         seeks => \A k \in 1..a : <<p, k>> \in V
  PROVE  \E S \in SUBSET Units :
           /\ Cardinality(S) = Cardinality(V) + len /\ Below(p, S, a + len)
           /\ seeks => a + len <= maxSize /\ \A k \in 1..a + len : <<p, k>> \in S
           /\ \A q \in Procs \ {p}, k \in 1..maxSize : <<q, k>> \in S <=> <<q, k>> \in V
<1>1. PICK base \in Nat : /\ base + len <= maxSize /\ Below(p, V, base)
                          /\ base <= a /\ (seeks => base = a)
  <2>1. CASE a + len <= maxSize
      BY <2>1
  <2>2. CASE ~(a + len <= maxSize)
      BY <2>2
  <2>3. QED
      BY <2>1, <2>2
<1> DEFINE R == {p} \X (base + 1..base + len)
           S == V \union R
<1>2. S \in SUBSET Units /\ Cardinality(S) = Cardinality(V) + len
    BY <1>1, AddUnits
<1>3. \A k \in Nat : <<p, k>> \in R <=> base + 1 <= k /\ k <= base + len
    BY <1>1
<1>4. \A q \in Procs \ {p}, k \in 1..maxSize : <<q, k>> \in S <=> <<q, k>> \in V
    OBVIOUS
<1>5. ASSUME NEW k \in 1..maxSize, <<p, k>> \in S PROVE k <= a + len
  <2>1. k \in Nat
      OBVIOUS
  <2>2. CASE <<p, k>> \in V
    <3>1. k <= a
        BY <2>2 DEF Below
    <3>2. QED
        BY <2>1, <3>1
  <2>3. CASE <<p, k>> \in R
    <3>1. k <= base + len /\ base <= a
        BY <1>1, <1>3, <2>1, <2>3
    <3>2. QED
        BY <1>1, <2>1, <3>1
  <2>4. QED
      BY <1>5, <2>2, <2>3
<1>6. ASSUME seeks, NEW k \in 1..a + len PROVE <<p, k>> \in S
  <2>1. k \in Nat /\ 1 <= k /\ k <= a + len /\ base = a
      BY <1>1, <1>6
  <2>2. CASE k <= a
    <3>1. k \in 1..a
        BY <2>1, <2>2
    <3>2. QED
        BY <1>6, <3>1
  <2>3. CASE ~(k <= a)
    <3>1. base + 1 <= k /\ k <= base + len
        BY <2>1, <2>3
    <3>2. QED
        BY <1>3, <2>1, <3>1
  <2>4. QED
      BY <2>2, <2>3
<1>7. seeks => a + len <= maxSize
    OBVIOUS
<1> HIDE DEF S
<1>8. QED
    BY <1>2, <1>4, <1>5, <1>6, <1>7 DEF Below

(* What p has written from the start of a file is in it.                   *)
LEMMA Owned ==
  ASSUME NEW S \in SUBSET Units, NEW p \in Procs, NEW m \in Nat, m <= maxSize,
         \A k \in 1..m : <<p, k>> \in S
  PROVE  m <= Cardinality(S)
<1> DEFINE R == {} \union ({p} \X (0 + 1..0 + m))
<1>1. {} \in SUBSET Units /\ Below(p, {}, 0) /\ Cardinality({}) = 0
    BY FS_EmptySet DEF Below
<1>2. Cardinality(R) = 0 + m
    BY <1>1, AddUnits
<1>3. R \subseteq S
    OBVIOUS
<1> HIDE DEF R
<1>4. Cardinality(R) <= Cardinality(S) /\ Cardinality(S) \in Nat
    BY <1>3, UnitFacts, FS_Subset
<1>5. QED
    BY <1>2, <1>4

(* A write uses up as many units as it is long: the next ones of p, or its *)
(* first ones when p has reopened a file that others have filled.          *)
LEMMA LedgerPut ==
  ASSUME Shape, NEW p \in Procs, Put(p), NEW U \in Ledgers, Ledger(U), Writes(p),
         fd[p] \in Slots, n' = [n EXCEPT ![p] = n[p] + Len(record[p])]
  PROVE  \E W \in Ledgers : Ledger(W)'
<1>0. /\ Types /\ Paid(U) /\ Share(p, U) /\ pc[p] = "put" /\ pc'[p] = "idle"
      /\ UNCHANGED <<fd, appends>> /\ Acts(p)
    BY PutFacts DEF Shape, Ledger, Acts, Returning
<1>1. PICK i \in Slots : fd[p] = i
    OBVIOUS
<1>2. Len(record[p]) \in Nat /\ Len(record[p]) <= maxSize
  <2>1. record[p] \in Text /\ Len(record[p]) <= maxSize
      BY <1>0 DEF Shape, Types, Holding
  <2>2. QED
      BY <2>1, TextFacts
<1>3. PICK len \in Nat : Len(record[p]) = len /\ len <= maxSize
    BY <1>2
<1>4. PICK a \in Nat : n[p] = a
    BY <1>0 DEF Types
<1>5. PICK seeks \in BOOLEAN : seeks = ~appends[p]
    OBVIOUS
<1>6. n'[p] = a + len /\ U[i] \in SUBSET Units /\ dir[i] \in Text /\ dir[i] # Missing
    BY <1>0, <1>1, <1>3, <1>4 DEF Types, Ledgers, Shape, Files
<1>7. /\ Below(p, U[i], a) /\ (a + len <= maxSize \/ (~seeks /\ Below(p, U[i], 0)))
      /\ seeks => \A k \in 1..a : <<p, k>> \in U[i]
    BY <1>0, <1>1, <1>3, <1>4, <1>5 DEF Share
<1>8. PICK S \in SUBSET Units :
        /\ Cardinality(S) = Cardinality(U[i]) + len /\ Below(p, S, a + len)
        /\ seeks => a + len <= maxSize /\ \A k \in 1..a + len : <<p, k>> \in S
        /\ \A q \in Procs \ {p}, k \in 1..maxSize : <<q, k>> \in S <=> <<q, k>> \in U[i]
  <2>1. PICK V \in SUBSET Units : V = U[i]
      BY <1>6
  <2>2. /\ len <= maxSize /\ Below(p, V, a)
        /\ a + len <= maxSize \/ (~seeks /\ Below(p, V, 0))
        /\ seeks => \A k \in 1..a : <<p, k>> \in V
      BY <1>3, <1>7, <2>1
  <2>3. \E S \in SUBSET Units :
          /\ Cardinality(S) = Cardinality(V) + len /\ Below(p, S, a + len)
          /\ seeks => a + len <= maxSize /\ \A k \in 1..a + len : <<p, k>> \in S
          /\ \A q \in Procs \ {p}, k \in 1..maxSize : <<q, k>> \in S <=> <<q, k>> \in V
      BY <2>2, Spend, ZenonT(60)
  <2>4. QED
      BY <2>1, <2>3, Zenon
<1>9. PICK W \in Ledgers : W[i] = S /\ \A j \in Slots \ {i} : W[j] = U[j]
  <2>1. [U EXCEPT ![i] = S] \in Ledgers
      BY DEF Ledgers
  <2>2. /\ [U EXCEPT ![i] = S][i] = S
        /\ \A j \in Slots \ {i} : [U EXCEPT ![i] = S][j] = U[j]
      BY DEF Ledgers
  <2>3. QED
      BY <2>1, <2>2
<1>10. /\ dir'[i] # Missing /\ \A j \in Slots \ {i} : dir'[j] = dir[j]
       /\ Len(dir'[i]) = (IF Offset(p) + len > Len(dir[i]) THEN Offset(p) + len
                          ELSE Len(dir[i]))
    BY <1>0, <1>1, <1>3, WriteFacts
<1>11. Len(dir'[i]) <= Cardinality(S)
  <2>1. Len(dir[i]) \in Nat /\ Len(dir[i]) <= Cardinality(U[i])
      BY <1>0, <1>6, TextFacts DEF Paid
  <2>2. Cardinality(U[i]) \in Nat /\ Cardinality(S) \in Nat
      BY <1>6, UnitFacts
  <2>3. CASE ~seeks
    <3>1. Offset(p) = Len(dir[i])
        BY <1>1, <1>5, <2>3 DEF Offset
    <3>2. QED
        BY <1>8, <1>10, <2>1, <2>2, <3>1
  <2>4. CASE seeks
    <3>1. Offset(p) = a
        BY <1>4, <1>5, <2>4 DEF Offset
    <3>2. a + len <= Cardinality(S)
      <4>1. a + len \in Nat
          OBVIOUS
      <4>2. QED
          BY <1>8, <2>4, <4>1, Owned
    <3>3. QED
        BY <1>8, <1>10, <2>1, <2>2, <3>1, <3>2
  <2>5. QED
      BY <2>3, <2>4
<1>12. Paid(W)'
  <2>1. ASSUME NEW j \in Slots
        PROVE  /\ dir'[j] # Missing => Len(dir'[j]) <= Cardinality(W[j])
               /\ dir'[j] = Missing => W[j] = {}
    <3>1. CASE j = i
        BY <1>9, <1>10, <1>11, <3>1
    <3>2. CASE j # i
        BY <1>0, <1>9, <1>10, <3>2 DEF Paid
    <3>3. QED
        BY <3>1, <3>2
  <2>2. QED
      BY <2>1 DEF Paid
<1>13. Share(p, W)'
  <2>1. fd'[p] = i /\ appends'[p] = appends[p]
      BY <1>0, <1>1
  <2>2. ~appends'[p] => seeks
      BY <1>5, <2>1
  <2>3. Below(p, W[i], n'[p])
      BY <1>6, <1>8, <1>9
  <2>4. seeks => n'[p] <= maxSize /\ \A k \in 1..n'[p] : <<p, k>> \in W[i]
      BY <1>6, <1>8, <1>9
  <2>5. QED
      BY <1>0, <2>1, <2>2, <2>3, <2>4 DEF Share, Below
<1>14. ASSUME NEW q \in Procs \ {p} PROVE Share(q, W)'
  <2>1. ASSUME NEW j \in Slots, NEW k \in 1..maxSize
        PROVE  <<q, k>> \in W[j] <=> <<q, k>> \in U[j]
    <3>1. CASE j = i
        BY <1>8, <1>9, <3>1
    <3>2. CASE j # i
        BY <1>9, <3>2
    <3>3. QED
        BY <3>1, <3>2
  <2>2. fd'[q] \in Slots => fd[q] \in Slots /\ \A k \in 1..maxSize :
                              <<q, k>> \in W[fd'[q]] <=> <<q, k>> \in U[fd[q]]
      BY <1>0, <2>1
  <2>3. \A k \in 1..maxSize : <<q, k>> \in W[0] => <<q, k>> \in U[0]
      BY <2>1, SlotFacts
  <2>4. QED
      BY <1>0, <2>2, <2>3, ShareOfOthers DEF Ledger
<1>15. QED
    BY <1>12, <1>13, <1>14 DEF Ledger

LEMMA OpenStep ==
  ASSUME Shape, NEW p \in Procs, Acts(p), NEW U \in Ledgers, Ledger(U),
         NEW truncate \in BOOLEAN, Opened(p, truncate), UNCHANGED record,
         ~truncate => pc[p] \in {"open", "append"}, pc'[p] \in {"protect", "put"}
  PROVE  (\E W \in Ledgers : Ledger(W)') /\ Room(p)'
<1>1. Types /\ Len(record[p]) \in Nat /\ Len(record[p]) <= maxSize
  <2>1. Types /\ record[p] \in Text /\ Len(record[p]) <= maxSize
      BY DEF Shape, Types, Holding
  <2>2. QED
      BY <2>1, TextFacts
<1>2. PICK len \in Nat : Len(record'[p]) = len /\ len <= maxSize
    BY <1>1
<1>3. PICK W \in Ledgers : Ledger(W)' /\ Below(p, W[0], 0)
  <2>1. Len(record'[p]) \in 0..maxSize
      BY <1>2, Sizes
  <2>2. QED
      BY <2>1, LedgerOpen
<1>4. PICK V \in SUBSET Units : V = W[0]
    BY SlotFacts DEF Ledgers
<1>5. Cardinality(V) + len <= Most
  <2>1. Below(p, V, 0) /\ 0 + len <= maxSize
      BY <1>2, <1>3, <1>4
  <2>2. PICK T \in SUBSET Units : Cardinality(T) = Cardinality(V) + len
      BY <2>1, AddUnits
  <2>3. QED
      BY <2>2, UnitFacts
<1>6. n'[p] \in Nat /\ n'[p] <= Cardinality(V)
  <2>1. n' \in [Procs -> Nat] /\ n'[p] = Len(dir'[0]) /\ dir'[0] # Missing
      BY <1>1, OpenedFacts
  <2>2. Paid(W)'
      BY <1>3 DEF Ledger
  <2>3. QED
      BY <1>4, <2>1, <2>2, SlotFacts DEF Paid
<1>7. Room(p)'
  <2>1. Cardinality(V) \in Nat /\ Most \in Nat
      BY UnitFacts
  <2>2. n'[p] <= Most /\ n'[p] + len <= Most
      BY <1>5, <1>6, <2>1
  <2>3. QED
      BY <1>2, <2>2 DEF Room
<1>8. QED
    BY <1>3, <1>7

(* The steps before the first record keep the ledger.                      *)
LEMMA LedgerFirst ==
  ASSUME Shape, Sized, NEW p \in Procs, Start(p) \/ OpenFirst(p) \/ Protect(p),
         NEW U \in Ledgers, Ledger(U)
  PROVE  (\E W \in Ledgers : Ledger(W)') /\ Room(p)'
<1>0. /\ Acts(p) /\ Share(p, U) /\ UNCHANGED record /\ Room(p)
      /\ pc[p] \in Shut => fd[p] = Closed
    BY FirstFacts DEF Acts, Ledger, Sized, Shape, Files
<1>1. CASE UNCHANGED <<dir, fd, appends, n>>
           /\ (pc'[p] = "open" => pc[p] = "new") /\ pc'[p] \in {"open", "ended", "idle"}
  <2>1. Share(p, U)'
      BY <1>0, <1>1 DEF Share, Below
  <2>2. Ledger(U)'
      BY <1>0, <1>1, <2>1, LedgerSame
  <2>3. QED
      BY <1>0, <1>1, <2>2 DEF Room
<1>2. CASE pc[p] = "open" /\ pc'[p] = "protect" /\ Opened(p, FALSE)
    BY <1>0, <1>2, OpenStep
<1>3. CASE UNCHANGED <<dir, n>> /\ fd' = [fd EXCEPT ![p] = Closed] /\ pc'[p] = "ended"
  <2>1. /\ fd'[p] = Closed /\ \A q \in Procs \ {p} : fd'[q] = fd[q]
      BY <1>3 DEF Shape, Types
  <2>2. Share(p, U)'
      BY <1>3, <2>1, ShareOfClosed
  <2>3. Ledger(U)'
      BY <1>0, <1>3, <2>1, <2>2, LedgerSame
  <2>4. QED
      BY <1>0, <1>3, <2>3 DEF Room
<1>4. CASE /\ dir' = [dir EXCEPT ![0] = Missing] /\ fd'[p] = Closed /\ pc'[p] = "ended"
           /\ \A q \in Procs \ {p} : fd'[q] = IF fd[q] = 0 THEN Unlinked ELSE fd[q]
           /\ UNCHANGED n
  <2>1. dir'[0] = Missing /\ \A j \in Slots \ {0} : dir'[j] = dir[j]
      BY <1>4, SlotFacts DEF Shape, Types
  <2>2. \E W \in Ledgers : Ledger(W)'
      BY <1>0, <1>4, <2>1, SlotFacts, LedgerRemove
  <2>3. QED
      BY <1>0, <1>4, <2>2 DEF Room
<1>5. QED
    BY <1>1, <1>2, <1>3, <1>4, FirstFacts

LEMMA LedgerRotate ==
  ASSUME Shape, NEW p \in Procs, rotate(p), NEW U \in Ledgers, Ledger(U)
  PROVE  \E W \in Ledgers : Ledger(W)'
<1>0. /\ Types /\ Acts(p) /\ fd'[p] = Closed /\ fd[p] = Closed
      /\ pc'[p] \in {"shift", "truncate", "append"}
    BY RotateShut, RotateFacts DEF Shape, Acts, Returning
<1>1. CASE UNCHANGED <<dir, fd>> /\ pc'[p] # "append"
  <2>1. Share(p, U)'
      BY <1>0, <1>1, ShareOfClosed
  <2>2. QED
      BY <1>0, <1>1, <2>1, LedgerSame
<1>2. CASE Remove(keep) /\ pc'[p] # "append"
  <2>1. /\ dir'[keep] = Missing /\ \A j \in Slots \ {keep} : dir'[j] = dir[j]
        /\ \A q \in Procs \ {p} : fd'[q] = IF fd[q] = keep THEN Unlinked ELSE fd[q]
      BY <1>0, <1>2, SlotFacts, RemoveFacts
  <2>2. QED
      BY <1>0, <1>2, <2>1, SlotFacts, LedgerRemove
<1>3. ASSUME NEW i \in 0..keep - 1, Rename(i, i + 1),
             pc'[p] = "append" => i = 0 /\ dir[0] # Missing
      PROVE  \E W \in Ledgers : Ledger(W)'
  <2>1. CASE dir[i] # Missing
      BY <1>3, <2>1, LedgerRename
  <2>2. CASE dir[i] = Missing
    <3>1. UNCHANGED <<dir, fd>> /\ pc'[p] # "append"
        BY <1>0, <1>3, <2>2, RenameFacts
    <3>2. QED
        BY <1>1, <3>1
  <2>3. QED
      BY <2>1, <2>2
<1>4. QED
    BY <1>0, <1>1, <1>2, <1>3, RotateFacts

LEMMA LedgerStep ==
  ASSUME Shape, Sized, NEW p \in Procs, Acts(p), NEW U \in Ledgers, Ledger(U)
  PROVE  (\E W \in Ledgers : Ledger(W)') /\ Room(p)'
<1>0. Types /\ Share(p, U) /\ Room(p) /\ n[p] \in Nat
    BY DEF Shape, Types, Ledger, Sized
<1>1. CASE Start(p) \/ OpenFirst(p) \/ Protect(p)
    BY <1>1, LedgerFirst
<1>2. CASE Write(p)
  <2>1. /\ UNCHANGED <<dir, appends, n>> /\ \A q \in Procs \ {p} : fd'[q] = fd[q]
        /\ \/ pc'[p] = "remove" /\ fd'[p] = Closed
           \/ pc'[p] = "put" /\ fd' = fd /\ n[p] + Len(record'[p]) <= maxSize
      BY <1>0, <1>2, WriteStarts
  <2>2. Share(p, U)'
    <3>1. CASE pc'[p] = "remove" /\ fd'[p] = Closed
        BY <3>1, ShareOfClosed
    <3>2. CASE pc'[p] = "put" /\ fd' = fd /\ n[p] + Len(record'[p]) <= maxSize
        BY <1>0, <2>1, <3>2 DEF Share, Below
    <3>3. QED
        BY <2>1, <3>1, <3>2
  <2>3. Room(p)'
    <3>1. CASE pc'[p] # "put"
        BY <1>0, <2>1, <3>1 DEF Room
    <3>2. CASE pc'[p] = "put"
      <4>1. Len(record'[p]) \in Nat
          BY <1>0, <1>2, WriteStarts
      <4>2. n[p] + Len(record'[p]) <= maxSize /\ maxSize <= Most
          BY <2>1, <3>2, OneShare
      <4>3. maxSize \in Nat /\ Most \in Nat
          BY Sizes, UnitFacts
      <4>4. n[p] + Len(record'[p]) <= Most
          BY <1>0, <4>1, <4>2, <4>3
      <4>5. QED
          BY <1>0, <2>1, <4>4 DEF Room
    <3>3. QED
        BY <3>1, <3>2
  <2>4. Ledger(U)'
      BY <2>1, <2>2, LedgerSame
  <2>5. QED
      BY <2>3, <2>4
<1>3. CASE rotate(p)
  <2>1. Room(p)'
      BY <1>0, <1>3, RotateFacts DEF Room
  <2>2. QED
      BY <1>3, <2>1, LedgerRotate
<1>4. CASE Truncate(p) \/ OpenFresh(p)
  <2>1. CASE pc'[p] = "idle" /\ UNCHANGED <<dir, fd, appends, n>>
    <3>1. Share(p, U)'
        BY <1>0, <2>1 DEF Share, Below
    <3>2. Ledger(U)'
        BY <2>1, <3>1, LedgerSame
    <3>3. QED
        BY <1>0, <2>1, <3>2 DEF Room
  <2>2. ASSUME NEW t \in BOOLEAN, Opened(p, t), t <=> pc[p] = "truncate",
               pc'[p] = "put", UNCHANGED record
        PROVE  (\E W \in Ledgers : Ledger(W)') /\ Room(p)'
    <3>1. ~t => pc[p] \in {"open", "append"}
        BY <1>0, <1>4, <2>2, ReopenFacts
    <3>2. QED
        BY <2>2, <3>1, OpenStep
  <2>3. QED
      BY <1>0, <1>4, <2>1, <2>2, ReopenFacts
<1>5. CASE Put(p)
  <2>0. pc[p] = "put" /\ pc'[p] = "idle" /\ UNCHANGED <<fd, appends>>
      BY <1>5, PutFacts
  <2>1. CASE UNCHANGED <<dir, n>>
    <3>1. Share(p, U)'
        BY <1>0, <2>0, <2>1 DEF Share, Below
    <3>2. Ledger(U)'
        BY <2>0, <2>1, <3>1, LedgerSame
    <3>3. QED
        BY <1>0, <2>0, <2>1, <3>2 DEF Room
  <2>2. CASE Writes(p) /\ n' = [n EXCEPT ![p] = n[p] + Len(record[p])]
    <3>1. Room(p)'
        BY <1>0, <2>0, <2>2 DEF Room, Types
    <3>2. CASE fd[p] \in Slots
        BY <1>5, <2>2, <3>1, <3>2, LedgerPut
    <3>3. CASE fd[p] \notin Slots
      <4>1. dir' = dir
          BY <2>0, <2>2, <3>3, WriteFacts
      <4>2. Share(p, U)'
          BY <2>0, <3>3 DEF Share, Below
      <4>3. Ledger(U)'
          BY <2>0, <4>1, <4>2, LedgerSame
      <4>4. QED
          BY <3>1, <4>3
    <3>4. QED
        BY <3>2, <3>3
  <2>3. QED
      BY <1>5, <2>1, <2>2, PutFacts
<1>6. CASE End(p)
  <2>1. /\ UNCHANGED dir /\ fd'[p] = Closed /\ pc'[p] = "ended"
        /\ \A q \in Procs \ {p} : fd'[q] = fd[q]
      BY <1>0, <1>6, EndFacts
  <2>2. Ledger(U)'
      BY <2>1, ShareOfClosed, LedgerSame
  <2>3. n'[p] = 0
      BY <1>0, <1>6 DEF End, Types
  <2>4. QED
      BY <2>1, <2>2, <2>3, UnitFacts DEF Room
<1>7. QED
    BY <1>1, <1>2, <1>3, <1>4, <1>5, <1>6 DEF Acts, Returning

-----------------------------------------------------------------------------
(* The inductive invariant *)

IInv == Shape /\ Alone /\ Sized /\ \E U \in Ledgers : Ledger(U)

LEMMA InitHolds == Init => IInv
<1> SUFFICES ASSUME Init PROVE IInv
    OBVIOUS
<1> USE DEF Init
<1>1. Types
  <2>1. 0 \in 0..keep - 1 /\ 0 \in 0..MaxRecords /\ 0 \in 0..MaxFail /\ "new" \in Points
      BY Sizes DEF Points
  <2>2. Missing \in Text /\ <<>> \in Text
      BY MissingFacts
  <2>3. QED
      BY <2>1, <2>2 DEF Types
<1>2. /\ \A i \in Slots : dir[i] = Missing
      /\ \A p \in Procs : /\ pc[p] = "new" /\ fd[p] = Closed /\ n[p] = 0
                          /\ record[p] = <<>>
    OBVIOUS
<1>3. Shape
  <2>1. 0 <= maxSize
      BY Sizes
  <2>2. QED
      BY <1>1, <1>2, <2>1, MissingFacts, SlotFacts DEF Shape, Holding, Files, Writing, Shut
<1>4. Alone
    BY <1>2, SlotFacts DEF Alone, Single, Fitting, Solo, Alive
<1>5. Sized
    BY <1>2, UnitFacts DEF Sized, Room
<1>6. PICK U \in Ledgers : \A i \in Slots : U[i] = {}
  <2>1. [i \in Slots |-> {}] \in Ledgers
      BY DEF Ledgers
  <2>2. QED
      BY <2>1
<1>7. Ledger(U)
    BY <1>2, <1>6, SlotFacts DEF Ledger, Paid, Share, Below
<1>8. QED
    BY <1>3, <1>4, <1>5, <1>7 DEF IInv

LEMMA StepHolds == IInv /\ [Next]_vars => IInv'
<1> SUFFICES ASSUME IInv, [Next]_vars PROVE IInv'
    OBVIOUS
<1>1. CASE Next
  <2>1. PICK p \in Procs : Acts(p)
      BY <1>1 DEF Next, Acts
  <2>2. PICK U \in Ledgers : Ledger(U)
      BY DEF IInv
  <2>3. Shape' /\ Alone'
      BY <2>1, ShapeStep, AloneStep DEF IInv
  <2>4. (\E W \in Ledgers : Ledger(W)') /\ Room(p)'
      BY <2>1, <2>2, LedgerStep DEF IInv
  <2>5. \A q \in Procs \ {p} : Room(q)'
      BY <2>1, FrameHolds DEF IInv, Frame, Sized, Room
  <2>6. Sized'
      BY <2>4, <2>5 DEF Sized
  <2>7. QED
      BY <2>3, <2>4, <2>6 DEF IInv
<1>2. CASE UNCHANGED vars
  <2>1. Shape'
      BY <1>2 DEF IInv, vars, sink, Shape, Types, Holding, Files
  <2>2. Alone'
      BY <1>2 DEF IInv, vars, sink, Alone, Single, Fitting, Solo, Alive
  <2>3. Sized'
      BY <1>2 DEF IInv, vars, sink, Sized, Room
  <2>4. \E W \in Ledgers : Ledger(W)'
      BY <1>2 DEF IInv, vars, sink, Ledger, Paid, Share, Below
  <2>5. QED
      BY <2>1, <2>2, <2>3, <2>4 DEF IInv
<1>3. QED
    BY <1>1, <1>2

(* What the files, the sinks and the ledger look like between any two      *)
(* steps of the processes that write, rotate, crash and start again.       *)
THEOREM SinkInvariant == Spec => []IInv
<1>1. QED
    BY InitHolds, StepHolds, PTL DEF Spec

(* Types, and with them the limit: no file of the log, however many        *)
(* invocations write and rotate it at once, outgrows one maxSize for each  *)
(* of them (rotatingSink.Write counts in the process, not in the file).    *)
THEOREM SinkTypeCorrect == Spec => []TypeOK
<1>1. ASSUME NEW c \in Text, Len(c) <= Most PROVE c \in Contents
  <2>1. Len(c) \in 0..Most /\ c \in [1..Len(c) -> 0..MaxRecords]
      BY <1>1, UnitFacts, TextFacts, LenProperties DEF Text
  <2>2. QED
      BY <2>1 DEF Contents, Most
<1>2. IInv => TypeOK
  <2> SUFFICES ASSUME IInv PROVE TypeOK
      OBVIOUS
  <2>1. Types /\ \A p \in Procs : Len(record[p]) <= maxSize /\ n[p] <= Most
      BY DEF IInv, Shape, Holding, Sized, Room
  <2>2. ASSUME NEW i \in Slots, dir[i] # Missing PROVE dir[i] \in Contents
    <3>1. PICK U \in Ledgers : Paid(U)
        BY DEF IInv, Ledger
    <3>2. Len(dir[i]) <= Cardinality(U[i]) /\ U[i] \in SUBSET Units
        BY <2>2, <3>1 DEF Paid, Ledgers
    <3>3. dir[i] \in Text
        BY <2>1 DEF Types
    <3>4. Len(dir[i]) \in Nat /\ Cardinality(U[i]) \in Nat /\ Cardinality(U[i]) <= Most
          /\ Most \in Nat
        BY <3>2, <3>3, TextFacts, UnitFacts
    <3>5. Len(dir[i]) <= Most
        BY <3>2, <3>4
    <3>6. QED
        BY <1>1, <3>3, <3>5
  <2>3. dir \in [Slots -> Contents \union {Missing}]
      BY <2>1, <2>2 DEF Types
  <2>4. ASSUME NEW p \in Procs PROVE record[p] \in Contents /\ n[p] \in 0..Most
    <3>1. record[p] \in Text /\ n[p] \in Nat /\ Len(record[p]) <= maxSize /\ n[p] <= Most
        BY <2>1 DEF Types
    <3>2. maxSize <= Most /\ maxSize \in Nat /\ Most \in Nat /\ Len(record[p]) \in Nat
        BY <3>1, Sizes, OneShare, UnitFacts, TextFacts
    <3>3. Len(record[p]) <= Most
        BY <3>1, <3>2
    <3>4. QED
        BY <1>1, <3>1, <3>2, <3>3
  <2>5. record \in [Procs -> Contents]
      BY <2>1, <2>4 DEF Types
  <2>6. n \in [Procs -> 0..Most]
      BY <2>1, <2>4 DEF Types
  <2>7. QED
      BY <2>1, <2>3, <2>5, <2>6 DEF Types, TypeOK, Points, Most
<1>3. QED
    BY <1>2, SinkInvariant, PTL

(* "Bounded growth beats silent inflation" (logsink.go): whatever fails    *)
(* and whenever a process dies and starts again, no file of the log        *)
(* exceeds the limit as long as invocations do not overlap.                *)
THEOREM GrowthIsBounded == Spec => []Bounded
<1>1. IInv => Bounded
    BY DEF IInv, Alone, Fitting, Bounded
<1>2. QED
    BY <1>1, SinkInvariant, PTL

(* Between two records the sink that Write uses is on the live file: a     *)
(* failed rotation or reopen sends nothing into an archive or a file that  *)
(* has lost its name.                                                      *)
THEOREM RecordsReachTheLog == Spec => []OnLiveFile
<1>1. IInv => OnLiveFile
    BY DEF IInv, Alone, Solo, OnLiveFile
<1>2. QED
    BY <1>1, SinkInvariant, PTL

-----------------------------------------------------------------------------
(* Induction over the slots                                                *)

(* A set of numbers that is not empty has a smallest element ...           *)
LEMMA Smallest ==
  ASSUME NEW T \in SUBSET Nat, T # {}
  PROVE  \E x \in T : \A y \in T : x <= y
<1>1. IsWellFoundedOn(OpToRel(<, Nat), Nat)
    BY NatLessThanWellFounded
<1> DEFINE R == OpToRel(<, Nat)
<1>2. \A x, y \in Nat : x < y => <<x, y>> \in R
    BY DEF OpToRel
<1>3. IsWellFoundedOn(R, Nat)
    BY <1>1
<1> HIDE DEF R
<1>4. PICK x \in T : \A y \in T : ~(<<y, x>> \in R)
    BY <1>3, WFMin
<1>5. ASSUME NEW y \in T PROVE x <= y
  <2>1. x \in Nat /\ y \in Nat
      OBVIOUS
  <2>2. ~(y < x)
      BY <1>2, <1>4, <2>1
  <2>3. QED
      BY <2>1, <2>2
<1>6. QED
    BY <1>5

(* ... which is induction, for sets of numbers instead of predicates.      *)
LEMMA Induction ==
  ASSUME NEW S, 0 \in S, \A k \in Nat : k \in S => k + 1 \in S
  PROVE  Nat \subseteq S
<1>1. SUFFICES ASSUME Nat \ S # {} PROVE FALSE
    OBVIOUS
<1>2. PICK m \in Nat \ S : \A y \in Nat \ S : m <= y
    BY <1>1, Smallest
<1>3. m # 0 /\ m - 1 \in Nat /\ m - 1 \in S
    BY <1>2
<1>4. m - 1 + 1 = m
    BY <1>2
<1>5. QED
    BY <1>2, <1>3, <1>4

-----------------------------------------------------------------------------
(* The log as a chain of files                                             *)

(* f[i] is what the files from the oldest to i have in them.               *)
Chain(s, f) ==
  /\ f \in [Slots -> Text] /\ f[keep] = s[keep]
  /\ \A i \in 0..keep - 1 : f[i] = f[i + 1] \o s[i]

(* The same for the k + 1 oldest files.                                    *)
Oldest(s, k, f) ==
  /\ f \in [keep - k..keep -> Text] /\ f[keep] = s[keep]
  /\ \A i \in keep - k..keep - 1 : f[i] = f[i + 1] \o s[i]

LEMMA TextConcat ==
  ASSUME NEW c \in Text, NEW d \in Text
  PROVE  /\ c \o d \in Text /\ Len(c \o d) = Len(c) + Len(d)
         /\ \A i \in 1..Len(c) : (c \o d)[i] = c[i]
         /\ \A i \in 1..Len(d) : (c \o d)[Len(c) + i] = d[i]
         /\ c \o <<>> = c /\ <<>> \o c = c
         /\ c \o d = <<>> => c = <<>> /\ d = <<>>
<1> DEFINE S == 0..MaxRecords
<1>1. c \in Seq(S) /\ d \in Seq(S) /\ Len(c) \in Nat /\ Len(d) \in Nat
    BY TextFacts DEF Text
<1>2. /\ c \o d \in Seq(S) /\ Len(c \o d) = Len(c) + Len(d)
      /\ \A i \in 1..Len(c) + Len(d) : (c \o d)[i] = IF i <= Len(c) THEN c[i] ELSE d[i - Len(c)]
    BY <1>1, ConcatProperties
<1>3. c \o <<>> = c /\ <<>> \o c = c
    BY <1>1, ConcatEmptySeq
<1>4. c \o d = <<>> => c = <<>> /\ d = <<>>
    BY <1>1, ConcatEqualIffEmpty
<1>5. \A i \in 1..Len(c) : (c \o d)[i] = c[i]
    BY <1>1, <1>2
<1>6. ASSUME NEW i \in 1..Len(d) PROVE (c \o d)[Len(c) + i] = d[i]
  <2>1. /\ Len(c) + i \in 1..Len(c) + Len(d) /\ ~(Len(c) + i <= Len(c))
        /\ Len(c) + i - Len(c) = i
      BY <1>1
  <2>2. QED
      BY <1>2, <2>1
<1>7. QED
    BY <1>2, <1>3, <1>4, <1>5, <1>6 DEF Text

(* Induction from a slot down to the live file.                            *)
LEMMA Downward ==
  ASSUME NEW m \in Slots, NEW S, m \in S, \A i \in 0..keep - 1 : i < m /\ i + 1 \in S => i \in S
  PROVE  0..m \subseteq S
<1> DEFINE D == {d \in Nat : d <= m => m - d \in S}
<1>0. m \in Nat /\ m <= keep /\ keep \in Nat
    BY Sizes DEF Slots
<1>1. 0 \in D
    BY <1>0
<1>2. ASSUME NEW d \in Nat, d \in D PROVE d + 1 \in D
  <2>1. SUFFICES ASSUME d + 1 <= m PROVE m - (d + 1) \in S
      OBVIOUS
  <2>2. /\ m - (d + 1) \in 0..keep - 1 /\ m - (d + 1) < m /\ m - (d + 1) + 1 = m - d
        /\ d <= m
      BY <1>0, <2>1
  <2>3. m - d \in S
      BY <1>2, <2>2
  <2>4. QED
      BY <2>2, <2>3
<1> HIDE DEF D
<1>3. Nat \subseteq D
    BY <1>1, <1>2, Induction
<1>4. ASSUME NEW i \in 0..m PROVE i \in S
  <2>1. m - i \in Nat /\ m - i <= m /\ m - (m - i) = i
      BY <1>0
  <2>2. QED
      BY <1>3, <2>1 DEF D
<1>5. QED
    BY <1>4

LEMMA ChainExists == ASSUME NEW s \in [Slots -> Text] PROVE \E f : Chain(s, f)
<1> DEFINE S == {k \in Nat : k <= keep => \E f : Oldest(s, k, f)}
<1>0. keep \in Nat /\ keep \in Slots
    BY Sizes, SlotFacts
<1>1. 0 \in S
  <2> DEFINE f == [i \in keep - 0..keep |-> s[keep]]
  <2>1. s[keep] \in Text /\ keep - 0 = keep /\ keep \in keep - 0..keep
      BY <1>0
  <2>2. f \in [keep - 0..keep -> Text] /\ f[keep] = s[keep]
      BY <2>1
  <2>3. \A i \in keep - 0..keep - 1 : FALSE
      BY <1>0
  <2> HIDE DEF f
  <2>4. Oldest(s, 0, f)
      BY <2>2, <2>3 DEF Oldest
  <2>5. QED
      BY <2>4
<1>2. ASSUME NEW k \in Nat, k \in S PROVE k + 1 \in S
  <2>1. SUFFICES ASSUME k + 1 <= keep PROVE \E f : Oldest(s, k + 1, f)
      OBVIOUS
  <2>2. PICK f : Oldest(s, k, f)
      BY <1>0, <1>2, <2>1
  <2>3. PICK m \in 0..keep - 1 : m = keep - (k + 1) /\ m + 1 = keep - k
      BY <1>0, <2>1
  <2> DEFINE g == [i \in m..keep |-> IF i = m THEN f[m + 1] \o s[m] ELSE f[i]]
  <2>4. /\ m \in Nat /\ m + 1 <= keep /\ m \in Slots /\ m \in m..keep /\ m + 1 \in m + 1..keep
        /\ \A i \in m..keep : i # m => i \in m + 1..keep
        /\ \A i \in m + 1..keep : i \in m..keep /\ i # m
      BY <1>0, <2>3 DEF Slots
  <2>5. /\ f \in [m + 1..keep -> Text] /\ f[keep] = s[keep]
        /\ \A i \in m + 1..keep - 1 : f[i] = f[i + 1] \o s[i]
      BY <2>2, <2>3 DEF Oldest
  <2>6. f[m + 1] \o s[m] \in Text
      BY <2>4, <2>5, TextConcat
  <2>7. g \in [m..keep -> Text] /\ g[m] = f[m + 1] \o s[m] /\ \A i \in m + 1..keep : g[i] = f[i]
      BY <2>4, <2>5, <2>6
  <2> HIDE DEF g
  <2>8. g[keep] = s[keep]
      BY <1>0, <2>4, <2>5, <2>7
  <2>9. ASSUME NEW i \in m..keep - 1 PROVE g[i] = g[i + 1] \o s[i]
    <3>1. i + 1 \in m + 1..keep /\ (i # m => i \in m + 1..keep /\ i \in m + 1..keep - 1)
        BY <1>0, <2>4
    <3>2. QED
        BY <2>5, <2>7, <3>1
  <2>10. Oldest(s, k + 1, g)
      BY <2>3, <2>7, <2>8, <2>9 DEF Oldest
  <2>11. QED
      BY <2>10
<1> HIDE DEF S
<1>3. Nat \subseteq S
    BY <1>1, <1>2, Induction
<1>4. PICK f : Oldest(s, keep, f)
    BY <1>0, <1>3 DEF S
<1>5. keep - keep = 0
    BY <1>0
<1>6. Chain(s, f)
    BY <1>4, <1>5 DEF Oldest, Chain, Slots
<1>7. QED
    BY <1>6

(* Chronicle is what its recursive definition says.                        *)
View == [i \in Slots |-> Slot(i)]

LEMMA ViewFacts ==
  ASSUME Types
  PROVE  /\ View \in [Slots -> Text]
         /\ \A i \in Slots : View[i] = IF dir[i] = Missing THEN <<>> ELSE dir[i]
BY MissingFacts DEF Types, View, Slot

LEMMA ChronicleIsChain == Types => Chain(View, Chronicle)
<1> SUFFICES ASSUME Types PROVE Chain(View, Chronicle)
    OBVIOUS
<1> DEFINE Is(f) == f = [i \in Slots |-> IF i = keep THEN Slot(i) ELSE f[i + 1] \o Slot(i)]
<1>0. View \in [Slots -> Text] /\ \A i \in Slots : View[i] = Slot(i) /\ Slot(i) \in Text
    BY ViewFacts DEF View
<1>s. /\ keep \in Slots /\ \A i \in Slots : i # keep => i \in 0..keep - 1
      /\ \A i \in 0..keep - 1 : i # keep /\ i \in Slots /\ i + 1 \in Slots
    BY Sizes, SlotFacts DEF Slots
<1>1. PICK f : Chain(View, f)
    BY <1>0, ChainExists
<1>2. Is(f)
  <2>1. \A i \in Slots : f[i] = IF i = keep THEN Slot(i) ELSE f[i + 1] \o Slot(i)
      BY <1>0, <1>1, <1>s DEF Chain
  <2>2. f = [i \in Slots |-> f[i]]
      BY <1>1 DEF Chain
  <2>3. QED
      BY <2>1, <2>2
<1>3. Chronicle = CHOOSE g : Is(g)
    BY DEF Chronicle
<1> HIDE DEF Is
<1>4. Is(Chronicle)
    BY <1>2, <1>3
<1>5. Chronicle = [i \in Slots |-> IF i = keep THEN Slot(i) ELSE Chronicle[i + 1] \o Slot(i)]
    BY <1>4 DEF Is
<1>6. \A i \in Slots : Chronicle[i] = IF i = keep THEN Slot(i) ELSE Chronicle[i + 1] \o Slot(i)
    BY <1>5
<1>7. /\ Chronicle[keep] = View[keep]
      /\ \A i \in 0..keep - 1 : Chronicle[i] = Chronicle[i + 1] \o View[i]
    BY <1>0, <1>6, <1>s
<1> HIDE <1>5
<1>8. \A i \in Slots : Chronicle[i] \in Text
  <2> DEFINE S == {i \in Slots : Chronicle[i] \in Text}
  <2>1. keep \in S
      BY <1>0, <1>7, <1>s
  <2>2. ASSUME NEW i \in 0..keep - 1, i < keep, i + 1 \in S PROVE i \in S
    <3>1. Chronicle[i + 1] \in Text /\ View[i] \in Text /\ i \in Slots
        BY <1>0, <1>s, <2>2
    <3>2. Chronicle[i + 1] \o View[i] \in Text
        BY <3>1, TextConcat
    <3>3. Chronicle[i] = Chronicle[i + 1] \o View[i]
        BY <1>7
    <3>4. QED
        BY <3>1, <3>2, <3>3
  <2> HIDE DEF S
  <2>3. 0..keep \subseteq S
      BY <1>s, <2>1, <2>2, Downward
  <2>4. QED
      BY <2>3 DEF S, Slots
<1>9. Chronicle \in [Slots -> Text]
  <2>1. Chronicle = [i \in Slots |-> Chronicle[i]]
      BY <1>5
  <2>2. QED
      BY <1>8, <2>1
<1>10. QED
    BY <1>7, <1>9 DEF Chain

LEMMA TextAssociative ==
  ASSUME NEW c \in Text, NEW d \in Text, NEW e \in Text PROVE (c \o d) \o e = c \o (d \o e)
<1>1. c \in Seq(0..MaxRecords) /\ d \in Seq(0..MaxRecords) /\ e \in Seq(0..MaxRecords)
    BY DEF Text
<1>2. QED
    BY <1>1, ConcatAssociative

(* What a change of the files does to what they read as.                   *)
Both(s, t, f, g) == /\ s \in [Slots -> Text] /\ Chain(s, f)
                    /\ t \in [Slots -> Text] /\ Chain(t, g)

LEMMA ChainAbove ==
  ASSUME NEW s, NEW t, NEW f, NEW g, Both(s, t, f, g), NEW m \in Slots,
         \A i \in Slots : i >= m => s[i] = t[i]
  PROVE  \A i \in Slots : i >= m => f[i] = g[i]
<1>c. /\ s \in [Slots -> Text] /\ Chain(s, f)
      /\ t \in [Slots -> Text] /\ Chain(t, g)
    BY DEF Both
<1> USE <1>c
<1> DEFINE S == {i \in Slots : i >= m => f[i] = g[i]}
<1>0. keep \in Slots /\ keep \in Nat /\ keep >= m /\ \A i \in Slots : i \in Nat
    BY Sizes, SlotFacts DEF Slots
<1>1. keep \in S
    BY <1>0 DEF Chain
<1>2. ASSUME NEW i \in 0..keep - 1, i < keep, i + 1 \in S PROVE i \in S
  <2>1. i \in Slots /\ (i >= m => i + 1 >= m)
      BY <1>0, SlotFacts
  <2>2. f[i] = f[i + 1] \o s[i] /\ g[i] = g[i + 1] \o t[i]
      BY DEF Chain
  <2>3. QED
      BY <1>2, <2>1, <2>2
<1> HIDE DEF S
<1>3. 0..keep \subseteq S
    BY <1>0, <1>1, <1>2, Downward
<1>4. QED
    BY <1>3 DEF S, Slots

LEMMA ChainBelow ==
  ASSUME NEW s, NEW t, NEW f, NEW g, Both(s, t, f, g), NEW m \in Slots, f[m] = g[m],
         \A i \in Slots : i < m => s[i] = t[i]
  PROVE  f[0] = g[0]
<1>c. /\ s \in [Slots -> Text] /\ Chain(s, f)
      /\ t \in [Slots -> Text] /\ Chain(t, g)
    BY DEF Both
<1> USE <1>c
<1> DEFINE S == {i \in Slots : f[i] = g[i]}
<1>1. m \in S
    OBVIOUS
<1>2. ASSUME NEW i \in 0..keep - 1, i < m, i + 1 \in S PROVE i \in S
  <2>1. i \in Slots /\ s[i] = t[i] /\ f[i + 1] = g[i + 1]
      BY <1>2, SlotFacts
  <2>2. f[i] = f[i + 1] \o s[i] /\ g[i] = g[i + 1] \o t[i]
      BY DEF Chain
  <2>3. QED
      BY <2>1, <2>2
<1> HIDE DEF S
<1>3. 0..m \subseteq S
    BY <1>1, <1>2, Downward
<1>4. 0 \in 0..m
    BY SlotFacts
<1>5. QED
    BY <1>3, <1>4 DEF S

(* Slot keep of s is empty in t, and nothing else differs.                 *)
Emptied(s, t) == /\ t[keep] = <<>>
                 /\ \A i \in Slots : i # keep => t[i] = s[i]

LEMMA ChainOldest ==
  ASSUME NEW s, NEW t, NEW f, NEW g, Both(s, t, f, g), Emptied(s, t)
  PROVE  f[0] = s[keep] \o g[0]
<1>c. /\ s \in [Slots -> Text] /\ Chain(s, f)
      /\ t \in [Slots -> Text] /\ Chain(t, g)
    BY DEF Both
<1>d. t[keep] = <<>> /\ \A i \in Slots : i # keep => t[i] = s[i]
    BY DEF Emptied
<1> USE <1>c, <1>d
<1> DEFINE S == {i \in Slots : f[i] = s[keep] \o g[i]}
<1>0. keep \in Slots /\ s[keep] \in Text /\ \A i \in 0..keep - 1 : i # keep /\ i \in Slots
    BY Sizes, SlotFacts
<1>1. keep \in S
  <2>1. f[keep] = s[keep] /\ g[keep] = <<>>
      BY DEF Chain
  <2>2. s[keep] \o <<>> = s[keep]
      BY <1>0, TextConcat
  <2>3. QED
      BY <1>0, <2>1, <2>2
<1>2. ASSUME NEW i \in 0..keep - 1, i < keep, i + 1 \in S PROVE i \in S
  <2>1. f[i] = f[i + 1] \o s[i] /\ g[i] = g[i + 1] \o t[i] /\ t[i] = s[i]
      BY <1>0 DEF Chain
  <2>2. s[i] \in Text /\ g[i + 1] \in Text
      BY <1>0, SlotFacts DEF Chain
  <2>3. (s[keep] \o g[i + 1]) \o s[i] = s[keep] \o (g[i + 1] \o s[i])
      BY <1>0, <2>2, TextAssociative
  <2>4. f[i + 1] = s[keep] \o g[i + 1]
      BY <1>2
  <2>5. f[i] = s[keep] \o g[i]
      BY <2>1, <2>3, <2>4
  <2>6. QED
      BY <1>0, <2>5
<1> HIDE DEF S
<1>3. 0..keep \subseteq S
    BY <1>0, <1>1, <1>2, Downward
<1>4. QED
    BY <1>3, SlotFacts DEF S, Slots

LEMMA ChainShift ==
  ASSUME NEW s, NEW t, NEW f, NEW g, Both(s, t, f, g), NEW i \in 0..keep - 1,
         s[i + 1] = <<>>, t[i + 1] = s[i], t[i] = <<>>,
         \A j \in Slots : j # i /\ j # i + 1 => t[j] = s[j]
  PROVE  f[0] = g[0]
<1>b. Both(s, t, f, g)
    OBVIOUS
<1>c. /\ s \in [Slots -> Text] /\ Chain(s, f)
      /\ t \in [Slots -> Text] /\ Chain(t, g)
    BY DEF Both
<1> USE <1>c
<1>0. /\ i \in Slots /\ i + 1 \in Slots /\ s[i] \in Text /\ keep \in Nat /\ i \in Nat
      /\ f[i + 1] \in Text /\ g[i + 1] \in Text
    BY Sizes, SlotFacts DEF Chain
<1>1. f[i] = f[i + 1] \o s[i] /\ g[i] = g[i + 1]
  <2>1. g[i] = g[i + 1] \o <<>>
      BY DEF Chain
  <2>2. QED
      BY <1>0, <2>1, TextConcat DEF Chain
<1>2. g[i + 1] = f[i + 1] \o s[i]
  <2>1. CASE i + 1 = keep
    <3>1. f[i + 1] = <<>> /\ g[i + 1] = s[i]
        BY <2>1 DEF Chain
    <3>2. <<>> \o s[i] = s[i]
        BY <1>0, TextConcat
    <3>3. QED
        BY <3>1, <3>2
  <2>2. CASE i + 1 # keep
    <3>1. PICK m \in Slots : m = i + 1 + 1 /\ i + 1 \in 0..keep - 1
        BY <1>0, <2>2 DEF Slots
    <3>2. \A j \in Slots : j >= m => s[j] = t[j]
        BY <1>0, <3>1, SlotFacts
    <3>3. \A j \in Slots : j >= m => f[j] = g[j]
        BY <1>b, <3>2, ChainAbove
    <3>4. f[m] = g[m] /\ f[m] \in Text
        BY <3>1, <3>3, SlotFacts DEF Chain
    <3>5. f[i + 1] = f[m] \o <<>> /\ g[i + 1] = g[m] \o s[i]
        BY <3>1 DEF Chain
    <3>6. f[i + 1] = f[m]
        BY <3>4, <3>5, TextConcat
    <3>7. QED
        BY <3>4, <3>5, <3>6
  <2>3. QED
      BY <2>1, <2>2
<1>3. f[i] = g[i]
    BY <1>1, <1>2
<1>4. \A j \in Slots : j < i => s[j] = t[j]
    BY <1>0, SlotFacts
<1>5. QED
    BY <1>0, <1>b, <1>3, <1>4, ChainBelow

LEMMA ChainEmpty ==
  ASSUME NEW s \in [Slots -> Text], NEW f, Chain(s, f), \A i \in Slots : s[i] = <<>>
  PROVE  f[0] = <<>>
<1> DEFINE S == {i \in Slots : f[i] = <<>>}
<1>0. keep \in Slots /\ <<>> \in Text /\ \A i \in 0..keep - 1 : i \in Slots
    BY MissingFacts, SlotFacts
<1>1. keep \in S
    BY <1>0 DEF Chain
<1>2. ASSUME NEW i \in 0..keep - 1, i < keep, i + 1 \in S PROVE i \in S
  <2>1. f[i] = f[i + 1] \o s[i] /\ s[i] = <<>> /\ f[i + 1] = <<>>
      BY <1>0, <1>2 DEF Chain
  <2>2. <<>> \o <<>> = <<>>
      BY <1>0, TextConcat
  <2>3. QED
      BY <1>0, <2>1, <2>2
<1> HIDE DEF S
<1>3. 0..keep \subseteq S
    BY <1>0, <1>1, <1>2, Downward
<1>4. QED
    BY <1>3, SlotFacts DEF S, Slots

(* The same for the log of this state and of the next.                     *)
Told == Chain(View, Chronicle)

LEMMA ToldThen == Types' => Told'
<1>1. Types => Told
    BY ChronicleIsChain DEF Told
<1>2. QED
    BY <1>1, PTL

LEMMA LogThen == ASSUME Types' PROVE Chain(View', Chronicle')
BY ToldThen DEF Told

LEMMA LogText == Types => Log \in Text
BY ChronicleIsChain, SlotFacts DEF Chain, Log

LEMMA LogTextThen == ASSUME Types' PROVE Log' \in Text
BY LogThen, SlotFacts DEF Chain, Log

LEMMA ViewThen ==
  ASSUME Types'
  PROVE  /\ View' \in [Slots -> Text]
         /\ \A i \in Slots : View'[i] = IF dir'[i] = Missing THEN <<>> ELSE dir'[i]
BY MissingFacts DEF Types, View, Slot

LEMMA LogSame == ASSUME Types, Types', UNCHANGED dir PROVE Log' = Log
<1>1. View \in [Slots -> Text] /\ View' \in [Slots -> Text] /\ \A i \in Slots : View[i] = View'[i]
    BY ViewFacts, ViewThen
<1>2. Chain(View, Chronicle) /\ Chain(View', Chronicle')
    BY ChronicleIsChain, LogThen
<1>3. PICK s, t, f, g : s = View /\ t = View' /\ f = Chronicle /\ g = Chronicle'
    BY <1>1
<1>b. Both(s, t, f, g)
    BY <1>1, <1>2, <1>3 DEF Both
<1>4. \A i \in Slots : i >= 0 => f[i] = g[i]
    BY <1>1, <1>3, <1>b, SlotFacts, ChainAbove
<1>5. QED
    BY <1>3, <1>4, SlotFacts DEF Log

LEMMA LogLive ==
  ASSUME Types, Types', \A i \in Slots \ {0} : dir'[i] = dir[i]
  PROVE  \E x \in Text : Log = x \o Slot(0) /\ Log' = x \o Slot(0)'
<1>1. /\ View \in [Slots -> Text] /\ View' \in [Slots -> Text]
      /\ \A i \in Slots \ {0} : View'[i] = View[i]
    BY ViewFacts, ViewThen
<1>2. Chain(View, Chronicle) /\ Chain(View', Chronicle')
    BY ChronicleIsChain, LogThen
<1>3. PICK s, t, f, g : s = View /\ t = View' /\ f = Chronicle /\ g = Chronicle'
    BY <1>1
<1>b. Both(s, t, f, g)
    BY <1>1, <1>2, <1>3 DEF Both
<1>4. /\ s \in [Slots -> Text] /\ t \in [Slots -> Text] /\ Chain(s, f) /\ Chain(t, g)
      /\ \A i \in Slots : i >= 1 => s[i] = t[i]
    BY <1>1, <1>2, <1>3, SlotFacts
<1> HIDE <1>1, <1>2
<1>5. \A i \in Slots : i >= 1 => f[i] = g[i]
    BY <1>4, <1>b, SlotFacts, ChainAbove
<1>6. f[1] = g[1] /\ f[1] \in Text
    BY <1>4, <1>5, SlotFacts DEF Chain
<1>7. f[0] = f[1] \o s[0] /\ g[0] = f[1] \o t[0]
  <2>1. 0 \in 0..keep - 1 /\ 0 + 1 = 1
      BY Sizes
  <2>2. \A i \in 0..keep - 1 : f[i] = f[i + 1] \o s[i] /\ g[i] = g[i + 1] \o t[i]
      BY <1>4 DEF Chain
  <2>3. f[0] = f[0 + 1] \o s[0] /\ g[0] = g[0 + 1] \o t[0]
      BY <2>1, <2>2
  <2>4. QED
      BY <1>6, <2>1, <2>3
<1>8. s[0] = Slot(0) /\ t[0] = Slot(0)'
  <2>1. View[0] = Slot(0)
      BY SlotFacts, ViewFacts DEF Slot
  <2>2. View'[0] = Slot(0)'
      BY SlotFacts, ViewThen DEF Slot
  <2>3. QED
      BY <1>3, <2>1, <2>2
<1>9. QED
    BY <1>3, <1>6, <1>7, <1>8 DEF Log

LEMMA LogOldest ==
  ASSUME Types, Types', dir'[keep] = Missing, \A i \in Slots \ {keep} : dir'[i] = dir[i]
  PROVE  Log = Slot(keep) \o Log'
<1>1. /\ View \in [Slots -> Text] /\ View' \in [Slots -> Text]
      /\ View'[keep] = <<>> /\ \A i \in Slots \ {keep} : View'[i] = View[i]
    BY SlotFacts, ViewFacts, ViewThen
<1>2. Chain(View, Chronicle) /\ Chain(View', Chronicle')
    BY ChronicleIsChain, LogThen
<1>3. PICK s, t, f, g : s = View /\ t = View' /\ f = Chronicle /\ g = Chronicle'
    BY <1>1
<1>b. Both(s, t, f, g)
    BY <1>1, <1>2, <1>3 DEF Both
<1>4. f[0] = s[keep] \o g[0]
  <2>1. Emptied(s, t)
      BY <1>1, <1>3 DEF Emptied
  <2>2. QED
      BY <1>b, <2>1, ChainOldest
<1>5. s[keep] = Slot(keep)
    BY <1>3, SlotFacts DEF View
<1>6. QED
    BY <1>3, <1>4, <1>5 DEF Log

LEMMA LogShift ==
  ASSUME Types, Types', NEW i \in 0..keep - 1, dir[i + 1] = Missing,
         dir'[i + 1] = dir[i], dir'[i] = Missing, \A j \in Slots \ {i, i + 1} : dir'[j] = dir[j]
  PROVE  Log' = Log
<1>0. i \in Slots /\ i + 1 \in Slots /\ i # i + 1
    BY SlotFacts
<1>1. /\ View \in [Slots -> Text] /\ View' \in [Slots -> Text]
      /\ View[i + 1] = <<>> /\ View'[i + 1] = View[i] /\ View'[i] = <<>>
      /\ \A j \in Slots \ {i, i + 1} : View'[j] = View[j]
    BY <1>0, ViewFacts, ViewThen
<1>2. Chain(View, Chronicle) /\ Chain(View', Chronicle')
    BY ChronicleIsChain, LogThen
<1>3. PICK s, t, f, g : s = View /\ t = View' /\ f = Chronicle /\ g = Chronicle'
    BY <1>1
<1>b. Both(s, t, f, g)
    BY <1>1, <1>2, <1>3 DEF Both
<1>4. f[0] = g[0]
  <2>1. /\ s[i + 1] = <<>> /\ t[i + 1] = s[i] /\ t[i] = <<>>
        /\ \A j \in Slots : j # i /\ j # i + 1 => t[j] = s[j]
      BY <1>1, <1>3
  <2>2. QED
      BY <1>b, <2>1, ChainShift
<1>5. QED
    BY <1>3, <1>4 DEF Log

-----------------------------------------------------------------------------
(* What a step does to the log                                             *)

LEMMA WriteNumbers ==
  ASSUME Types, NEW p \in Procs, Write(p)
  PROVE  /\ last' = last + 1 /\ \A i \in 1..Len(record'[p]) : record'[p][i] = last'
         /\ pc'[p] = "remove" => n[p] > 0
<1>1. PICK len \in Lengths :
        /\ record' = [record EXCEPT ![p] = [i \in 1..len |-> last']]
        /\ n[p] + len > maxSize \/ Goto(p, "idle", "put")
    BY DEF Write
<1>2. len \in Nat /\ len <= maxSize /\ maxSize \in Nat /\ last' = last + 1 /\ n[p] \in Nat
    BY Sizes DEF Write, Types
<1> DEFINE s == [i \in 1..len |-> last']
<1>3. Len(s) = len /\ \A i \in 1..len : s[i] = last'
    BY <1>2
<1> HIDE DEF s
<1>4. record'[p] = s
    BY <1>1 DEF s, Types
<1>5. pc'[p] = "remove" => n[p] > 0
  <2>1. Goto(p, "idle", "put") => pc'[p] = "put"
      BY DEF Goto, Types
  <2>2. n[p] + len > maxSize => n[p] > 0
      BY <1>2
  <2>3. QED
      BY <1>1, <2>1, <2>2
<1>6. QED
    BY <1>2, <1>3, <1>4, <1>5

(* The steps of a rotation; whatever fails goes on to truncate.            *)
LEMMA RotateSteps ==
  ASSUME Types, NEW p \in Procs, rotate(p)
  PROVE  \/ /\ pc'[p] = "truncate" /\ UNCHANGED dir
            /\ Fails \/ (pc[p] = "shift" /\ dir[0] = Missing)
         \/ /\ pc[p] = "remove" /\ pc'[p] = "shift" /\ Remove(keep) /\ slot'[p] = keep - 1
         \/ /\ pc[p] = "shift" /\ pc'[p] = "shift" /\ Rename(slot[p], slot[p] + 1)
            /\ slot[p] > 0 /\ slot'[p] = slot[p] - 1
         \/ /\ pc[p] = "shift" /\ pc'[p] = "append" /\ Rename(0, 0 + 1)
            /\ slot[p] = 0 /\ dir[0] # Missing
<1> USE DEF Step, Types
<1>0. {"shift", "truncate", "append"} \subseteq Points
    BY DEF Points
<1>1. 0 + 1 = 1 /\ slot[p] \in 0..keep - 1
    OBVIOUS
<1>2. CASE RemoveOldest(p)
  <2>1. \/ Goto(p, "remove", "shift") /\ Remove(keep)
        \/ Goto(p, "remove", "truncate") /\ UNCHANGED <<dir, fd>> /\ Fails
      BY <1>2 DEF RemoveOldest
  <2>2. slot'[p] = keep - 1
      BY <1>2 DEF RemoveOldest
  <2>3. QED
      BY <1>0, <2>1, <2>2, GotoFacts
<1>3. CASE Shift(p)
  <2>1. \/ Goto(p, "shift", "shift") /\ Rename(slot[p], slot[p] + 1)
        \/ Goto(p, "shift", "truncate") /\ UNCHANGED <<dir, fd>> /\ Fails
      BY <1>3 DEF Shift
  <2>2. slot[p] > 0 /\ slot'[p] = slot[p] - 1
      BY <1>3 DEF Shift
  <2>3. QED
      BY <1>0, <2>1, <2>2, GotoFacts
<1>4. CASE Archive(p)
  <2>1. \/ Goto(p, "shift", "append") /\ dir[0] # Missing /\ Rename(0, 0 + 1)
        \/ /\ Goto(p, "shift", "truncate") /\ UNCHANGED <<dir, fd>>
           /\ dir[0] = Missing \/ Fails
      BY <1>1, <1>4 DEF Archive
  <2>2. slot[p] = 0
      BY <1>4 DEF Archive
  <2>3. QED
      BY <1>0, <2>1, <2>2, GotoFacts
<1>5. QED
    BY <1>2, <1>3, <1>4 DEF rotate

(* A write at the end of a file appends to it.                             *)
LEMMA WrittenAtEnd ==
  ASSUME NEW c \in Text, NEW s \in Text PROVE Written(c, Len(c), s) = c \o s
<1>1. Len(c) \in Nat /\ Len(s) \in Nat
    BY TextFacts
<1>2. (IF Len(c) + Len(s) > Len(c) THEN Len(c) + Len(s) ELSE Len(c)) = Len(c) + Len(s)
    BY <1>1
<1>3. Written(c, Len(c), s) =
        [i \in 1..Len(c) + Len(s) |-> IF i \in Len(c) + 1..Len(c) + Len(s) THEN s[i - Len(c)]
                                      ELSE IF i <= Len(c) THEN c[i] ELSE 0]
    BY <1>2 DEF Written
<1>4. c \o s \in Text /\ Len(c \o s) = Len(c) + Len(s)
    BY TextConcat
<1>5. c \o s = [i \in 1..Len(c) + Len(s) |-> (c \o s)[i]]
    BY <1>4, LenProperties DEF Text
<1>6. ASSUME NEW i \in 1..Len(c) + Len(s)
      PROVE  (c \o s)[i] = IF i \in Len(c) + 1..Len(c) + Len(s) THEN s[i - Len(c)]
                           ELSE IF i <= Len(c) THEN c[i] ELSE 0
  <2>1. CASE i <= Len(c)
    <3>1. i \in 1..Len(c) /\ ~(i \in Len(c) + 1..Len(c) + Len(s))
        BY <1>1, <2>1
    <3>2. (c \o s)[i] = c[i]
        BY <3>1, TextConcat
    <3>3. QED
        BY <2>1, <3>1, <3>2
  <2>2. CASE ~(i <= Len(c))
    <3>1. /\ i - Len(c) \in 1..Len(s) /\ i \in Len(c) + 1..Len(c) + Len(s)
          /\ Len(c) + (i - Len(c)) = i
        BY <1>1, <2>2
    <3>2. (c \o s)[Len(c) + (i - Len(c))] = s[i - Len(c)]
        BY <3>1, TextConcat
    <3>3. QED
        BY <3>1, <3>2
  <2>3. QED
      BY <2>1, <2>2
<1>7. QED
    BY <1>3, <1>5, <1>6

(* Opening the live file changes the log only by truncating it.            *)
LEMMA LogOpened ==
  ASSUME Types, Types', NEW p \in Procs, NEW t \in BOOLEAN, Opened(p, t)
  PROVE  /\ \E x \in Text : Log = Log' \o x
         /\ ~t \/ dir[0] = Missing => Log' = Log
<1>1. /\ dir'[0] # Missing /\ \A i \in Slots \ {0} : dir'[i] = dir[i]
      /\ dir'[0] = (IF t \/ dir[0] = Missing THEN <<>> ELSE dir[0])
    BY OpenedFacts
<1>2. PICK x \in Text : Log = x \o Slot(0) /\ Log' = x \o Slot(0)'
    BY <1>1, LogLive
<1>3. Slot(0)' = dir'[0] /\ (dir[0] = Missing => Slot(0) = <<>>)
      /\ (dir[0] # Missing => Slot(0) = dir[0])
    BY <1>1 DEF Slot
<1>4. Slot(0) \in Text /\ x \o <<>> = x
    BY SlotFacts, MissingFacts, TextConcat DEF Slot, Types
<1>5. CASE t \/ dir[0] = Missing
  <2>1. Log' = x /\ Log = Log' \o Slot(0)
      BY <1>1, <1>2, <1>3, <1>4, <1>5
  <2>2. dir[0] = Missing => Log = x
      BY <1>2, <1>3, <1>4
  <2>3. \E y \in Text : Log = Log' \o y
      BY <1>4, <2>1
  <2>4. ~t => dir[0] = Missing
      BY <1>5
  <2>5. QED
      BY <2>1, <2>2, <2>3, <2>4
<1>6. CASE ~t /\ dir[0] # Missing
  <2>1. Log' = Log
      BY <1>1, <1>2, <1>3, <1>6
  <2>2. Log \in Text /\ Log \o <<>> = Log /\ <<>> \in Text
      BY LogText, MissingFacts, TextConcat
  <2>3. Log = Log' \o <<>>
      BY <2>1, <2>2
  <2>4. \E y \in Text : Log = Log' \o y
      BY <2>2, <2>3
  <2>5. QED
      BY <2>1, <2>4
<1>7. QED
    BY <1>5, <1>6

(* A write of the only invocation appends its record to the log.           *)
LEMMA LogPut ==
  ASSUME Shape, NEW p \in Procs, Solo(p), pc[p] = "put", fd[p] # Closed, Writes(p), Types'
  PROVE  Log' = Log \o record[p]
<1>1. /\ Types /\ fd[p] = 0 /\ n[p] = Len(dir[0]) /\ dir[0] # Missing
      /\ record[p] \in Text /\ dir[0] \in Text /\ Offset(p) = Len(dir[0])
    BY SlotFacts DEF Shape, Types, Solo, Files, Offset
<1>2. dir'[0] # Missing /\ \A i \in Slots \ {0} : dir'[i] = dir[i]
    BY <1>1, SlotFacts, WriteFacts
<1>3. dir'[0] = dir[0] \o record[p]
  <2>1. dir'[0] = Written(dir[0], Len(dir[0]), record[p])
      BY <1>1, SlotFacts DEF Writes
  <2>2. QED
      BY <1>1, <2>1, WrittenAtEnd
<1>4. PICK x \in Text : Log = x \o Slot(0) /\ Log' = x \o Slot(0)'
    BY <1>1, <1>2, LogLive
<1>5. Slot(0) = dir[0] /\ Slot(0)' = dir[0] \o record[p]
    BY <1>1, <1>2, <1>3 DEF Slot
<1>6. (x \o dir[0]) \o record[p] = x \o (dir[0] \o record[p])
    BY <1>1, TextAssociative
<1>7. QED
    BY <1>4, <1>5, <1>6

(* A file is only ever renamed into a name that is free, which leaves the  *)
(* log as it is.                                                           *)
LEMMA LogRename ==
  ASSUME Types, Types', NEW i \in 0..keep - 1, dir[i + 1] = Missing, Rename(i, i + 1)
  PROVE  Log' = Log /\ dir'[i] = Missing
<1>1. CASE dir[i] = Missing
    BY <1>1, RenameFacts, LogSame
<1>2. CASE dir[i] # Missing
  <2>1. /\ dir'[i + 1] = dir[i] /\ dir'[i] = Missing
        /\ \A j \in Slots \ {i, i + 1} : dir'[j] = dir[j]
      BY <1>2, RenameFacts
  <2>2. QED
      BY <2>1, LogShift
<1>3. QED
    BY <1>1, <1>2

LEMMA LogRemove ==
  ASSUME Types, Types', Remove(keep)
  PROVE  /\ Log = Slot(keep) \o Log' /\ Slot(keep) \in Text /\ dir'[keep] = Missing
         /\ \A i \in Slots \ {keep} : dir'[i] = dir[i]
<1>1. dir'[keep] = Missing /\ \A i \in Slots \ {keep} : dir'[i] = dir[i]
    BY SlotFacts, RemoveFacts
<1>2. Slot(keep) \in Text
    BY SlotFacts, MissingFacts DEF Slot, Types
<1>3. QED
    BY <1>1, <1>2, LogOldest

-----------------------------------------------------------------------------
(* The log keeps its order                                                 *)

InOrder(c, m) == /\ \A i \in 1..Len(c) - 1 : c[i] <= c[i + 1]
                 /\ \A i \in 1..Len(c) : c[i] <= m

LEMMA PartsInOrder ==
  ASSUME NEW c \in Text, NEW d \in Text, NEW m, InOrder(c \o d, m)
  PROVE  InOrder(c, m) /\ InOrder(d, m)
<1>0. /\ Len(c) \in Nat /\ Len(d) \in Nat /\ Len(c \o d) = Len(c) + Len(d)
      /\ \A i \in 1..Len(c) : (c \o d)[i] = c[i]
      /\ \A i \in 1..Len(d) : (c \o d)[Len(c) + i] = d[i]
    BY TextConcat, TextFacts
<1>1. /\ \A i \in 1..Len(c) + Len(d) - 1 : (c \o d)[i] <= (c \o d)[i + 1]
      /\ \A i \in 1..Len(c) + Len(d) : (c \o d)[i] <= m
    BY <1>0 DEF InOrder
<1>2. InOrder(c, m)
  <2>1. ASSUME NEW i \in 1..Len(c) - 1 PROVE c[i] <= c[i + 1]
    <3>1. /\ i \in 1..Len(c) /\ i + 1 \in 1..Len(c) /\ i \in 1..Len(c) + Len(d) - 1
        BY <1>0
    <3>2. QED
        BY <1>0, <1>1, <3>1
  <2>2. ASSUME NEW i \in 1..Len(c) PROVE c[i] <= m
    <3>1. i \in 1..Len(c) + Len(d)
        BY <1>0
    <3>2. QED
        BY <1>0, <1>1, <3>1
  <2>3. QED
      BY <2>1, <2>2 DEF InOrder
<1>3. InOrder(d, m)
  <2>1. ASSUME NEW i \in 1..Len(d) - 1 PROVE d[i] <= d[i + 1]
    <3>1. /\ i \in 1..Len(d) /\ i + 1 \in 1..Len(d) /\ Len(c) + i \in 1..Len(c) + Len(d) - 1
          /\ Len(c) + (i + 1) = Len(c) + i + 1
        BY <1>0
    <3>2. (c \o d)[Len(c) + i] <= (c \o d)[Len(c) + (i + 1)]
        BY <1>1, <3>1
    <3>3. QED
        BY <1>0, <3>1, <3>2
  <2>2. ASSUME NEW i \in 1..Len(d) PROVE d[i] <= m
    <3>1. Len(c) + i \in 1..Len(c) + Len(d)
        BY <1>0
    <3>2. (c \o d)[Len(c) + i] <= m
        BY <1>1, <3>1
    <3>3. QED
        BY <1>0, <3>2
  <2>3. QED
      BY <2>1, <2>2 DEF InOrder
<1>4. QED
    BY <1>2, <1>3

LEMMA AddedInOrder ==
  ASSUME NEW c \in Text, NEW d \in Text, NEW m \in Nat, InOrder(c, m),
         \A i \in 1..Len(d) : d[i] = m
  PROVE  InOrder(c \o d, m)
<1>0. /\ Len(c) \in Nat /\ Len(d) \in Nat /\ Len(c \o d) = Len(c) + Len(d)
      /\ \A i \in 1..Len(c) : (c \o d)[i] = c[i]
      /\ \A i \in 1..Len(d) : (c \o d)[Len(c) + i] = d[i]
    BY TextConcat, TextFacts
<1>1. /\ \A i \in 1..Len(c) - 1 : c[i] <= c[i + 1]
      /\ \A i \in 1..Len(c) : c[i] <= m
    BY DEF InOrder
<1>2. ASSUME NEW i \in 1..Len(c) + Len(d), i > Len(c) PROVE (c \o d)[i] = m
  <2>1. i - Len(c) \in 1..Len(d) /\ Len(c) + (i - Len(c)) = i
      BY <1>0, <1>2
  <2>2. (c \o d)[Len(c) + (i - Len(c))] = d[i - Len(c)]
      BY <1>0, <2>1
  <2>3. QED
      BY <2>1, <2>2
<1>3. ASSUME NEW i \in 1..Len(c) + Len(d) PROVE (c \o d)[i] <= m
  <2>1. CASE i <= Len(c)
    <3>1. i \in 1..Len(c)
        BY <1>0, <2>1
    <3>2. QED
        BY <1>0, <1>1, <3>1
  <2>2. CASE ~(i <= Len(c))
    <3>1. (c \o d)[i] = m
        BY <1>0, <1>2, <2>2
    <3>2. QED
        BY <3>1
  <2>3. QED
      BY <2>1, <2>2
<1>4. ASSUME NEW i \in 1..Len(c) + Len(d) - 1 PROVE (c \o d)[i] <= (c \o d)[i + 1]
  <2>0. i \in 1..Len(c) + Len(d) /\ i + 1 \in 1..Len(c) + Len(d)
      BY <1>0
  <2>1. CASE i + 1 <= Len(c)
    <3>1. i \in 1..Len(c) /\ i + 1 \in 1..Len(c) /\ i \in 1..Len(c) - 1
        BY <1>0, <2>1
    <3>2. QED
        BY <1>0, <1>1, <3>1
  <2>2. CASE ~(i + 1 <= Len(c))
    <3>1. (c \o d)[i + 1] = m
        BY <1>0, <1>2, <2>0, <2>2
    <3>2. QED
        BY <1>3, <2>0, <3>1
  <2>3. QED
      BY <2>1, <2>2
<1>5. QED
    BY <1>0, <1>3, <1>4 DEF InOrder

LEMMA LaterInOrder ==
  ASSUME NEW c \in Text, NEW m \in Nat, NEW k \in Nat, m <= k, InOrder(c, m)
  PROVE  InOrder(c, k)
<1>1. \A i \in 1..Len(c) : c[i] \in Nat
    BY TextFacts
<1>2. QED
    BY <1>1 DEF InOrder

(* The log is in order, and what is in hand comes after it; while p shifts *)
(* the archives, the name it has just emptied is free.                     *)
Held(p) ==
  /\ pc[p] \in Writing => \A i \in 1..Len(record[p]) : record[p][i] = last
  /\ pc[p] = "shift" => dir[slot[p] + 1] = Missing

Ranked == ~overlap => InOrder(Log, last) /\ \A p \in Procs : Held(p)

(* The hand of the process that acts.                                      *)
LEMMA HeldStep ==
  ASSUME Shape, NEW p \in Procs, Acts(p), Held(p), Types' PROVE Held(p)'
<1>0. Types /\ keep \in Nat /\ keep > 0 /\ slot[p] \in 0..keep - 1
    BY Sizes DEF Shape, Types
<1>a. ASSUME UNCHANGED <<record, last>>, pc[p] \in Writing, pc'[p] # "shift" PROVE Held(p)'
    BY <1>a DEF Held
<1>b. ASSUME pc'[p] \notin Writing PROVE Held(p)'
    BY <1>b DEF Held, Writing
<1>1. CASE Start(p) \/ OpenFirst(p) \/ Protect(p)
  <2>1. pc'[p] \in {"open", "protect", "ended", "idle"}
      BY <1>1, FirstFacts
  <2>2. QED
      BY <1>b, <2>1 DEF Writing
<1>2. CASE Write(p)
    BY <1>0, <1>2, WriteStarts, WriteNumbers DEF Held
<1>3. CASE rotate(p)
  <2>1. UNCHANGED <<record, last>> /\ pc[p] \in {"remove", "shift"}
      BY <1>0, <1>3, RotateFacts
  <2>2. pc'[p] = "shift" => dir'[slot'[p] + 1] = Missing
    <3>1. CASE Remove(keep) /\ slot'[p] = keep - 1
      <4>1. keep - 1 + 1 = keep /\ dir'[keep] = Missing
          BY <1>0, <3>1, SlotFacts, RemoveFacts
      <4>2. QED
          BY <3>1, <4>1
    <3>2. CASE Rename(slot[p], slot[p] + 1) /\ slot'[p] = slot[p] - 1
      <4>1. dir'[slot[p]] = Missing
          BY <1>0, <3>2, RenameFacts
      <4>2. slot'[p] + 1 = slot[p]
          BY <1>0, <3>2
      <4>3. QED
          BY <4>1, <4>2
    <3>3. QED
        BY <1>0, <1>3, <3>1, <3>2, RotateSteps
  <2>3. QED
      BY <2>1, <2>2 DEF Held, Writing
<1>4. CASE Truncate(p) \/ OpenFresh(p)
  <2>1. /\ UNCHANGED last /\ pc[p] \in Writing
        /\ (pc'[p] = "put" /\ UNCHANGED record) \/ pc'[p] = "idle"
      BY <1>0, <1>4, ReopenFacts DEF Writing
  <2>2. QED
      BY <1>a, <1>b, <2>1 DEF Writing
<1>5. CASE Put(p)
  <2>1. pc'[p] = "idle"
      BY <1>5, PutFacts
  <2>2. QED
      BY <1>b, <2>1 DEF Writing
<1>6. CASE End(p)
  <2>1. pc'[p] = "ended"
      BY <1>0, <1>6, EndFacts
  <2>2. QED
      BY <1>b, <2>1 DEF Writing
<1>7. QED
    BY <1>1, <1>2, <1>3, <1>4, <1>5, <1>6 DEF Acts, Returning

(* A step of the only invocation leaves the log as it is, drops its oldest *)
(* archive or the end that is in the live file, or appends the record.     *)
LogStep(p) ==
  \/ Log' = Log /\ last <= last'
  \/ UNCHANGED last /\ \E x \in Text : Log = x \o Log' \/ Log = Log' \o x
  \/ UNCHANGED last /\ pc[p] = "put" /\ Log' = Log \o record[p]

LEMMA LogSteps ==
  ASSUME Shape, NEW p \in Procs, Acts(p), Solo(p), Held(p), Types' PROVE LogStep(p)
<1>0. Types /\ keep \in Nat /\ slot[p] \in 0..keep - 1 /\ last \in Nat
    BY Sizes DEF Shape, Types
<1>a. ASSUME UNCHANGED <<dir, last>> PROVE LogStep(p)
    BY <1>0, <1>a, LogSame DEF LogStep
<1>b. ASSUME NEW t \in BOOLEAN, Opened(p, t), UNCHANGED last PROVE LogStep(p)
    BY <1>0, <1>b, LogOpened DEF LogStep
<1>1. CASE Start(p) \/ OpenFirst(p) \/ Protect(p)
  <2>1. UNCHANGED last
      BY <1>1, FirstFacts
  <2>2. CASE dir' = [dir EXCEPT ![0] = Missing]
    <3>1. dir'[0] = Missing /\ \A i \in Slots \ {0} : dir'[i] = dir[i]
        BY <1>0, <2>2, SlotFacts DEF Types
    <3>2. PICK x \in Text : Log = x \o Slot(0) /\ Log' = x \o Slot(0)'
        BY <1>0, <3>1, LogLive
    <3>3. Slot(0)' = <<>> /\ Slot(0) \in Text /\ x \o <<>> = x
        BY <1>0, <3>1, SlotFacts, MissingFacts, TextConcat DEF Slot, Types
    <3>4. Log = Log' \o Slot(0)
        BY <3>2, <3>3
    <3>5. QED
        BY <2>1, <3>3, <3>4 DEF LogStep
  <2>3. QED
      BY <1>1, <1>a, <1>b, <2>1, <2>2, FirstFacts
<1>2. CASE Write(p)
  <2>1. UNCHANGED dir /\ last' = last + 1
      BY <1>0, <1>2, WriteStarts, WriteNumbers
  <2>2. QED
      BY <1>0, <2>1, LogSame DEF LogStep
<1>3. CASE rotate(p)
  <2>1. UNCHANGED last
      BY <1>0, <1>3, RotateFacts
  <2>2. CASE UNCHANGED dir
      BY <1>a, <2>1, <2>2
  <2>3. CASE Remove(keep)
      BY <1>0, <2>1, <2>3, LogRemove DEF LogStep
  <2>4. ASSUME pc[p] = "shift", Rename(slot[p], slot[p] + 1) PROVE LogStep(p)
    <3>1. dir[slot[p] + 1] = Missing
        BY <2>4 DEF Held
    <3>2. Log' = Log
        BY <1>0, <2>4, <3>1, LogRename
    <3>3. QED
        BY <1>0, <2>1, <3>2 DEF LogStep
  <2>5. slot[p] = 0 => slot[p] + 1 = 0 + 1
      BY <1>0
  <2>6. QED
      BY <1>0, <1>3, <2>2, <2>3, <2>4, <2>5, RotateSteps
<1>4. CASE Truncate(p) \/ OpenFresh(p)
    BY <1>0, <1>4, <1>a, <1>b, ReopenFacts
<1>5. CASE Put(p)
  <2>1. UNCHANGED last /\ pc[p] = "put"
      BY <1>5, PutFacts
  <2>2. CASE Writes(p) /\ fd[p] # Closed
      BY <2>1, <2>2, LogPut DEF LogStep
  <2>3. CASE UNCHANGED dir
      BY <1>a, <2>1, <2>3
  <2>4. QED
      BY <1>5, <2>2, <2>3, PutFacts
<1>6. CASE End(p)
    BY <1>0, <1>6, <1>a, EndFacts
<1>7. QED
    BY <1>1, <1>2, <1>3, <1>4, <1>5, <1>6 DEF Acts, Returning

LEMMA RankedStep == ASSUME Shape, Alone, Ranked, NEW p \in Procs, Acts(p) PROVE Ranked'
<1> SUFFICES ASSUME ~overlap' PROVE InOrder(Log, last)' /\ \A q \in Procs : Held(q)'
    BY DEF Ranked
<1>0. /\ Types /\ Types' /\ ~overlap /\ Solo(p) /\ Held(p) /\ InOrder(Log, last)
      /\ \A q \in Procs \ {p} : ~Alive(q)'
    BY OnlyOne, ShapeStep DEF Shape, Alone, Ranked
<1>1. ASSUME NEW q \in Procs \ {p} PROVE Held(q)'
    BY <1>0 DEF Alive, Held, Writing
<1>2. Held(p)'
    BY <1>0, HeldStep
<1>3. InOrder(Log', last')
  <2>1. /\ last \in Nat /\ last' \in Nat /\ Log \in Text /\ Log' \in Text
      BY <1>0, Sizes, LogText, LogTextThen DEF Types
  <2>2. CASE Log' = Log /\ last <= last'
      BY <1>0, <2>1, <2>2, LaterInOrder
  <2>3. ASSUME UNCHANGED last, NEW x \in Text, Log = x \o Log' \/ Log = Log' \o x
        PROVE  InOrder(Log', last')
    <3>1. CASE Log = x \o Log'
      <4>1. InOrder(x \o Log', last)
          BY <1>0, <3>1
      <4>2. InOrder(Log', last)
          BY <2>1, <4>1, PartsInOrder
      <4>3. QED
          BY <2>3, <4>2
    <3>2. CASE Log = Log' \o x
      <4>1. InOrder(Log' \o x, last)
          BY <1>0, <3>2
      <4>2. InOrder(Log', last)
          BY <2>1, <4>1, PartsInOrder
      <4>3. QED
          BY <2>3, <4>2
    <3>3. QED
        BY <2>3, <3>1, <3>2
  <2>4. ASSUME UNCHANGED last, pc[p] = "put", Log' = Log \o record[p]
        PROVE  InOrder(Log', last')
    <3>1. record[p] \in Text /\ \A i \in 1..Len(record[p]) : record[p][i] = last
        BY <1>0, <2>4 DEF Types, Held, Writing
    <3>2. InOrder(Log \o record[p], last)
        BY <1>0, <2>1, <3>1, AddedInOrder
    <3>3. QED
        BY <2>4, <3>2
  <2>5. QED
      BY <1>0, <2>2, <2>3, <2>4, LogSteps DEF LogStep
<1>4. QED
    BY <1>1, <1>2, <1>3 DEF InOrder

-----------------------------------------------------------------------------
(* Nothing is dropped early                                                *)

Gapless(c) == \A i \in 1..Len(c) - 1 : c[i + 1] = c[i] \/ c[i + 1] = c[i] + 1

LEMMA GaplessEnd ==
  ASSUME NEW c \in Text, NEW d \in Text, Gapless(c \o d), d # <<>>
  PROVE  Gapless(d) /\ d[Len(d)] = (c \o d)[Len(c \o d)]
<1>0. /\ Len(c) \in Nat /\ Len(d) \in Nat /\ Len(c \o d) = Len(c) + Len(d)
      /\ \A i \in 1..Len(d) : (c \o d)[Len(c) + i] = d[i]
      /\ Len(d) # 0
    BY TextConcat, TextFacts, EmptySeq DEF Text
<1>1. ASSUME NEW i \in 1..Len(d) - 1 PROVE d[i + 1] = d[i] \/ d[i + 1] = d[i] + 1
  <2>1. /\ i \in 1..Len(d) /\ i + 1 \in 1..Len(d) /\ Len(c) + i \in 1..Len(c) + Len(d) - 1
        /\ Len(c) + (i + 1) = Len(c) + i + 1
      BY <1>0
  <2>2. \A k \in 1..Len(c) + Len(d) - 1 :
          (c \o d)[k + 1] = (c \o d)[k] \/ (c \o d)[k + 1] = (c \o d)[k] + 1
      BY <1>0 DEF Gapless
  <2>3. /\ (c \o d)[Len(c) + i] = d[i] /\ (c \o d)[Len(c) + (i + 1)] = d[i + 1]
      BY <1>0, <2>1
  <2>4. QED
      BY <2>1, <2>2, <2>3
<1>2. Len(d) \in 1..Len(d)
    BY <1>0
<1>3. QED
    BY <1>0, <1>1, <1>2 DEF Gapless

LEMMA GaplessMore ==
  ASSUME NEW c \in Text, NEW d \in Text, NEW k \in Nat, Gapless(c),
         c # <<>> => c[Len(c)] = k, Len(d) > 0, \A i \in 1..Len(d) : d[i] = k + 1
  PROVE  /\ Gapless(c \o d) /\ c \o d # <<>> /\ (c \o d)[Len(c \o d)] = k + 1
         /\ (c \o d)[1] = IF c = <<>> THEN k + 1 ELSE c[1]
<1>0. /\ Len(c) \in Nat /\ Len(d) \in Nat /\ Len(c \o d) = Len(c) + Len(d)
      /\ \A i \in 1..Len(c) : (c \o d)[i] = c[i]
      /\ \A i \in 1..Len(d) : (c \o d)[Len(c) + i] = d[i]
      /\ c # <<>> <=> Len(c) # 0
  <2>1. c # <<>> <=> Len(c) # 0
      BY EmptySeq, MissingFacts DEF Text
  <2>2. QED
      BY <2>1, TextConcat, TextFacts
<1>1. ASSUME NEW i \in 1..Len(c) + Len(d), i > Len(c) PROVE (c \o d)[i] = k + 1
  <2>1. i - Len(c) \in 1..Len(d) /\ Len(c) + (i - Len(c)) = i
      BY <1>0, <1>1
  <2>2. (c \o d)[Len(c) + (i - Len(c))] = d[i - Len(c)]
      BY <1>0, <2>1
  <2>3. QED
      BY <2>1, <2>2
<1>2. ASSUME NEW i \in 1..Len(c) + Len(d) - 1
      PROVE  (c \o d)[i + 1] = (c \o d)[i] \/ (c \o d)[i + 1] = (c \o d)[i] + 1
  <2>0. i \in 1..Len(c) + Len(d) /\ i + 1 \in 1..Len(c) + Len(d)
      BY <1>0
  <2>1. CASE i + 1 <= Len(c)
    <3>1. i \in 1..Len(c) /\ i + 1 \in 1..Len(c) /\ i \in 1..Len(c) - 1
        BY <1>0, <2>1
    <3>2. c[i + 1] = c[i] \/ c[i + 1] = c[i] + 1
        BY <3>1 DEF Gapless
    <3>3. QED
        BY <1>0, <3>1, <3>2
  <2>2. CASE i = Len(c)
    <3>1. Len(c) \in 1..Len(c) /\ c # <<>> /\ i + 1 > Len(c)
        BY <1>0, <2>2
    <3>2. (c \o d)[i] = k /\ (c \o d)[i + 1] = k + 1
        BY <1>0, <1>1, <2>0, <2>2, <3>1
    <3>3. QED
        BY <3>2
  <2>3. CASE i > Len(c)
    <3>1. i + 1 > Len(c)
        BY <1>0, <2>3
    <3>2. (c \o d)[i] = k + 1 /\ (c \o d)[i + 1] = k + 1
        BY <1>1, <2>0, <2>3, <3>1
    <3>3. QED
        BY <3>2
  <2>4. QED
      BY <1>0, <2>1, <2>2, <2>3
<1>3. /\ Len(c) + Len(d) \in 1..Len(c) + Len(d) /\ Len(c) + Len(d) > Len(c)
      /\ 1 \in 1..Len(c) + Len(d)
    BY <1>0
<1>4. (c \o d)[Len(c \o d)] = k + 1
    BY <1>0, <1>1, <1>3
<1>5. (c \o d)[1] = IF c = <<>> THEN k + 1 ELSE c[1]
  <2>1. c = <<>> => 1 > Len(c)
      BY <1>0
  <2>2. c # <<>> => 1 \in 1..Len(c)
      BY <1>0
  <2>3. QED
      BY <1>0, <1>1, <1>3, <2>1, <2>2
<1>6. c \o d # <<>>
    BY <1>0, <1>3, MissingFacts
<1>7. QED
    BY <1>0, <1>2, <1>4, <1>5, <1>6 DEF Gapless

(* Which names exist: all but h, or at least none that is older than a     *)
(* missing one.                                                            *)
FullBut(h) == \A i \in Slots \ {h} : dir[i] # Missing
Dense(h) == \A i, j \in Slots \ {h} : i < j /\ dir[j] # Missing => dir[i] # Missing

(* The name a rotation has emptied, and the number before the record at    *)
(* hand.                                                                   *)
Hole(p)   == IF pc[p] = "shift" THEN slot[p] + 1 ELSE IF pc[p] = "append" THEN 0 ELSE Unlinked
Before(p) == IF pc[p] \in Writing THEN last - 1 ELSE last

Content(p) ==
  /\ Gapless(Log)
  /\ Log = <<>> => Before(p) = 0
  /\ Log # <<>> => Log[Len(Log)] = Before(p) /\ (Log[1] = 1 \/ FullBut(Hole(p)))

Presence(p) ==
  /\ Dense(Hole(p))
  /\ pc[p] \in {"protect", "idle", "put", "remove", "shift"} => dir[0] # Missing
  /\ pc[p] \in {"protect", "idle", "put"} => fd[p] = 0
  /\ pc[p] \in {"remove", "shift"} => Slot(0) # <<>>
  /\ pc[p] # "truncate"

(* No call fails, and there has only been one invocation.                  *)
Quiet == ~overlap /\ failures = 0 /\ \A p \in Procs : pc[p] # "ended"

Untouched == last = 0 /\ Log = <<>> /\ \A i \in Slots : dir[i] = Missing

Kept == Quiet =>
  /\ \A p \in Procs : pc[p] # "new" => Content(p) /\ Presence(p)
  /\ (\A p \in Procs : pc[p] = "new") => Untouched

(* An invocation acts until it has ended, and nothing but a failure        *)
(* changes the number of failures.                                         *)
LEMMA Acting ==
  ASSUME Shape, NEW p \in Procs, Acts(p)
  PROVE  /\ pc[p] # "ended" /\ (pc[p] = "new" => Start(p))
         /\ failures \in Nat /\ (failures' = failures \/ failures' = failures + 1)
<1>0. Types /\ failures \in Nat
    BY Sizes DEF Shape, Types
<1> USE DEF Fails, Works
<1>1. CASE Start(p)
    BY <1>0, <1>1 DEF Start, Goto
<1>2. CASE OpenFirst(p)
    BY <1>0, <1>2 DEF OpenFirst, Goto
<1>3. CASE Protect(p)
    BY <1>0, <1>3 DEF Protect, Goto
<1>4. CASE Write(p)
    BY <1>0, <1>4, WriteStarts
<1>5. CASE RemoveOldest(p)
    BY <1>0, <1>5 DEF RemoveOldest, Step, Goto
<1>6. CASE Shift(p)
    BY <1>0, <1>6 DEF Shift, Step, Goto
<1>7. CASE Archive(p)
    BY <1>0, <1>7 DEF Archive, Step, Goto
<1>8. CASE Truncate(p) \/ OpenFresh(p)
  <2>1. pc[p] \in {"truncate", "append"}
      BY <1>0, <1>8, ReopenFacts
  <2>2. Fails \/ Works
      BY <1>8 DEF Truncate, OpenFresh, Reopen
  <2>3. QED
      BY <1>0, <2>1, <2>2
<1>9. CASE Put(p)
  <2>1. pc[p] = "put"
      BY <1>9, PutFacts
  <2>2. Fails \/ Works
      BY <1>9 DEF Put
  <2>3. QED
      BY <1>0, <2>1, <2>2
<1>10. CASE End(p)
    BY <1>0, <1>10 DEF End, Alive
<1>11. QED
    BY <1>1, <1>2, <1>3, <1>4, <1>5, <1>6, <1>7, <1>8, <1>9, <1>10
       DEF Acts, Returning, rotate

LEMMA QuietBefore ==
  ASSUME Shape, Alone, NEW p \in Procs, Acts(p), Quiet'
  PROVE  /\ Quiet /\ ~Fails /\ pc'[p] # "ended"
         /\ \A q \in Procs \ {p} : pc[q] = "new" /\ pc'[q] = "new"
<1>1. failures = 0 /\ ~Fails /\ pc[p] # "ended"
    BY Acting DEF Quiet, Fails
<1>2. ~overlap' /\ \A q \in Procs : pc'[q] # "ended"
    BY DEF Quiet
<1>3. ~overlap /\ \A q \in Procs \ {p} : ~Alive(q) /\ ~Alive(q)'
    BY <1>2, OnlyOne
<1>4. \A q \in Procs \ {p} : pc[q] = pc'[q]
    BY FrameHolds DEF Frame
<1>5. \A q \in Procs \ {p} : pc[q] = "new" /\ pc'[q] = "new"
    BY <1>2, <1>3, <1>4 DEF Alive
<1>6. Quiet
    BY <1>1, <1>3, <1>5 DEF Quiet
<1>7. QED
    BY <1>1, <1>2, <1>5, <1>6

LiveIsRead == Slot(0) # <<>> => Log # <<>>

LEMMA LiveInLog == Types => LiveIsRead
<1> SUFFICES ASSUME Types, Slot(0) # <<>> PROVE Log # <<>>
    BY DEF LiveIsRead
<1>1. 0 \in 0..keep - 1 /\ 0 + 1 = 1
    BY Sizes
<1>2. /\ Log = Chronicle[1] \o View[0] /\ Chronicle[1] \in Text
      /\ View[0] = Slot(0) /\ View[0] \in Text
    BY <1>1, ChronicleIsChain, ViewFacts, SlotFacts DEF Chain, Log, Slot
<1>3. QED
    BY <1>2, TextConcat

LEMMA LiveThen == Types' => LiveIsRead'
BY LiveInLog, PTL

(* How the names change.                                                   *)
LEMMA NamesOpened ==
  ASSUME Types, NEW p \in Procs, Opened(p, FALSE), NEW h \in {0, Unlinked}
  PROVE  /\ FullBut(h) => FullBut(Unlinked)'
         /\ Dense(h) => Dense(Unlinked)'
<1>1. dir'[0] # Missing /\ \A i \in Slots \ {0} : dir'[i] = dir[i]
    BY OpenedFacts
<1>2. \A i \in Slots : i # 0 => i \in Slots \ {h} /\ i \in Slots \ {0}
    BY SlotFacts
<1>3. FullBut(h) => FullBut(Unlinked)'
    BY <1>1, <1>2 DEF FullBut
<1>4. ASSUME Dense(h) PROVE Dense(Unlinked)'
  <2>1. ASSUME NEW i \in Slots, NEW j \in Slots, i < j, dir'[j] # Missing
        PROVE  dir'[i] # Missing
    <3>1. j # 0
        BY <2>1, SlotFacts
    <3>2. QED
        BY <1>1, <1>2, <1>4, <2>1, <3>1 DEF Dense
  <2>2. QED
      BY <2>1 DEF Dense
<1>5. QED
    BY <1>3, <1>4

LEMMA NamesShifted ==
  ASSUME Types, NEW s \in 0..keep - 1, dir[s + 1] = Missing, Rename(s, s + 1)
  PROVE  /\ FullBut(s + 1) => FullBut(s)'
         /\ Dense(s + 1) => Dense(s)'
<1>0. s \in Slots /\ s + 1 \in Slots /\ s # s + 1 /\ \A i \in Slots : i \in Nat
    BY SlotFacts
<1>1. CASE dir[s] = Missing
  <2>1. dir' = dir
      BY <1>1, RenameFacts
  <2>2. ~FullBut(s + 1)
      BY <1>0, <1>1 DEF FullBut
  <2>3. ASSUME Dense(s + 1), NEW i \in Slots \ {s}, NEW j \in Slots \ {s}, i < j, dir[j] # Missing
        PROVE  dir[i] # Missing
    <3>1. j # s + 1
        BY <2>3
    <3>2. i # s + 1
      <4>1. SUFFICES ASSUME i = s + 1 PROVE FALSE
          OBVIOUS
      <4>2. s < j
          BY <1>0, <2>3, <4>1
      <4>3. dir[s] # Missing
          BY <1>0, <2>3, <3>1, <4>2 DEF Dense
      <4>4. QED
          BY <1>1, <4>3
    <3>3. QED
        BY <2>3, <3>1, <3>2 DEF Dense
  <2>4. QED
      BY <2>1, <2>2, <2>3 DEF Dense
<1>2. CASE dir[s] # Missing
  <2>1. dir'[s + 1] # Missing /\ \A i \in Slots \ {s, s + 1} : dir'[i] = dir[i]
      BY <1>2, RenameFacts
  <2>2. FullBut(s + 1) => FullBut(s)'
      BY <2>1 DEF FullBut
  <2>3. ASSUME Dense(s + 1), NEW i \in Slots \ {s}, NEW j \in Slots \ {s}, i < j, dir'[j] # Missing
        PROVE  dir'[i] # Missing
    <3>1. CASE i = s + 1
        BY <2>1, <3>1
    <3>2. CASE i # s + 1 /\ j = s + 1
      <4>1. i < s
          BY <1>0, <2>3, <3>2
      <4>2. dir[i] # Missing
          BY <1>0, <1>2, <2>3, <3>2, <4>1 DEF Dense
      <4>3. QED
          BY <2>1, <3>2, <4>2
    <3>3. CASE i # s + 1 /\ j # s + 1
        BY <2>1, <2>3, <3>3 DEF Dense
    <3>4. QED
        BY <3>1, <3>2, <3>3
  <2>4. QED
      BY <2>2, <2>3 DEF Dense
<1>3. QED
    BY <1>1, <1>2

(* What p needs not look at: its steps before the rotation, as far as the  *)
(* log, the names and its file stay as they are.                           *)
LEMMA KeptSame ==
  ASSUME Shape, Types', NEW p \in Procs, Content(p), Presence(p), UNCHANGED <<dir, fd>>,
         Before(p)' = Before(p), Hole(p) = Unlinked, Hole(p)' = Unlinked,
         pc'[p] \in {"open", "protect", "idle", "put"},
         pc'[p] \in {"idle", "put", "protect"} => pc[p] \in {"idle", "put", "protect"}
  PROVE  Content(p)' /\ Presence(p)'
<1>1. Log' = Log
    BY LogSame DEF Shape
<1>2. Content(p)'
    BY <1>1 DEF Content, FullBut
<1>3. Presence(p)'
    BY DEF Presence, Dense
<1>4. QED
    BY <1>2, <1>3

LEMMA KeptOpened ==
  ASSUME Shape, Types', NEW p \in Procs, Content(p), Presence(p), Opened(p, FALSE),
         Before(p)' = Before(p), Hole(p) \in {0, Unlinked}, Hole(p)' = Unlinked,
         pc'[p] \in {"protect", "put"}
  PROVE  Content(p)' /\ Presence(p)'
<1>0. Types
    BY DEF Shape
<1>1. Log' = Log /\ dir'[0] # Missing /\ fd'[p] = 0
    BY <1>0, LogOpened, OpenedFacts
<1>2. PICK h \in {0, Unlinked} : h = Hole(p)
    OBVIOUS
<1>3. /\ FullBut(h) => FullBut(Unlinked)'
      /\ Dense(h) => Dense(Unlinked)'
    BY <1>0, NamesOpened
<1>4. FullBut(Unlinked)' => FullBut(Hole(p))'
    BY DEF FullBut
<1>5. Dense(Unlinked)' => Dense(Hole(p))'
    BY DEF Dense
<1>6. FullBut(Hole(p)) => FullBut(Hole(p))'
    BY <1>2, <1>3, <1>4
<1>7. Dense(Hole(p))'
    BY <1>2, <1>3, <1>5 DEF Presence
<1>8. Content(p)'
    BY <1>1, <1>6 DEF Content
<1>9. QED
    BY <1>1, <1>7, <1>8 DEF Presence

LEMMA KeptRotate ==
  ASSUME Shape, Types', NEW p \in Procs, rotate(p), ~Fails, Held(p),
         Content(p), Presence(p)
  PROVE  Content(p)' /\ Presence(p)'
<1>0. /\ Types /\ keep \in Nat /\ keep > 0 /\ slot[p] \in 0..keep - 1
      /\ keep \in Slots /\ 0 \in Slots /\ keep # 0
      /\ UNCHANGED last /\ pc[p] \in {"remove", "shift"}
      /\ pc'[p] \in {"shift", "truncate", "append"}
    BY Sizes, SlotFacts, RotateFacts DEF Shape, Types
<1>1. Before(p)' = Before(p) /\ dir[0] # Missing /\ Slot(0) # <<>> /\ Slot(0) = dir[0]
    BY <1>0 DEF Before, Writing, Presence, Slot
<1>2. CASE pc[p] = "remove" /\ pc'[p] = "shift" /\ Remove(keep) /\ slot'[p] = keep - 1
  <2>1. /\ Log = Slot(keep) \o Log' /\ Slot(keep) \in Text /\ dir'[keep] = Missing
        /\ \A i \in Slots \ {keep} : dir'[i] = dir[i]
      BY <1>0, <1>2, LogRemove
  <2>2. Hole(p) = Unlinked /\ Hole(p)' = keep
      BY <1>0, <1>2 DEF Hole
  <2>3. dir'[0] # Missing /\ Slot(0)' # <<>>
      BY <1>0, <1>1, <2>1 DEF Slot
  <2>4. Log' # <<>> /\ Log' \in Text
      BY <2>3, LiveThen, LogTextThen DEF LiveIsRead
  <2>5. PICK x \in Text, c \in Text : x = Slot(keep) /\ c = Log'
      BY <2>1, <2>4
  <2>6. Log = x \o c /\ c # <<>>
      BY <2>1, <2>4, <2>5
  <2>7. Log # <<>>
      BY <2>5, <2>6, TextConcat
  <2>8. Gapless(x \o c)
      BY <2>6 DEF Content
  <2>9. Gapless(c) /\ c[Len(c)] = Log[Len(Log)]
      BY <2>6, <2>8, GaplessEnd
  <2>10. c[1] = 1 \/ FullBut(Hole(p))'
    <3>1. CASE dir[keep] = Missing
      <4>1. x = <<>>
          BY <2>5, <3>1 DEF Slot
      <4>2. Log = c
          BY <2>6, <4>1, TextConcat
      <4>3. ~FullBut(Hole(p))
          BY <1>0, <2>2, <3>1, SlotFacts DEF FullBut
      <4>4. QED
          BY <2>7, <4>2, <4>3 DEF Content
    <3>2. CASE dir[keep] # Missing
      <4>1. ASSUME NEW i \in Slots \ {keep} PROVE dir'[i] # Missing
        <5>1. i < keep /\ i \in Slots \ {Unlinked} /\ keep \in Slots \ {Unlinked}
            BY <1>0, SlotFacts DEF Slots
        <5>2. dir[i] # Missing
            BY <2>2, <3>2, <5>1 DEF Presence, Dense
        <5>3. QED
            BY <2>1, <5>2
      <4>2. QED
          BY <2>2, <4>1 DEF FullBut
    <3>3. QED
        BY <3>1, <3>2
  <2>11. Content(p)'
      BY <1>1, <2>4, <2>5, <2>7, <2>9, <2>10 DEF Content
  <2>12. Dense(Hole(p))'
    <3>1. ASSUME NEW i \in Slots \ {keep}, NEW j \in Slots \ {keep}, i < j, dir'[j] # Missing
          PROVE  dir'[i] # Missing
      <4>1. i \in Slots \ {Unlinked} /\ j \in Slots \ {Unlinked}
          BY SlotFacts
      <4>2. QED
          BY <2>1, <2>2, <3>1, <4>1 DEF Presence, Dense
    <3>2. QED
        BY <2>2, <3>1 DEF Dense
  <2>13. Presence(p)'
      BY <1>2, <2>3, <2>12 DEF Presence
  <2>14. QED
      BY <2>11, <2>13
<1>3. ASSUME pc[p] = "shift", Rename(slot[p], slot[p] + 1),
             \/ pc'[p] = "shift" /\ slot[p] > 0 /\ slot'[p] = slot[p] - 1
             \/ pc'[p] = "append" /\ slot[p] = 0
      PROVE  Content(p)' /\ Presence(p)'
  <2>1. PICK s \in 0..keep - 1 : s = slot[p]
      BY <1>0
  <2>2. Hole(p) = s + 1 /\ Hole(p)' = s
      BY <1>3, <2>1 DEF Hole
  <2>3. dir[s + 1] = Missing /\ Rename(s, s + 1)
      BY <1>3, <2>1 DEF Held
  <2>4. Log' = Log
      BY <1>0, <2>3, LogRename
  <2>5. /\ FullBut(s + 1) => FullBut(s)'
        /\ Dense(s + 1) => Dense(s)'
      BY <1>0, <2>3, NamesShifted
  <2>6. FullBut(Hole(p)) => FullBut(Hole(p))'
      BY <2>2, <2>5 DEF FullBut
  <2>7. Dense(Hole(p))'
      BY <2>2, <2>5 DEF Dense, Presence
  <2>8. Content(p)'
      BY <1>1, <2>4, <2>6 DEF Content
  <2>9. pc'[p] = "shift" => dir'[0] = dir[0]
    <3>1. s > 0 => 0 \in Slots \ {s, s + 1}
        BY <1>0
    <3>2. s > 0 => dir'[0] = dir[0]
        BY <1>0, <2>3, <3>1, RenameFacts
    <3>3. QED
        BY <1>3, <2>1, <3>2
  <2>10. pc'[p] = "shift" => dir'[0] # Missing /\ Slot(0)' # <<>>
      BY <1>1, <2>9 DEF Slot
  <2>11. Presence(p)'
      BY <1>3, <2>7, <2>10 DEF Presence
  <2>12. QED
      BY <2>8, <2>11
<1>4. slot[p] = 0 => slot[p] + 1 = 0 + 1
    BY <1>0
<1>5. QED
    BY <1>0, <1>1, <1>2, <1>3, <1>4, RotateSteps

LEMMA KeptPut ==
  ASSUME Shape, Types', NEW p \in Procs, Solo(p), Put(p), ~Fails, Held(p),
         Content(p), Presence(p)
  PROVE  Content(p)' /\ Presence(p)'
<1>0. /\ Types /\ pc[p] = "put" /\ pc'[p] = "idle" /\ UNCHANGED <<fd, last>>
      /\ fd[p] = 0 /\ dir[0] # Missing /\ last \in Nat
    BY Sizes, PutFacts DEF Shape, Types, Presence
<1>1. Writes(p) /\ fd[p] # Closed
    BY <1>0, SlotFacts DEF Put, Writes
<1>2. Log' = Log \o record[p]
    BY <1>0, <1>1, LogPut
<1>3. dir'[0] # Missing /\ \A i \in Slots \ {0} : dir'[i] = dir[i]
    BY <1>0, <1>1, SlotFacts, WriteFacts
<1>4. /\ record[p] \in Text /\ Len(record[p]) > 0 /\ Log \in Text
      /\ \A i \in 1..Len(record[p]) : record[p][i] = last
    BY <1>0, LogText DEF Shape, Types, Holding, Held, Writing
<1>5. last # 0 /\ Before(p) = last - 1 /\ Before(p)' = last
  <2>1. 1 \in 1..Len(record[p])
      BY <1>4, TextFacts
  <2>2. record[p][1] # 0
      BY <1>0, <2>1 DEF Shape, Holding, Writing
  <2>3. QED
      BY <1>0, <1>4, <2>1, <2>2 DEF Before, Writing
<1>6. PICK k \in Nat : last = k + 1 /\ Before(p) = k
    BY <1>0, <1>5
<1>7. PICK c \in Text, d \in Text : c = Log /\ d = record[p]
    BY <1>4
<1>8. /\ Gapless(c)
      /\ c # <<>> => c[Len(c)] = k
      /\ Len(d) > 0 /\ \A i \in 1..Len(d) : d[i] = k + 1
    BY <1>4, <1>6, <1>7 DEF Content
<1>9. /\ Gapless(c \o d) /\ c \o d # <<>> /\ (c \o d)[Len(c \o d)] = k + 1
      /\ (c \o d)[1] = IF c = <<>> THEN k + 1 ELSE c[1]
    BY <1>8, GaplessMore
<1>10. Hole(p) = Unlinked /\ Hole(p)' = Unlinked
    BY <1>0 DEF Hole
<1>11. FullBut(Unlinked) => FullBut(Unlinked)'
    BY <1>0, <1>3 DEF FullBut
<1>12. Dense(Unlinked)'
  <2>1. Dense(Unlinked)
      BY <1>10 DEF Presence
  <2>2. \A i \in Slots : dir'[i] # Missing <=> dir[i] # Missing
      BY <1>0, <1>3
  <2>3. QED
      BY <2>1, <2>2 DEF Dense
<1>13. (c \o d)[1] = 1 \/ FullBut(Unlinked)'
  <2>1. CASE c = <<>>
    <3>1. k = 0
        BY <1>6, <1>7, <2>1 DEF Content
    <3>2. QED
        BY <1>9, <2>1, <3>1
  <2>2. CASE c # <<>>
    <3>1. c[1] = 1 \/ FullBut(Unlinked)
        BY <1>7, <1>10, <2>2 DEF Content
    <3>2. QED
        BY <1>9, <1>11, <2>2, <3>1
  <2>3. QED
      BY <2>1, <2>2
<1>14. Content(p)'
  <2>1. Log' = c \o d
      BY <1>2, <1>7
  <2>2. FullBut(Unlinked)' => FullBut(Hole(p))'
      BY <1>10 DEF FullBut
  <2>3. QED
      BY <1>5, <1>6, <1>9, <1>13, <2>1, <2>2 DEF Content
<1>15. Presence(p)'
  <2>1. Dense(Hole(p))'
      BY <1>10, <1>12 DEF Dense
  <2>2. QED
      BY <1>0, <1>3, <2>1 DEF Presence
<1>16. QED
    BY <1>14, <1>15

LEMMA KeptStep == ASSUME Shape, Alone, Ranked, Kept, NEW p \in Procs, Acts(p) PROVE Kept'
<1> SUFFICES ASSUME Quiet'
             PROVE  /\ \A q \in Procs : pc'[q] # "new" => Content(q)' /\ Presence(q)'
                    /\ (\A q \in Procs : pc'[q] = "new") => Untouched'
    BY DEF Kept
<1>0. /\ Types /\ Types' /\ Quiet /\ ~Fails /\ pc'[p] # "ended"
      /\ \A q \in Procs \ {p} : pc[q] = "new" /\ pc'[q] = "new"
    BY QuietBefore, ShapeStep DEF Shape
<1>1. Solo(p) /\ Held(p) /\ (pc[p] = "new" => Start(p))
    BY <1>0, Acting DEF Alone, Ranked, Quiet
<1>2. /\ pc[p] # "new" => Content(p) /\ Presence(p)
      /\ pc[p] = "new" => Untouched
    BY <1>0 DEF Kept
<1>3. SUFFICES pc'[p] # "new" /\ Content(p)' /\ Presence(p)'
    BY <1>0
<1>4. CASE Start(p)
  <2>1. /\ pc[p] = "new" /\ pc'[p] = "open" /\ UNCHANGED <<dir, last>>
      BY <1>0, <1>4, GotoFacts DEF Start, Points
  <2>2. Untouched /\ Log' = Log
      BY <1>0, <1>2, <2>1, LogSame
  <2>3. Log' = <<>> /\ last' = 0 /\ \A i \in Slots : dir'[i] = Missing
      BY <2>1, <2>2 DEF Untouched
  <2>4. Content(p)'
      BY <2>1, <2>3, MissingFacts DEF Content, Before, Gapless, Writing
  <2>5. Presence(p)'
      BY <2>1, <2>3 DEF Presence, Dense
  <2>6. QED
      BY <2>1, <2>4, <2>5
<1>5. CASE OpenFirst(p) \/ Protect(p)
  <2>1. UNCHANGED last
      BY <1>5, FirstFacts
  <2>2. CASE pc[p] = "open" /\ pc'[p] = "protect" /\ Opened(p, FALSE)
    <3>1. Before(p)' = Before(p) /\ Hole(p) = Unlinked /\ Hole(p)' = Unlinked
        BY <2>1, <2>2 DEF Before, Hole, Writing
    <3>2. QED
        BY <1>0, <1>2, <2>2, <3>1, KeptOpened
  <2>3. CASE pc[p] = "protect" /\ pc'[p] = "idle" /\ UNCHANGED <<dir, fd>>
    <3>1. Before(p)' = Before(p) /\ Hole(p) = Unlinked /\ Hole(p)' = Unlinked
        BY <2>1, <2>3 DEF Before, Hole, Writing
    <3>2. QED
        BY <1>0, <1>2, <2>3, <3>1, KeptSame
  <2>4. pc[p] # "new"
      BY <1>5 DEF OpenFirst, Protect, Goto
  <2>5. QED
      BY <1>0, <1>5, <2>2, <2>3, <2>4, FirstFacts
<1>6. CASE Write(p)
  <2>1. /\ pc[p] = "idle" /\ UNCHANGED <<dir, n>> /\ last' = last + 1
        /\ (pc'[p] = "remove" /\ n[p] > 0) \/ (pc'[p] = "put" /\ fd' = fd)
      BY <1>0, <1>6, WriteStarts, WriteNumbers
  <2>2. /\ Before(p)' = Before(p) /\ Hole(p) = Unlinked /\ Hole(p)' = Unlinked
        /\ Content(p) /\ Presence(p)
    <3>1. last \in Nat
        BY <1>0, Sizes DEF Types
    <3>2. QED
        BY <1>2, <2>1, <3>1 DEF Before, Hole, Writing
  <2>3. CASE pc'[p] = "put" /\ fd' = fd
      BY <1>0, <2>1, <2>2, <2>3, KeptSame
  <2>4. CASE pc'[p] = "remove" /\ n[p] > 0
    <3>1. Log' = Log
        BY <1>0, <2>1, LogSame
    <3>2. Content(p)'
        BY <2>1, <2>2, <3>1 DEF Content, FullBut
    <3>3. dir[0] # Missing /\ n[p] = Len(dir[0])
        BY <1>1, <2>1, <2>2 DEF Presence, Solo
    <3>4. Slot(0) # <<>> /\ Slot(0)' = Slot(0)
        BY <2>1, <2>4, <3>3, MissingFacts DEF Slot
    <3>5. Presence(p)'
        BY <2>1, <2>2, <2>4, <3>3, <3>4 DEF Presence, Dense
    <3>6. QED
        BY <2>4, <3>2, <3>5
  <2>5. QED
      BY <2>1, <2>3, <2>4
<1>7. CASE rotate(p)
  <2>1. pc[p] # "new" /\ pc'[p] # "new"
      BY <1>0, <1>7, RotateFacts
  <2>2. QED
      BY <1>0, <1>1, <1>2, <1>7, <2>1, KeptRotate
<1>8. CASE Truncate(p) \/ OpenFresh(p)
  <2>1. pc[p] \in {"truncate", "append"} /\ UNCHANGED last
      BY <1>0, <1>8, ReopenFacts
  <2>2. Content(p) /\ Presence(p) /\ pc[p] = "append"
      BY <1>2, <2>1 DEF Presence
  <2>3. OpenFresh(p)
      BY <1>8, <2>2 DEF Truncate, ReportDirectly
  <2>4. Goto(p, "append", "put") /\ Opened(p, FALSE)
      BY <1>0, <2>3 DEF OpenFresh, Reopen
  <2>5. pc'[p] = "put"
      BY <1>0, <2>4, GotoFacts DEF Points
  <2>6. Before(p)' = Before(p) /\ Hole(p) = 0 /\ Hole(p)' = Unlinked
      BY <2>1, <2>2, <2>5 DEF Before, Hole, Writing
  <2>7. QED
      BY <1>0, <2>2, <2>4, <2>5, <2>6, KeptOpened
<1>9. CASE Put(p)
  <2>1. pc[p] = "put" /\ pc'[p] = "idle"
      BY <1>9, PutFacts
  <2>2. QED
      BY <1>0, <1>1, <1>2, <1>9, <2>1, KeptPut
<1>10. CASE End(p)
    BY <1>0, <1>10, EndFacts
<1>11. QED
    BY <1>4, <1>5, <1>6, <1>7, <1>8, <1>9, <1>10 DEF Acts, Returning

(* What holds of the log: before the first step, and while nothing moves.  *)
LEMMA LogInit == Init /\ Types => Ranked /\ Kept
<1> SUFFICES ASSUME Init, Types PROVE Ranked /\ Kept
    OBVIOUS
<1>1. /\ \A i \in Slots : dir[i] = Missing
      /\ \A p \in Procs : pc[p] = "new"
      /\ last = 0
    BY DEF Init
<1>2. Log = <<>>
  <2>1. \A i \in Slots : View[i] = <<>>
      BY <1>1, ViewFacts
  <2>2. QED
      BY <2>1, ChronicleIsChain, ViewFacts, ChainEmpty DEF Log
<1>3. InOrder(Log, last)
    BY <1>2, MissingFacts DEF InOrder
<1>4. QED
    BY <1>1, <1>2, <1>3 DEF Ranked, Held, Kept, Untouched, Writing

LEMMA LogStutter == ASSUME Types, Ranked, Kept, UNCHANGED vars PROVE Ranked' /\ Kept'
<1>0. /\ UNCHANGED <<dir, pc, fd, n, slot, record, last, failures, overlap>>
      /\ Log' = Log /\ Types'
  <2>1. UNCHANGED <<dir, pc, fd, appends, n, slot, record, created, last, failures, overlap>>
      BY DEF vars, sink
  <2>2. Types'
      BY <2>1 DEF Types
  <2>3. QED
      BY <2>1, <2>2, LogSame
<1>1. Ranked'
    BY <1>0 DEF Ranked, Held, InOrder
<1>2. \A p \in Procs : Content(p) => Content(p)'
    BY <1>0 DEF Content, FullBut, Before, Hole
<1>3. \A p \in Procs : Presence(p) => Presence(p)'
    BY <1>0 DEF Presence, Dense, Hole, Slot
<1>4. Untouched => Untouched'
    BY <1>0 DEF Untouched
<1>5. Quiet' => Quiet
    BY <1>0 DEF Quiet
<1>6. Kept'
    BY <1>0, <1>2, <1>3, <1>4, <1>5 DEF Kept
<1>7. QED
    BY <1>1, <1>6

LInv == IInv /\ Ranked /\ Kept

(* The files with what they read as: no step, whatever fails and wherever  *)
(* an invocation dies, puts the records out of order.                      *)
THEOREM LogInvariant == Spec => []LInv
<1>1. Init => LInv
    BY InitHolds, LogInit DEF LInv, IInv, Shape
<1>2. LInv /\ [Next]_vars => LInv'
  <2> SUFFICES ASSUME LInv, [Next]_vars PROVE LInv'
      OBVIOUS
  <2>1. IInv' /\ Types
      BY StepHolds DEF LInv, IInv, Shape
  <2>2. Ranked' /\ Kept'
    <3>1. CASE Next
      <4>1. PICK p \in Procs : Acts(p)
          BY <3>1 DEF Next, Acts
      <4>2. QED
          BY <4>1, RankedStep, KeptStep DEF LInv, IInv
    <3>2. CASE UNCHANGED vars
        BY <2>1, <3>2, LogStutter DEF LInv
    <3>3. QED
        BY <3>1, <3>2
  <2>3. QED
      BY <2>1, <2>2 DEF LInv
<1>3. QED
    BY <1>1, <1>2, PTL DEF Spec

(* The log, from the oldest archive to the live file, reads in the order   *)
(* it was written: across rotations (rotate, logsink.go), failed ones that *)
(* truncate the live file, restarts and crashes half way through.          *)
THEOREM LogIsChronological == Spec => []Chronological
<1>1. LInv => Chronological
    BY DEF LInv, Ranked, InOrder, Chronological
<1>2. QED
    BY <1>1, LogInvariant, PTL

(* rotate drops nothing early: as long as no call fails and no invocation  *)
(* ends, the log is the latest records without a gap, and the first one is *)
(* missing only once every archive is in use.                              *)
THEOREM LatestAreKept == Spec => []KeepsTheLatest
<1>1. LInv => KeepsTheLatest
  <2> SUFFICES ASSUME LInv, ~overlap, failures = 0, Log # <<>>,
                      \A p \in Procs : pc[p] \in {"new", "idle"}
               PROVE  /\ \A i \in 1..Len(Log) - 1 : Log[i + 1] - Log[i] \in {0, 1}
                      /\ Log[Len(Log)] = last
                      /\ Log[1] = 1 \/ \A i \in Slots : dir[i] # Missing
      BY DEF KeepsTheLatest
  <2>1. Quiet /\ ~Untouched /\ Log \in Text
      BY LogText DEF Quiet, Untouched, LInv, IInv, Shape
  <2>2. PICK p \in Procs : pc[p] = "idle"
      BY <2>1 DEF LInv, Kept
  <2>3. Content(p) /\ Before(p) = last /\ Hole(p) = Unlinked
      BY <2>1, <2>2 DEF LInv, Kept, Before, Hole, Writing
  <2>4. ASSUME NEW i \in 1..Len(Log) - 1 PROVE Log[i + 1] - Log[i] \in {0, 1}
    <3>1. i \in 1..Len(Log) /\ i + 1 \in 1..Len(Log)
        BY <2>1, TextFacts
    <3>2. Log[i] \in 0..MaxRecords /\ Log[i + 1] \in 0..MaxRecords
        BY <2>1, <3>1, TextFacts
    <3>3. Log[i + 1] = Log[i] \/ Log[i + 1] = Log[i] + 1
        BY <2>3 DEF Content, Gapless
    <3>4. MaxRecords \in Nat
        BY Sizes
    <3>5. QED
        BY <3>2, <3>3, <3>4
  <2>5. Log[Len(Log)] = last /\ (Log[1] = 1 \/ FullBut(Unlinked))
      BY <2>3 DEF Content
  <2>6. FullBut(Unlinked) => \A i \in Slots : dir[i] # Missing
      BY SlotFacts DEF FullBut
  <2>7. QED
      BY <2>4, <2>5, <2>6
<1>2. QED
    BY <1>1, LogInvariant, PTL

-----------------------------------------------------------------------------
(* LogSink implements RecordLog *)

Owing == \E p \in Procs : pc[p] \in Writing

Tape == INSTANCE RecordLog WITH log <- Log, owed <- Owing, shared <- overlap

LEMMA LogStartsEmpty == ASSUME Types, \A i \in Slots : dir[i] = Missing PROVE Log = <<>>
<1>1. \A i \in Slots : View[i] = <<>>
    BY ViewFacts
<1>2. View \in [Slots -> Text] /\ Chain(View, Chronicle)
    BY ViewFacts, ChronicleIsChain
<1>3. QED
    BY <1>1, <1>2, ChainEmpty DEF Log

(* What a part of a text is to the whole.                                  *)
LEMMA PartsOfText ==
  ASSUME NEW c \in Text, NEW d \in Text
  PROVE  Tape!Begins(c, c \o d) /\ Tape!Ends(d, c \o d)
<1>1. /\ Len(c) \in Nat /\ Len(d) \in Nat /\ Len(c \o d) = Len(c) + Len(d)
      /\ \A i \in 1..Len(c) : (c \o d)[i] = c[i]
      /\ \A i \in 1..Len(d) : (c \o d)[Len(c) + i] = d[i]
    BY TextFacts, TextConcat
<1>2. /\ Len(c) <= Len(c \o d) /\ Len(d) <= Len(c \o d)
      /\ Len(c \o d) - Len(d) = Len(c)
    BY <1>1
<1>3. QED
    BY <1>1, <1>2 DEF Tape!Begins, Tape!Ends

LEMMA TextItself == ASSUME NEW c \in Text PROVE Tape!Begins(c, c)
BY TextFacts DEF Tape!Begins

(* A text that grows at its end, by units of m.                            *)
Grows(c, d, m) == /\ Tape!Begins(c, d) /\ Len(c) < Len(d)
                  /\ \A i \in Len(c) + 1..Len(d) : d[i] = m

LEMMA TextGrows ==
  ASSUME NEW c \in Text, NEW s \in Text, NEW m, Len(s) > 0, \A i \in 1..Len(s) : s[i] = m
  PROVE  Grows(c, c \o s, m)
<1>1. /\ Len(c) \in Nat /\ Len(s) \in Nat /\ Len(c \o s) = Len(c) + Len(s)
      /\ \A i \in 1..Len(s) : (c \o s)[Len(c) + i] = s[i]
    BY TextFacts, TextConcat
<1>2. Tape!Begins(c, c \o s)
    BY PartsOfText
<1>3. ASSUME NEW i \in Len(c) + 1..Len(c \o s) PROVE (c \o s)[i] = m
  <2>1. i - Len(c) \in 1..Len(s) /\ Len(c) + (i - Len(c)) = i
      BY <1>1
  <2>2. (c \o s)[Len(c) + (i - Len(c))] = s[i - Len(c)] /\ s[i - Len(c)] = m
      BY <1>1, <2>1
  <2>3. QED
      BY <2>1, <2>2
<1>4. Len(c) < Len(c \o s)
    BY <1>1
<1>5. QED
    BY <1>2, <1>3, <1>4 DEF Grows

(* Only Write takes a record in hand; put, or the end, is the last of it.  *)
LEMMA HandStep ==
  ASSUME Shape, NEW p \in Procs, Acts(p)
  PROVE  /\ Write(p) => pc[p] = "idle" /\ pc'[p] \in Writing
         /\ ~Write(p) => UNCHANGED last /\ (pc'[p] \in Writing => pc[p] \in Writing)
         /\ pc[p] = "put" => pc'[p] \notin Writing
<1>0. Types
    BY DEF Shape
<1>1. CASE Start(p) \/ OpenFirst(p) \/ Protect(p)
  <2>1. /\ pc'[p] \in {"open", "protect", "idle", "ended"} /\ UNCHANGED last
        /\ pc[p] \in {"new", "open", "protect"}
      BY <1>1, FirstFacts
  <2>2. Write(p) => pc[p] = "idle"
      BY <1>0, WriteStarts
  <2>3. QED
      BY <2>1, <2>2 DEF Writing
<1>2. CASE Write(p)
    BY <1>0, <1>2, WriteStarts DEF Writing
<1>3. CASE rotate(p)
  <2>1. Write(p) => pc[p] = "idle"
      BY <1>0, WriteStarts
  <2>2. QED
      BY <1>0, <1>3, <2>1, RotateFacts DEF Writing
<1>4. CASE Truncate(p) \/ OpenFresh(p)
  <2>1. Write(p) => pc[p] = "idle"
      BY <1>0, WriteStarts
  <2>2. QED
      BY <1>0, <1>4, <2>1, ReopenFacts DEF Writing
<1>5. CASE Put(p)
  <2>1. Write(p) => pc[p] = "idle"
      BY <1>0, WriteStarts
  <2>2. QED
      BY <1>5, <2>1, PutFacts DEF Writing
<1>6. CASE End(p)
  <2>1. Write(p) => pc'[p] \in Writing
      BY <1>0, WriteStarts DEF Writing
  <2>2. pc'[p] \notin Writing /\ UNCHANGED last
      BY <1>0, <1>6, EndFacts DEF Writing
  <2>3. QED
      BY <2>1, <2>2
<1>7. QED
    BY <1>1, <1>2, <1>3, <1>4, <1>5, <1>6 DEF Acts, Returning

LEMMA TapeInit == Init /\ Types => Tape!Init
<1> SUFFICES ASSUME Init, Types PROVE Tape!Init
    OBVIOUS
<1>1. Log = <<>>
    BY LogStartsEmpty DEF Init
<1>2. Owing = FALSE
    BY DEF Init, Owing, Writing
<1>3. last = 0 /\ overlap = FALSE
    BY DEF Init
<1>4. QED
    BY <1>1, <1>2, <1>3 DEF Tape!Init

(* A step of the only invocation, seen on the tape.                        *)
LEMMA TapeStep ==
  ASSUME LInv, NEW p \in Procs, Acts(p), ~overlap'
  PROVE  Tape!Accept \/ Tape!Store \/ Tape!Drop
<1>0. Shape /\ Alone /\ Ranked
    BY DEF LInv, IInv
<1>1. /\ Types /\ Types' /\ UNCHANGED overlap /\ Solo(p) /\ Held(p) /\ Holding(p)
      /\ \A q \in Procs \ {p} : ~Alive(q) /\ ~Alive(q)'
  <2>1. ~overlap /\ \A q \in Procs \ {p} : ~Alive(q) /\ ~Alive(q)'
      BY <1>0, OnlyOne
  <2>2. overlap \in BOOLEAN /\ overlap' \in BOOLEAN /\ Types /\ Types'
      BY <1>0, ShapeStep DEF Shape, Types
  <2>3. Solo(p) /\ Held(p) /\ Holding(p)
      BY <1>0, <2>1 DEF Shape, Alone, Ranked
  <2>4. QED
      BY <2>1, <2>2, <2>3
<1>2. (Owing <=> pc[p] \in Writing) /\ (Owing' <=> pc'[p] \in Writing)
    BY <1>1 DEF Owing, Alive, Writing
<1>3. Log \in Text /\ Log' \in Text
    BY <1>1, LogText, LogTextThen
<1>4. CASE Write(p)
  <2>1. Log' = Log /\ last' = last + 1
      BY <1>1, <1>4, WriteStarts, WriteNumbers, LogSame
  <2>2. ~Owing /\ Owing'
      BY <1>0, <1>2, <1>4, HandStep DEF Writing
  <2>3. Owing' = TRUE
      BY <2>2 DEF Owing
  <2>4. QED
      BY <1>1, <2>1, <2>2, <2>3 DEF Tape!Accept
<1>5. CASE ~Write(p)
  <2>1. UNCHANGED last /\ (Owing' => Owing)
      BY <1>0, <1>2, <1>5, HandStep
  <2>2. CASE Tape!Begins(Log', Log) \/ Tape!Ends(Log', Log)
      BY <1>1, <2>1, <2>2 DEF Tape!Drop
  <2>3. CASE Log' = Log
    <3>1. Tape!Begins(Log', Log)
        BY <1>3, <2>3, TextItself
    <3>2. QED
        BY <2>2, <3>1
  <2>4. ASSUME NEW s \in Text, Log = s \o Log' \/ Log = Log' \o s
        PROVE  Tape!Begins(Log', Log) \/ Tape!Ends(Log', Log)
      BY <1>3, <2>4, PartsOfText
  <2>5. CASE pc[p] = "put" /\ Log' = Log \o record[p]
    <3>1. /\ record[p] \in Text /\ Len(record[p]) > 0
          /\ \A i \in 1..Len(record[p]) : record[p][i] = last
        BY <1>1, <2>5 DEF Types, Holding, Held, Writing
    <3>2. Grows(Log, Log \o record[p], last)
        BY <1>3, <3>1, TextGrows
    <3>3. /\ Tape!Begins(Log, Log') /\ Len(Log) < Len(Log')
          /\ \A i \in Len(Log) + 1..Len(Log') : Log'[i] = last
        BY <2>5, <3>2 DEF Grows
    <3>5. Owing /\ Owing' = FALSE
      <4>1. Owing /\ ~Owing'
          BY <1>0, <1>2, <2>5, HandStep DEF Writing
      <4>2. QED
          BY <4>1 DEF Owing
    <3>6. QED
        BY <1>1, <2>1, <3>3, <3>5 DEF Tape!Store
  <2>6. LogStep(p)
      BY <1>0, <1>1, LogSteps
  <2>7. QED
      BY <2>2, <2>3, <2>4, <2>5, <2>6 DEF LogStep
<1>6. QED
    BY <1>4, <1>5

LEMMA TapeNext == LInv /\ [Next]_vars => [Tape!Next]_Tape!vars
<1> SUFFICES ASSUME LInv, [Next]_vars PROVE [Tape!Next]_Tape!vars
    OBVIOUS
<1>1. CASE UNCHANGED vars
  <2>1. Types /\ Types' /\ UNCHANGED <<dir, pc, last, overlap>>
      BY <1>1, StepHolds DEF LInv, IInv, Shape, vars, sink
  <2>2. Log' = Log
      BY <2>1, LogSame
  <2>3. Owing' = Owing
      BY <2>1 DEF Owing
  <2>4. QED
      BY <2>1, <2>2, <2>3 DEF Tape!vars
<1>2. CASE Next
  <2>1. PICK p \in Procs : Acts(p)
      BY <1>2 DEF Next, Acts
  <2>2. overlap' \in BOOLEAN
      BY <2>1, ShapeStep DEF LInv, IInv, Shape, Types
  <2>3. CASE overlap'
      BY <2>2, <2>3 DEF Tape!Share, Tape!Next
  <2>4. CASE ~overlap'
      BY <2>1, <2>4, TapeStep DEF Tape!Next
  <2>5. QED
      BY <2>3, <2>4
<1>3. QED
    BY <1>1, <1>2

(* The files of the log implement the list of RecordLog: at every point of *)
(* a rotation (rotate, logsink.go), whichever operation fails and wherever *)
(* an invocation dies, each accepted record is stored once at most, in one *)
(* piece and at the end, and only an end of the list is ever dropped.      *)
THEOREM ImplementsRecordLog == Spec => Tape!Spec
<1>1. Init => Tape!Init
    BY InitHolds, TapeInit DEF IInv, Shape
<1>2. QED
    BY <1>1, TapeNext, LogInvariant, PTL DEF Spec, Tape!Spec
=============================================================================
