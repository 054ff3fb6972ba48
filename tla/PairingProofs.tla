---------------------------- MODULE PairingProofs ----------------------------
(***************************************************************************)
(* Proofs about Pairing, for any timeouts, budgets and backoffs, any       *)
(* duration of the requests and any moment of the authorisation and of a   *)
(* signal: the poll loop is bounded, a claim is not missed, and the budget *)
(* of failures is not spent before its backoffs have been slept.           *)
(***************************************************************************)
EXTENDS Pairing, WellFoundedInduction, TLAPS

(* The bound PollIsBounded sets: what one request and one backoff may add  *)
(* to the deadline of a loop that started as late as it can.               *)
Limit == httpClientTimeout + pollWallClockMax + pollPerRequestTO + pollNetMaxBackoff

(* There is an exit code once the loop is over, and the budget is spent    *)
(* only by ending it.                                                      *)
Ending ==
  /\ pc # "done" => exit = Running /\ netFailures < pollNetMaxFailures
  /\ exit \in {ExitSignal, ExitPairWallClockTimeout} => pc = "done"
  /\ pc = "start" => now = 0

(* How late it can be: a sleep starts no later than one request after the  *)
(* deadline, and lasts one backoff at most.                                *)
Clock ==
  /\ now <= cancelAt
  /\ exit = ExitSignal => now = cancelAt
  /\ deadline <= httpClientTimeout + pollWallClockMax
  /\ now <= Limit
  /\ pc \in {"top", "sleep"} => now <= deadline + pollPerRequestTO + pollNetMaxBackoff
  /\ pc = "sleep" => wake <= deadline + pollPerRequestTO + pollNetMaxBackoff

(* The last poll that got through was sent before the credentials were     *)
(* ready; what it took and the interval after it are at most one backoff.  *)
Recent(t) == unanswered \/ t <= deadline \/ t < readyAt + pollNetMaxBackoff
Seen ==
  /\ pc = "sleep" => Recent(wake)
  /\ pc = "top" => Recent(now)

IInv == TypeOK /\ Ending /\ Clock /\ Seen /\ ClaimIsSeen

-----------------------------------------------------------------------------
(* The timeouts are numbers.                                               *)
LEMMA Constants ==
  /\ pollIntervalDefault \in Nat \ {0} /\ pollPerRequestTO \in Nat \ {0}
  /\ pollWallClockMax \in Nat \ {0} /\ pollNetMaxFailures \in Nat \ {0}
  /\ pollNetMaxBackoff \in Nat \ {0} /\ httpClientTimeout \in Nat \ {0}
  /\ pollIntervalDefault <= pollNetMaxBackoff /\ pollPerRequestTO <= httpClientTimeout
  /\ pollPerRequestTO + pollIntervalDefault <= pollNetMaxBackoff
  /\ Durations \subseteq 0..httpClientTimeout
  /\ ReadyTimes \subseteq Nat /\ CancelTimes \subseteq Nat /\ Never \in Nat
BY PairingAssumption

(* The types of the numbers, for those steps the booleans take no part in. *)
Numbers ==
  /\ pc \in {"start", "top", "sleep", "save", "done"}
  /\ {now, deadline, wake, since, readyAt, cancelAt} \subseteq Nat
  /\ netFailures \in 0..pollNetMaxFailures
  /\ exit \in {0, 1, 2, 3, 4, 5, 6, ExitSignal, Running}

(* The shift of a backoff is capped, and so is what it shifts.             *)
LEMMA Powers == ASSUME NEW k \in 0..6 PROVE 2 ^ k \in Nat
<1>1. /\ 2 ^ 0 \in Nat /\ 2 ^ 1 \in Nat /\ 2 ^ 2 \in Nat /\ 2 ^ 3 \in Nat
      /\ 2 ^ 4 \in Nat /\ 2 ^ 5 \in Nat /\ 2 ^ 6 \in Nat
    OBVIOUS
<1>2. k = 0 \/ k = 1 \/ k = 2 \/ k = 3 \/ k = 4 \/ k = 5 \/ k = 6
    OBVIOUS
<1>3. QED
    BY <1>1, <1>2, Zenon

(* backoffFor never asks for more than pollNetMaxBackoff.                  *)
LEMMA BackoffIsCapped ==
  ASSUME NEW k \in Nat
  PROVE  backoffFor(k) \in 0..pollNetMaxBackoff
<1> DEFINE shift == Earlier(IF k < 1 THEN 0 ELSE k - 1, 6)
<1>1. shift \in 0..6
    BY DEF Earlier
<1>2. 2 ^ shift \in Nat
    BY <1>1, Powers
<1> HIDE DEF shift
<1> DEFINE d == pollIntervalDefault * 2 ^ shift
<1>3. d \in Nat
    BY <1>2, Constants
<1>4. backoffFor(k) = Earlier(d, pollNetMaxBackoff)
    BY DEF backoffFor, shift
<1> HIDE DEF d
<1>5. QED
    BY <1>3, <1>4, Constants DEF Earlier

(* A request ends within its timeout, and no later than the cancellation.  *)
LEMMA RequestEnds ==
  ASSUME TypeOK, NEW timeout, NEW d \in Durations, Request(timeout, d), timeout \in Nat
  PROVE  /\ now' \in Nat /\ now' <= cancelAt /\ now' <= now + timeout
         /\ Answers(timeout, d) => now' = now + d
BY Constants DEF TypeOK, Request, Answers, Earlier, ctxErr

-----------------------------------------------------------------------------
LEMMA Initially == Init => IInv
<1> SUFFICES ASSUME Init PROVE IInv
    OBVIOUS
<1> USE Constants DEF Init
<1>1. TypeOK
  <2>1. Numbers
      BY DEF Numbers
  <2>2. saved \in BOOLEAN /\ unanswered \in BOOLEAN
      OBVIOUS
  <2>3. QED
      BY <2>1, <2>2 DEF Numbers, TypeOK
<1>2. Ending
    BY DEF Ending, Running, ExitSignal, ExitPairWallClockTimeout
<1>3. Clock
    BY <1>1 DEF Clock, Limit, TypeOK, Running, ExitSignal
<1>4. Seen /\ ClaimIsSeen
    BY DEF Seen, ClaimIsSeen, Running, ExitPairWallClockTimeout
<1>5. QED
    BY <1>1, <1>2, <1>3, <1>4 DEF IInv

(* An ending that is neither a signal nor a timeout needs nothing but that *)
(* it did not take too long.                                               *)
LEMMA Ended ==
  ASSUME IInv, NEW code \in {0, 1, 2, 3, 4, 5}, Finish(code),
         now' \in Nat, now' <= cancelAt, now' <= Limit,
         netFailures' \in 0..pollNetMaxFailures, UNCHANGED <<deadline, wake, env>>,
         since' \in Nat, saved' \in BOOLEAN, unanswered' \in BOOLEAN
  PROVE  IInv'
<1> USE DEF IInv, Finish, env
<1>1. TypeOK'
    BY DEF TypeOK
<1>2. Ending'
    BY DEF Ending, ExitSignal, ExitPairWallClockTimeout
<1>3. Clock'
    BY DEF Clock, Limit, ExitSignal
<1>4. Seen' /\ ClaimIsSeen'
    BY DEF Seen, ClaimIsSeen, ExitPairWallClockTimeout
<1>5. QED
    BY <1>1, <1>2, <1>3, <1>4

(* pairInit and claimByToken                                               *)
LEMMA FirstRequest == ASSUME IInv, pairInit \/ claimByToken PROVE IInv'
<1>1. now = 0 /\ pc = "start" /\ exit = Running /\ netFailures < pollNetMaxFailures
    BY DEF IInv, Ending, pairInit, claimByToken
<1>2. PICK d \in Durations :
        /\ Request(httpClientTimeout, d)
        /\ \/ /\ pc' = "top" /\ deadline' = now' + pollWallClockMax
              /\ UNCHANGED <<exit, wake>>
           \/ /\ pc' = "save" /\ UNCHANGED <<exit, deadline, wake>>
           \/ /\ \E code \in {1, 2, 4, 5} : Finish(code)
              /\ UNCHANGED <<deadline, wake>>
  <2>1. CASE pairInit
      BY <2>1 DEF pairInit, ExitPairInitFailed
  <2>2. CASE claimByToken
      BY <2>2 DEF claimByToken, ExitNetworkBudgetExceeded, ExitExpiredOrNotFound,
                  ExitFatalRuntime
  <2>3. QED
      BY <2>1, <2>2
<1>3. UNCHANGED <<netFailures, saved, env, hist>>
    BY DEF pairInit, claimByToken
<1>4. now' \in Nat /\ now' <= cancelAt /\ now' <= httpClientTimeout
    BY <1>1, <1>2, Constants, RequestEnds DEF IInv
<1>5. now' <= Limit
    BY <1>4, Constants DEF Limit
<1>6. CASE pc' = "top" /\ deadline' = now' + pollWallClockMax /\ UNCHANGED <<exit, wake>>
  <2>0. /\ deadline' \in Nat /\ now' <= deadline'
        /\ deadline' <= httpClientTimeout + pollWallClockMax
        /\ now' <= deadline' + pollPerRequestTO + pollNetMaxBackoff
    <3>1. now' + pollWallClockMax = deadline'
        BY <1>6
    <3>2. QED
        BY <1>4, <3>1, Constants
  <2> USE DEF IInv, env, hist
  <2>1. TypeOK'
    <3>1. Numbers'
        BY <1>1, <1>3, <1>4, <1>6, <2>0 DEF TypeOK, Numbers
    <3>2. saved' \in BOOLEAN /\ unanswered' \in BOOLEAN
        BY <1>3 DEF TypeOK
    <3>3. QED
        BY <3>1, <3>2 DEF Numbers, TypeOK
  <2>2. Ending'
      BY <1>1, <1>3, <1>6 DEF Ending, Running, ExitSignal, ExitPairWallClockTimeout
  <2>3. Clock'
      BY <1>1, <1>3, <1>4, <1>5, <1>6, <2>0 DEF Clock, Running, ExitSignal
  <2>4. Seen' /\ ClaimIsSeen'
      BY <1>1, <1>4, <1>6, <2>0
      DEF Seen, Recent, ClaimIsSeen, Running, ExitPairWallClockTimeout
  <2>5. QED
      BY <2>1, <2>2, <2>3, <2>4
<1>7. CASE pc' = "save" /\ UNCHANGED <<exit, deadline, wake>>
  <2> USE DEF IInv, env, hist
  <2>1. TypeOK'
    <3>1. Numbers'
        BY <1>3, <1>4, <1>7 DEF TypeOK, Numbers
    <3>2. saved' \in BOOLEAN /\ unanswered' \in BOOLEAN
        BY <1>3 DEF TypeOK
    <3>3. QED
        BY <3>1, <3>2 DEF Numbers, TypeOK
  <2>2. Ending'
      BY <1>1, <1>3, <1>7 DEF Ending, Running, ExitSignal, ExitPairWallClockTimeout
  <2>3. Clock'
      BY <1>1, <1>3, <1>4, <1>5, <1>7 DEF Clock, Limit, Running, ExitSignal
  <2>4. Seen' /\ ClaimIsSeen'
      BY <1>1, <1>7 DEF Seen, ClaimIsSeen, Running, ExitPairWallClockTimeout
  <2>5. QED
      BY <2>1, <2>2, <2>3, <2>4
<1>8. CASE (\E code \in {1, 2, 4, 5} : Finish(code)) /\ UNCHANGED <<deadline, wake>>
  <2>1. /\ netFailures' \in 0..pollNetMaxFailures /\ since' \in Nat
        /\ saved' \in BOOLEAN /\ unanswered' \in BOOLEAN
      BY <1>3 DEF IInv, TypeOK, hist
  <2>2. QED
      BY <1>3, <1>4, <1>5, <1>8, <2>1, Ended
<1>9. QED
    BY <1>2, <1>6, <1>7, <1>8

(* sleepCtx: either the timer or the signal ends the sleep.                *)
LEMMA SleepEnds == ASSUME IInv, sleepCtx PROVE IInv'
<1>1. /\ pc = "sleep" /\ now' = Earlier(wake, cancelAt)
      /\ exit = Running /\ netFailures < pollNetMaxFailures
      /\ UNCHANGED <<deadline, wake, netFailures, saved, env, hist>>
    BY DEF sleepCtx, IInv, Ending
<1>2. now' \in Nat /\ now' <= cancelAt /\ now' <= wake
    BY <1>1 DEF IInv, TypeOK, Earlier
<1>3. now' <= deadline + pollPerRequestTO + pollNetMaxBackoff /\ now' <= Limit
  <2>1. wake <= deadline + pollPerRequestTO + pollNetMaxBackoff
        /\ deadline <= httpClientTimeout + pollWallClockMax
      BY <1>1 DEF IInv, Clock
  <2>2. deadline \in Nat /\ wake \in Nat
      BY DEF IInv, TypeOK
  <2>3. QED
      BY <1>2, <2>1, <2>2, Constants DEF Limit
<1>4. \/ now' = wake /\ pc' = "top" /\ exit' = exit
      \/ now' = cancelAt /\ pc' = "done" /\ exit' = ExitSignal
  <2>1. CASE now' = wake /\ pc' = "top" /\ UNCHANGED exit
      BY <2>1
  <2>2. CASE ctxErr(now') /\ Finish(ExitSignal)
    <3>1. now' >= cancelAt
        BY <1>1, <2>2 DEF ctxErr, env
    <3>2. cancelAt \in Nat
        BY DEF IInv, TypeOK
    <3>3. QED
        BY <1>2, <2>2, <3>1, <3>2 DEF Finish
  <2>3. QED
      BY <2>1, <2>2 DEF sleepCtx
<1>5. TypeOK'
  <2>1. Numbers'
      BY <1>1, <1>2, <1>4 DEF IInv, TypeOK, Numbers, env, hist
  <2>2. saved' \in BOOLEAN /\ unanswered' \in BOOLEAN
      BY <1>1 DEF IInv, TypeOK, hist
  <2>3. QED
      BY <2>1, <2>2 DEF Numbers, TypeOK
<1>6. Ending'
    BY <1>1, <1>4 DEF Ending, Running, ExitSignal, ExitPairWallClockTimeout
<1>7. Clock'
    BY <1>1, <1>2, <1>3, <1>4 DEF IInv, Clock, env, Running, ExitSignal
<1>8. Seen' /\ ClaimIsSeen'
    BY <1>1, <1>4 DEF IInv, Seen, Recent, ClaimIsSeen, env, hist, Running, ExitSignal,
                      ExitPairWallClockTimeout
<1>9. QED
    BY <1>5, <1>6, <1>7, <1>8 DEF IInv

(* The two checks at the top of the loop.                                  *)
LEMMA LoopEnds == ASSUME IInv, LoopTop PROVE IInv'
<1>1. /\ pc = "top" /\ pc' = "done" /\ exit = Running /\ netFailures < pollNetMaxFailures
      /\ UNCHANGED <<now, deadline, wake, netFailures, saved, env, hist>>
    BY DEF LoopTop, Finish, IInv, Ending
<1>2. \/ now = cancelAt /\ exit' = ExitSignal
      \/ now > deadline /\ exit' = ExitPairWallClockTimeout
  <2>1. now <= cancelAt /\ now \in Nat /\ cancelAt \in Nat
      BY DEF IInv, Clock, TypeOK
  <2>2. ctxErr(now) => now = cancelAt
      BY <2>1 DEF ctxErr
  <2>3. QED
      BY <2>2 DEF LoopTop, Finish
<1>3. TypeOK'
  <2>1. Numbers'
      BY <1>1, <1>2 DEF IInv, TypeOK, Numbers, env, hist, ExitPairWallClockTimeout
  <2>2. saved' \in BOOLEAN /\ unanswered' \in BOOLEAN
      BY <1>1 DEF IInv, TypeOK, hist
  <2>3. QED
      BY <2>1, <2>2 DEF Numbers, TypeOK
<1>4. Ending'
    BY <1>1 DEF Ending
<1>5. Clock'
    BY <1>1, <1>2 DEF IInv, Clock, env, ExitSignal, ExitPairWallClockTimeout
<1>6. Seen'
    BY <1>1 DEF Seen
<1>7. ClaimIsSeen'
  <2>1. now > deadline => unanswered \/ now < readyAt + pollNetMaxBackoff
    <3>1. now \in Nat /\ deadline \in Nat
        BY DEF IInv, TypeOK
    <3>2. Recent(now)
        BY <1>1 DEF IInv, Seen
    <3>3. QED
        BY <3>1, <3>2 DEF Recent
  <2>2. exit' = ExitPairWallClockTimeout => now > deadline
      BY <1>2 DEF ExitSignal, ExitPairWallClockTimeout
  <2>3. now > deadline /\ now < readyAt + pollNetMaxBackoff
          => readyAt + pollNetMaxBackoff > deadline
      BY Constants DEF IInv, TypeOK
  <2>4. QED
      BY <1>1, <2>1, <2>2, <2>3 DEF ClaimIsSeen, env, hist
<1>8. QED
    BY <1>3, <1>4, <1>5, <1>6, <1>7 DEF IInv

(* What begins before t and takes at most most ends before t + most.       *)
LEMMA SoonAfter ==
  ASSUME NEW s \in Nat, NEW t \in Nat, NEW most \in Nat, NEW b \in 0..most, s < t
  PROVE  s + b < t + most
OBVIOUS

(* A poll that was sent in time and did not end the loop.                  *)
LEMMA Asleep ==
  ASSUME IInv, pc = "top", pc' = "sleep", UNCHANGED <<exit, deadline, env>>,
         now' \in Nat, now' <= cancelAt, now' <= deadline + pollPerRequestTO,
         NEW backoff \in 0..pollNetMaxBackoff, now' + backoff = wake',
         netFailures' \in Nat, netFailures' < pollNetMaxFailures, since' \in Nat,
         saved' \in BOOLEAN, unanswered' \in BOOLEAN,
         unanswered' \/ wake' < readyAt + pollNetMaxBackoff
  PROVE  IInv'
<1>1. /\ exit = Running /\ deadline \in Nat /\ readyAt \in Nat /\ cancelAt \in Nat
      /\ deadline <= httpClientTimeout + pollWallClockMax
    BY DEF IInv, Ending, Clock, TypeOK
<1>2. /\ wake' \in Nat
      /\ wake' <= deadline + pollPerRequestTO + pollNetMaxBackoff
      /\ now' <= deadline + pollPerRequestTO + pollNetMaxBackoff
      /\ now' <= Limit
    BY <1>1, Constants DEF Limit
<1>4. TypeOK'
  <2>1. netFailures' \in 0..pollNetMaxFailures
      BY Constants
  <2>2. Numbers'
      BY <1>2, <2>1 DEF IInv, TypeOK, Numbers, env
  <2>3. QED
      BY <2>2 DEF Numbers, TypeOK
<1>5. Ending'
    BY <1>1 DEF Ending, Running, ExitSignal, ExitPairWallClockTimeout
<1>6. Clock'
    BY <1>1, <1>2 DEF Clock, env, Running, ExitSignal
<1>7. Seen' /\ ClaimIsSeen'
    BY <1>1 DEF Seen, Recent, ClaimIsSeen, env, Running, ExitPairWallClockTimeout
<1>8. QED
    BY <1>4, <1>5, <1>6, <1>7 DEF IInv

(* What every poll has in common.                                          *)
LEMMA PollEnds ==
  ASSUME IInv, NEW d \in Durations, Polling(d)
  PROVE  /\ pc = "top" /\ exit = Running /\ netFailures \in Nat
         /\ netFailures < pollNetMaxFailures
         /\ now' \in Nat /\ now' <= cancelAt /\ now' <= deadline + pollPerRequestTO
         /\ now' <= Limit
         /\ now \in Nat /\ now' <= now + pollPerRequestTO
<1>1. /\ pc = "top" /\ exit = Running /\ now <= deadline
      /\ netFailures < pollNetMaxFailures
      /\ netFailures \in Nat /\ now \in Nat /\ deadline \in Nat
      /\ deadline <= httpClientTimeout + pollWallClockMax
    BY Constants DEF Polling, IInv, Ending, Clock, TypeOK
<1>2. now' \in Nat /\ now' <= cancelAt /\ now' <= now + pollPerRequestTO
    BY Constants, RequestEnds DEF IInv, Polling
<1>3. now' <= deadline + pollPerRequestTO /\ now' <= Limit
    BY <1>1, <1>2, Constants DEF Limit
<1>4. QED
    BY <1>1, <1>2, <1>3

(* 202 *)
LEMMA Pending == ASSUME IInv, PollPending PROVE IInv'
<1>1. PICK d \in Durations : Polling(d) /\ ~ready(now)
    BY DEF PollPending
<1>2. /\ netFailures' = 0 /\ since' = 0 /\ pc' = "sleep"
      /\ now' + pollIntervalDefault = wake'
      /\ UNCHANGED <<deadline, exit, saved, env, unanswered>>
    BY DEF PollPending, Sleep
<1>3. wake' < readyAt + pollNetMaxBackoff
  <2>1. now \in Nat /\ now' \in Nat /\ now' <= now + pollPerRequestTO
      BY <1>1, PollEnds
  <2>2. readyAt \in Nat /\ now < readyAt
      BY <1>1, <2>1 DEF ready, IInv, TypeOK
  <2>3. wake' <= now + (pollPerRequestTO + pollIntervalDefault)
      BY <1>2, <2>1, Constants
  <2>4. QED
      BY <2>1, <2>2, <2>3, <1>2, Constants
<1>4. saved' \in BOOLEAN /\ unanswered' \in BOOLEAN
    BY <1>2 DEF IInv, TypeOK
<1>5. pollIntervalDefault \in 0..pollNetMaxBackoff /\ 0 < pollNetMaxFailures
    BY Constants
<1>6. QED
    BY <1>1, <1>2, <1>3, <1>4, <1>5, PollEnds, Asleep

(* A failed poll counts, and is followed by a backoff or the end.          *)
LEMMA Failing == ASSUME IInv, PollFails PROVE IInv'
<1>1. PICK d \in Durations : Polling(d)
    BY DEF PollFails
<1>2. /\ since' = (IF netFailures = 0 THEN now' ELSE since)
      /\ unanswered' = (unanswered \/ ready(now'))
      /\ UNCHANGED <<deadline, saved, env>>
    BY DEF PollFails
<1>3. /\ netFailures' = netFailures + 1
      /\ netFailures' \in Nat /\ netFailures' \in 0..pollNetMaxFailures
  <2>1. netFailures' = netFailures + 1
      BY DEF PollFails
  <2>2. QED
      BY <1>1, <2>1, PollEnds, Constants
<1>4. since' \in Nat
    BY <1>1, <1>2, PollEnds DEF IInv, TypeOK
<1>5. saved' \in BOOLEAN
    BY <1>2 DEF IInv, TypeOK
<1>6. unanswered' \in BOOLEAN
    BY <1>2, Zenon
<1>7. CASE /\ netFailures' < pollNetMaxFailures /\ pc' = "sleep" /\ UNCHANGED exit
           /\ wake' = now' + backoffFor(netFailures')
  <2>1. backoffFor(netFailures') \in 0..pollNetMaxBackoff
      BY <1>3, BackoffIsCapped
  <2>2. unanswered' \/ wake' < readyAt + pollNetMaxBackoff
    <3>1. now' \in Nat /\ readyAt \in Nat
        BY <1>1, PollEnds DEF IInv, TypeOK
    <3>2. ready(now') \/ now' < readyAt
        BY <1>2, <3>1 DEF ready, env
    <3>3. now' < readyAt => wake' < readyAt + pollNetMaxBackoff
        BY <1>7, <2>1, <3>1, Constants, SoonAfter
    <3>4. QED
        BY <1>2, <3>2, <3>3, Zenon
  <2>3. now' + backoffFor(netFailures') = wake'
      BY <1>7
  <2>4. QED
      BY <1>1, <1>2, <1>3, <1>4, <1>5, <1>6, <1>7, <2>1, <2>2, <2>3, PollEnds, Asleep
<1>8. CASE Finish(ExitNetworkBudgetExceeded) /\ UNCHANGED wake
    BY <1>1, <1>2, <1>3, <1>4, <1>5, <1>6, <1>8, PollEnds, Ended
    DEF ExitNetworkBudgetExceeded
<1>9. QED
    BY <1>7, <1>8 DEF PollFails, Sleep

(* 200, and the statuses that end the loop.                                *)
LEMMA Answered == ASSUME IInv, PollClaimed \/ PollRefused PROVE IInv'
<1>1. PICK d \in Durations : Polling(d)
    BY DEF PollClaimed, PollRefused
<1>2. UNCHANGED <<deadline, wake, netFailures, saved, env, since, unanswered>>
    BY DEF PollClaimed, PollRefused
<1>3. \/ \E code \in {1, 3, 4} : Finish(code)
      \/ pc' = "save" /\ UNCHANGED exit
    BY DEF PollClaimed, PollRefused, ExitUserCancelled, ExitExpiredOrNotFound,
           ExitFatalRuntime
<1>4. /\ netFailures' \in 0..pollNetMaxFailures /\ since' \in Nat
      /\ saved' \in BOOLEAN /\ unanswered' \in BOOLEAN
    BY <1>2 DEF IInv, TypeOK
<1>5. CASE \E code \in {1, 3, 4} : Finish(code)
    BY <1>1, <1>2, <1>4, <1>5, PollEnds, Ended
<1>6. CASE pc' = "save" /\ UNCHANGED exit
  <2>0. exit = Running /\ now' \in Nat /\ now' <= cancelAt /\ now' <= Limit
      BY <1>1, PollEnds
  <2>1. TypeOK'
    <3>1. Numbers'
        BY <1>2, <1>6, <2>0 DEF IInv, TypeOK, Numbers, env
    <3>2. QED
        BY <1>4, <3>1 DEF Numbers, TypeOK
  <2>2. Ending'
      BY <1>1, <1>2, <1>6, PollEnds
      DEF Ending, Running, ExitSignal, ExitPairWallClockTimeout
  <2>3. Clock'
      BY <1>2, <1>6, <2>0 DEF IInv, Clock, env, Running, ExitSignal
  <2>4. Seen' /\ ClaimIsSeen'
      BY <1>6, <2>0 DEF Seen, ClaimIsSeen, Running, ExitPairWallClockTimeout
  <2>5. QED
      BY <2>1, <2>2, <2>3, <2>4 DEF IInv
<1>7. QED
    BY <1>3, <1>5, <1>6

(* SaveConfig, whose failure is only a warning.                            *)
LEMMA Saving == ASSUME IInv, Persist PROVE IInv'
<1>1. /\ Finish(0) /\ saved' \in BOOLEAN
      /\ UNCHANGED <<now, deadline, wake, netFailures, env, hist>>
    BY DEF Persist, ExitOK
<1>2. /\ now' \in Nat /\ now' <= cancelAt /\ now' <= Limit
      /\ netFailures' \in 0..pollNetMaxFailures /\ since' \in Nat
    BY <1>1 DEF IInv, TypeOK, Clock, hist
<1>3. unanswered' \in BOOLEAN
    BY <1>1 DEF IInv, TypeOK, hist
<1>4. QED
    BY <1>1, <1>2, <1>3, Ended

LEMMA Inductive == IInv /\ [Next]_vars => IInv'
<1> SUFFICES ASSUME IInv, [Next]_vars PROVE IInv'
    OBVIOUS
<1>1. CASE Next
    BY <1>1, FirstRequest, SleepEnds, LoopEnds, Pending, Failing, Answered, Saving
    DEF Next, pairPoll
<1>2. CASE UNCHANGED vars
    BY <1>2 DEF IInv, TypeOK, Ending, Clock, Seen, Recent, ClaimIsSeen, ready, vars, env,
                hist
<1>3. QED
    BY <1>1, <1>2

-----------------------------------------------------------------------------
(* Recursion over numbers                                                  *)

(* A set of numbers that is not empty has a smallest element ...           *)
LEMMA Smallest ==
  ASSUME NEW T \in SUBSET Nat, T # {}
  PROVE  \E x \in T : \A y \in T : x <= y
<1>1. IsWellFoundedOn(OpToRel(<, Nat), Nat)
    BY NatLessThanWellFounded
<1> DEFINE R == OpToRel(<, Nat)
<1>2. \A x, y \in Nat : x < y => <<x, y>> \in R
    BY DEF OpToRel
<1>3. IsWellFoundedOn(R, Nat)
    BY <1>1
<1> HIDE DEF R
<1>4. PICK x \in T : \A y \in T : ~(<<y, x>> \in R)
    BY <1>3, WFMin
<1>5. ASSUME NEW y \in T PROVE x <= y
  <2>1. x \in Nat /\ y \in Nat
      OBVIOUS
  <2>2. ~(y < x)
      BY <1>2, <1>4, <2>1
  <2>3. QED
      BY <2>1, <2>2
<1>6. QED
    BY <1>5

(* ... which is induction, for sets of numbers instead of predicates.      *)
LEMMA Induction ==
  ASSUME NEW S, 0 \in S, \A k \in Nat : k \in S => k + 1 \in S
  PROVE  Nat \subseteq S
<1>1. SUFFICES ASSUME Nat \ S # {} PROVE FALSE
    OBVIOUS
<1>2. PICK m \in Nat \ S : \A y \in Nat \ S : m <= y
    BY <1>1, Smallest
<1>3. m # 0 /\ m - 1 \in Nat /\ m - 1 \in S
    BY <1>2
<1>4. m - 1 + 1 = m
    BY <1>2
<1>5. QED
    BY <1>2, <1>3, <1>4

(* The partial sums of a function on the naturals.                         *)
Sums(b, f, k) == /\ f \in [0..k -> Nat] /\ f[0] = 0
                 /\ \A i \in 1..k : f[i] = f[i - 1] + b[i]

LEMMA SumsExist ==
  ASSUME NEW b \in [Nat -> Nat], NEW k \in Nat PROVE \E f : Sums(b, f, k)
<1> DEFINE S == {m \in Nat : \E f : Sums(b, f, m)}
<1>1. 0 \in S
  <2>1. Sums(b, [i \in 0..0 |-> 0], 0)
      BY DEF Sums
  <2>2. QED
      BY <2>1
<1>2. ASSUME NEW m \in Nat, m \in S PROVE m + 1 \in S
  <2>1. PICK f : Sums(b, f, m)
      BY <1>2
  <2> DEFINE g == [i \in 0..m + 1 |-> IF i = m + 1 THEN f[m] + b[m + 1] ELSE f[i]]
  <2>2. m + 1 \in Nat /\ b[m + 1] \in Nat /\ m \in 0..m /\ f[m] \in Nat /\ f[0] = 0
      BY <2>1 DEF Sums
  <2>3. \A i \in 0..m + 1 : i # m + 1 => i \in 0..m
      OBVIOUS
  <2>4. g \in [0..m + 1 -> Nat]
    <3>1. \A i \in 0..m : f[i] \in Nat
        BY <2>1 DEF Sums
    <3>2. \A i \in 0..m + 1 : (IF i = m + 1 THEN f[m] + b[m + 1] ELSE f[i]) \in Nat
        BY <2>2, <2>3, <3>1
    <3>3. QED
        BY <3>2
  <2>5. g[0] = 0
      BY <2>2
  <2>6. ASSUME NEW i \in 1..m + 1 PROVE g[i] = g[i - 1] + b[i]
    <3>1. CASE i = m + 1
      <4>1. i - 1 = m /\ m # m + 1 /\ m \in 0..m + 1 /\ i \in 0..m + 1
          BY <3>1
      <4>2. g[m] = f[m] /\ g[i] = f[m] + b[m + 1]
          BY <3>1, <4>1
      <4>3. QED
          BY <3>1, <4>1, <4>2
    <3>2. CASE i # m + 1
      <4>1. i \in 1..m /\ i - 1 \in 0..m + 1 /\ i - 1 # m + 1 /\ i \in 0..m + 1
          BY <3>2
      <4>2. g[i] = f[i] /\ g[i - 1] = f[i - 1]
          BY <3>2, <4>1
      <4>3. QED
          BY <2>1, <4>1, <4>2 DEF Sums
    <3>3. QED
        BY <3>1, <3>2
  <2> HIDE DEF g
  <2>7. Sums(b, g, m + 1)
      BY <2>4, <2>5, <2>6 DEF Sums
  <2>8. QED
      BY <2>2, <2>7
<1> HIDE DEF S
<1>3. Nat \subseteq S
    BY <1>1, <1>2, Induction
<1>4. QED
    BY <1>3 DEF S

LEMMA SumsAgree ==
  ASSUME NEW b \in [Nat -> Nat], NEW k \in Nat, NEW l \in Nat, NEW f, NEW g,
         Sums(b, f, k), Sums(b, g, l), NEW i \in Nat, i <= k, i <= l
  PROVE  f[i] = g[i]
<1> DEFINE S == {m \in Nat : m <= k /\ m <= l => f[m] = g[m]}
<1>1. 0 \in S
    BY DEF Sums
<1>2. ASSUME NEW m \in Nat, m \in S PROVE m + 1 \in S
  <2>1. SUFFICES ASSUME m + 1 <= k, m + 1 <= l PROVE f[m + 1] = g[m + 1]
      OBVIOUS
  <2>2. m + 1 \in 1..k /\ m + 1 \in 1..l /\ m + 1 - 1 = m /\ m <= k /\ m <= l
      BY <2>1
  <2>3. f[m] = g[m]
      BY <1>2, <2>2
  <2>4. f[m + 1] = f[m + 1 - 1] + b[m + 1] /\ g[m + 1] = g[m + 1 - 1] + b[m + 1]
    <3>1. /\ \A j \in 1..k : f[j] = f[j - 1] + b[j]
          /\ \A j \in 1..l : g[j] = g[j - 1] + b[j]
        BY DEF Sums
    <3>2. QED
        BY <2>2, <3>1
  <2>5. QED
      BY <2>2, <2>3, <2>4
<1> HIDE DEF S
<1>3. Nat \subseteq S
    BY <1>1, <1>2, Induction
<1>4. QED
    BY <1>3 DEF S

LEMMA AllSums ==
  ASSUME NEW b \in [Nat -> Nat]
  PROVE  \E f \in [Nat -> Nat] :
           f[0] = 0 /\ \A n \in Nat : n # 0 => f[n] = f[n - 1] + b[n]
<1> DEFINE Upto(k) == CHOOSE f : Sums(b, f, k)
           F == [n \in Nat |-> Upto(n)[n]]
<1>1. \A k \in Nat : Sums(b, Upto(k), k)
  <2>1. \A k \in Nat : \E f : Sums(b, f, k)
      BY SumsExist
  <2>2. QED
      BY <2>1
<1> HIDE DEF Upto
<1>2. F \in [Nat -> Nat]
  <2>1. \A k \in Nat : k \in 0..k
      OBVIOUS
  <2>2. \A k \in Nat : Upto(k)[k] \in Nat
      BY <1>1, <2>1 DEF Sums
  <2>3. QED
      BY <2>2
<1>3. F[0] = 0
    BY <1>1 DEF Sums
<1>4. ASSUME NEW n \in Nat, n # 0 PROVE F[n] = F[n - 1] + b[n]
  <2>1. n - 1 \in Nat /\ n - 1 <= n /\ n \in 1..n
      BY <1>4
  <2>2. Upto(n)[n] = Upto(n)[n - 1] + b[n]
      BY <1>1, <2>1 DEF Sums
  <2>3. Upto(n)[n - 1] = Upto(n - 1)[n - 1]
    <3>1. Sums(b, Upto(n), n) /\ Sums(b, Upto(n - 1), n - 1)
        BY <1>1, <2>1
    <3>2. QED
        BY <2>1, <3>1, SumsAgree
  <2>4. QED
      BY <2>1, <2>2, <2>3
<1> HIDE DEF F
<1>5. QED
    BY <1>2, <1>3, <1>4

-----------------------------------------------------------------------------
(* The patience of pairPoll *)

(* patience is what its recursive definition says.                         *)
LEMMA PatienceSums ==
  /\ patience \in [Nat -> Nat] /\ patience[0] = 0
  /\ \A k \in Nat : patience[k + 1] = patience[k] + backoffFor(k + 1)
<1> DEFINE b == [k \in Nat |-> backoffFor(k)]
           Is(f) == f = [k \in Nat |-> IF k = 0 THEN 0 ELSE f[k - 1] + backoffFor(k)]
<1>1. b \in [Nat -> Nat]
  <2>1. \A k \in Nat : backoffFor(k) \in Nat
      BY BackoffIsCapped, Constants
  <2>2. QED
      BY <2>1
<1>2. PICK f \in [Nat -> Nat] : f[0] = 0 /\ \A k \in Nat : k # 0 => f[k] = f[k - 1] + b[k]
    BY <1>1, AllSums
<1>3. Is(f)
  <2>1. \A k \in Nat : f[k] = IF k = 0 THEN 0 ELSE f[k - 1] + backoffFor(k)
      BY <1>2
  <2>2. f = [k \in Nat |-> f[k]]
      BY <1>2
  <2>3. QED
      BY <2>1, <2>2
<1>4. patience = CHOOSE g : Is(g)
    BY DEF patience
<1> HIDE DEF Is
<1>5. Is(patience)
    BY <1>3, <1>4
<1>6. patience = [k \in Nat |-> IF k = 0 THEN 0 ELSE patience[k - 1] + backoffFor(k)]
    BY <1>5 DEF Is
<1>7. /\ patience[0] = 0
      /\ \A k \in Nat : patience[k + 1] = patience[k] + backoffFor(k + 1)
  <2>1. 0 \in Nat /\ \A k \in Nat : k + 1 \in Nat /\ k + 1 # 0 /\ k + 1 - 1 = k
      OBVIOUS
  <2>2. \A k \in Nat : patience[k] = IF k = 0 THEN 0 ELSE patience[k - 1] + backoffFor(k)
      BY <1>6
  <2> HIDE <1>6
  <2>3. QED
      BY <2>1, <2>2
<1>8. patience \in [Nat -> Nat]
  <2> DEFINE S == {k \in Nat : patience[k] \in Nat}
  <2>1. 0 \in S
      BY <1>7
  <2>2. ASSUME NEW k \in Nat, k \in S PROVE k + 1 \in S
    <3>1. backoffFor(k + 1) \in Nat
        BY BackoffIsCapped, Constants
    <3>2. QED
        BY <1>7, <2>2, <3>1
  <2> HIDE DEF S
  <2>3. Nat \subseteq S
      BY <2>1, <2>2, Induction
  <2>4. \A k \in Nat : patience[k] \in Nat
      BY <2>3 DEF S
  <2>5. patience = [k \in Nat |-> patience[k]]
      BY <1>6
  <2>6. QED
      BY <2>4, <2>5
<1>9. QED
    BY <1>7, <1>8

(* The backoffs since the first failure have been slept before the next    *)
(* poll.                                                                   *)
Slept ==
  /\ pc = "start" => deadline = 0 /\ netFailures = 0
  /\ netFailures > 0 /\ pc = "sleep" => since + patience[netFailures] <= wake
  /\ netFailures > 0 /\ pc = "top" => since + patience[netFailures] <= now

(* What a failure adds to it.                                              *)
LEMMA FailureIsSlept ==
  ASSUME NEW k \in Nat, NEW s \in Nat, NEW t \in Nat, NEW u \in Nat, NEW w,
         t <= u, k > 0 => s + patience[k] <= t, w = u + backoffFor(k + 1)
  PROVE  LET first == IF k = 0 THEN u ELSE s IN
           /\ first + patience[k] <= u /\ first + patience[k + 1] <= w
<1>1. /\ patience[k] \in Nat /\ backoffFor(k + 1) \in Nat
      /\ patience[k + 1] = patience[k] + backoffFor(k + 1) /\ patience[0] = 0
    BY PatienceSums, BackoffIsCapped, Constants
<1>2. CASE k = 0
    BY <1>1, <1>2
<1>3. CASE k # 0
    BY <1>1, <1>3
<1>4. QED
    BY <1>2, <1>3

LEMMA SleptStep == ASSUME IInv, Slept, BudgetIsPatient, [Next]_vars
                   PROVE  Slept' /\ BudgetIsPatient'
<1>0. /\ netFailures \in Nat /\ since \in Nat /\ now \in Nat /\ wake \in Nat
      /\ deadline \in Nat /\ now <= cancelAt /\ cancelAt \in Nat
      /\ pc # "done" => exit = Running /\ netFailures < pollNetMaxFailures
    BY Constants DEF IInv, TypeOK, Clock, Ending
<1> USE DEF Slept, BudgetIsPatient, Running, ExitNetworkBudgetExceeded, Finish
<1>1. CASE UNCHANGED vars
    BY <1>1 DEF vars, env, hist
<1>2. CASE pairInit \/ claimByToken
  <2>1. /\ pc = "start" /\ netFailures' = 0 /\ exit = Running
        /\ pc' # "sleep" /\ pc' # "start"
        /\ exit' = ExitNetworkBudgetExceeded => deadline' = 0
      BY <1>0, <1>2 DEF pairInit, claimByToken, ExitPairInitFailed
  <2>2. QED
      BY <2>1
<1>3. CASE sleepCtx
  <2>1. /\ pc = "sleep" /\ UNCHANGED <<netFailures, since>> /\ exit' # ExitNetworkBudgetExceeded
        /\ pc' = "done" \/ (pc' = "top" /\ now' = wake)
      BY <1>0, <1>3 DEF sleepCtx, hist, ExitSignal
  <2>2. QED
      BY <2>1
<1>4. CASE LoopTop
  <2>1. pc' = "done" /\ exit' # ExitNetworkBudgetExceeded
      BY <1>4 DEF LoopTop, ExitSignal, ExitPairWallClockTimeout
  <2>2. QED
      BY <2>1
<1>5. CASE PollPending
  <2>1. netFailures' = 0 /\ pc' = "sleep" /\ UNCHANGED exit /\ pc = "top"
      BY <1>5 DEF PollPending, Sleep, Polling
  <2>2. QED
      BY <1>0, <2>1
<1>6. CASE PollClaimed \/ PollRefused \/ Persist
  <2>1. pc # "done" /\ pc' \in {"save", "done"} /\ exit' # ExitNetworkBudgetExceeded
      BY <1>0, <1>6 DEF PollClaimed, PollRefused, Persist, Polling, ExitFatalRuntime, ExitOK,
                  ExitUserCancelled, ExitExpiredOrNotFound
  <2>2. QED
      BY <2>1
<1>7. CASE PollFails
  <2>1. PICK d \in Durations : Polling(d)
      BY <1>7 DEF PollFails
  <2>2. pc = "top" /\ exit = Running /\ now' \in Nat /\ now <= now'
    <3>1. d \in Nat
        BY Constants
    <3>2. QED
        BY <1>0, <2>1, <3>1 DEF Polling, Request, Earlier
  <2>3. /\ netFailures' = netFailures + 1
        /\ since' = IF netFailures = 0 THEN now' ELSE since
        /\ \/ (netFailures' >= pollNetMaxFailures /\ pc' = "done")
           \/ (pc' = "sleep" /\ wake' = now' + backoffFor(netFailures + 1) /\ UNCHANGED exit)
      BY <1>7 DEF PollFails, Sleep
  <2>4. /\ since' + patience[netFailures] <= now'
        /\ since' + patience[netFailures + 1] <= now' + backoffFor(netFailures + 1)
    <3>1. netFailures > 0 => since + patience[netFailures] <= now
        BY <2>2
    <3>2. netFailures > 0 => since + patience[netFailures] <= now'
        BY <1>0, <2>2, <3>1, PatienceSums
    <3>3. QED
        BY <1>0, <2>2, <2>3, <3>2, FailureIsSlept
  <2>5. CASE pc' = "done"
    <3>1. netFailures = pollNetMaxFailures - 1
        BY <1>0, <2>2, <2>3, <2>5, Constants
    <3>2. since' + patience[pollNetMaxFailures - 1] <= now'
        BY <2>4, <3>1
    <3>3. patience[pollNetMaxFailures - 1] \in Nat /\ since' \in Nat
        BY <1>0, <2>2, <2>3, <3>1, PatienceSums
    <3>4. now' - since' >= patience[pollNetMaxFailures - 1]
        BY <2>2, <3>2, <3>3
    <3>5. QED
        BY <2>5, <3>4
  <2>6. CASE pc' = "sleep"
    <3>1. exit' = Running /\ wake' = now' + backoffFor(netFailures + 1)
        BY <2>2, <2>3, <2>6
    <3>2. since' + patience[netFailures'] <= wake'
        BY <2>3, <2>4, <3>1
    <3>3. QED
        BY <2>6, <3>1, <3>2
  <2>7. QED
      BY <2>3, <2>5, <2>6
<1>8. QED
    BY <1>1, <1>2, <1>3, <1>4, <1>5, <1>6, <1>7 DEF Next, pairPoll

-----------------------------------------------------------------------------
(* Whatever a request costs, however the polls fail and whenever the user  *)
(* or a signal interferes: how late the loop can be, and what it may have  *)
(* missed.                                                                 *)
THEOREM PairingInvariant == Spec => []IInv
BY Initially, Inductive, PTL DEF Spec

(* The variables of PairAndPersist keep their types: in particular the     *)
(* consecutive failures never exceed pollNetMaxFailures (client/pair.go).  *)
THEOREM PairingTypeCorrect == Spec => []TypeOK
<1>1. IInv => TypeOK
    BY DEF IInv
<1>2. QED
    BY <1>1, PairingInvariant, PTL

(* pairPoll overruns its wall clock by one request and one backoff at      *)
(* most, for any timeouts, never sleeps through a signal, and reports one  *)
(* only when it came.                                                      *)
THEOREM PollEndsInTime == Spec => []PollIsBounded
<1>1. IInv => PollIsBounded
    BY DEF IInv, Clock, Limit, PollIsBounded
<1>2. QED
    BY <1>1, PairingInvariant, PTL

(* pairPoll times out although the credentials are ready only when a poll  *)
(* has failed since they were, or when they became ready in the last       *)
(* backoff before the deadline; the saga may keep it waiting for any time  *)
(* after the authorisation.                                                *)
THEOREM ClaimsAreSeen == Spec => []ClaimIsSeen
<1>1. IInv => ClaimIsSeen
    BY DEF IInv
<1>2. QED
    BY <1>1, PairingInvariant, PTL

(* pairPoll gives up on the network (client/pair.go) only after all the    *)
(* backoffs but the last have been slept since the first of the failures,  *)
(* for any interval, cap and number of failures.                           *)
THEOREM BudgetIsSlept == Spec => []BudgetIsPatient
<1>1. Init => Slept /\ BudgetIsPatient
    BY DEF Init, Slept, BudgetIsPatient, Running, ExitNetworkBudgetExceeded
<1>2. IInv /\ Slept /\ BudgetIsPatient /\ [Next]_vars => Slept' /\ BudgetIsPatient'
    BY SleptStep
<1>3. QED
    BY <1>1, <1>2, PairingInvariant, PTL DEF Spec

=============================================================================
