------------------------------ MODULE Pairing ------------------------------
(***************************************************************************)
(* Pairing of a device (client/pair.go): PairAndPersist with pairInit, the *)
(* loop of pairPoll and SaveConfig, and the headless claimByToken.         *)
(*                                                                         *)
(* Time is a number of seconds and passes only while the client waits, in  *)
(* a request or in sleepCtx.  When the server has the credentials ready    *)
(* and when a signal cancels the context are fixed beforehand, so that     *)
(* both can fall anywhere inside a wait.                                   *)
(***************************************************************************)
EXTENDS Naturals

CONSTANTS pollIntervalDefault, \* 2 s in the code
          pollPerRequestTO,    \* 10 s
          pollWallClockMax,    \* 600 s
          pollNetMaxFailures,  \* 30
          pollNetMaxBackoff,   \* 30 s
          httpClientTimeout,   \* 15 s
          Durations,           \* how long a request may take
          ReadyTimes,          \* when the credentials may be ready
          CancelTimes,         \* when a signal may arrive
          Never                \* beyond the end of every run

ASSUME PairingAssumption ==
  /\ {pollIntervalDefault, pollPerRequestTO, pollWallClockMax} \subseteq Nat \ {0}
  /\ {pollNetMaxFailures, pollNetMaxBackoff, httpClientTimeout} \subseteq Nat \ {0}
  /\ pollIntervalDefault <= pollNetMaxBackoff
  /\ pollPerRequestTO <= httpClientTimeout
  /\ pollPerRequestTO + pollIntervalDefault <= pollNetMaxBackoff
  /\ Durations \subseteq 0..httpClientTimeout
  /\ ReadyTimes \subseteq Nat /\ CancelTimes \subseteq Nat /\ Never \in Nat

VARIABLES
  pc,          \* "start", "top", "sleep", "save" or "done"
  now,         \* the clock
  deadline,    \* pairPoll's deadline
  wake,        \* when the timer of sleepCtx fires
  netFailures, \* consecutive failures
  exit,        \* the exit code; Running before there is one
  saved,       \* the credentials are in the config file
  readyAt,     \* environment: when the user has authorised the device and
               \* the server has provisioned its peer
  cancelAt,    \* environment: when the context is cancelled
  since,       \* history: when the first of the consecutive failures came
  unanswered   \* history: a poll that ended after readyAt has failed

env  == <<readyAt, cancelAt>>
hist == <<since, unanswered>>
vars == <<pc, now, deadline, wake, netFailures, exit, saved, env, hist>>

ExitOK == 0
ExitFatalRuntime == 1
ExitPairInitFailed == 2
ExitUserCancelled == 3
ExitExpiredOrNotFound == 4
ExitNetworkBudgetExceeded == 5
ExitPairWallClockTimeout == 6
ExitSignal == 130
Running == 999

ctxErr(t)  == t >= cancelAt
ready(t) == t >= readyAt
Earlier(s, t) == IF s < t THEN s ELSE t

Init ==
  /\ pc = "start" /\ now = 0
  /\ deadline = 0 /\ wake = 0 /\ netFailures = 0
  /\ exit = Running /\ saved = FALSE
  /\ readyAt \in ReadyTimes \union {Never}
  /\ cancelAt \in CancelTimes \union {Never}
  /\ since = 0 /\ unanswered = FALSE

Finish(code) == pc' = "done" /\ exit' = code

(* A request with the given timeout: it ends after some duration, with an  *)
(* error when it took that long or the context was cancelled meanwhile.    *)
Request(timeout, d) ==
  /\ d \in Durations /\ d <= timeout
  /\ now' = Earlier(now + d, cancelAt)
Answers(timeout, d) == d < timeout /\ ~ctxErr(now + d)

-----------------------------------------------------------------------------
(* pairInit: any error, a cancelled context included, is exit code 2.      *)
pairInit ==
  /\ pc = "start"
  /\ \E d \in Durations :
       /\ Request(httpClientTimeout, d)
       /\ \/ /\ Answers(httpClientTimeout, d)
             /\ pc' = "top" /\ deadline' = now' + pollWallClockMax
             /\ UNCHANGED exit
          \/ Finish(ExitPairInitFailed) /\ UNCHANGED deadline
  /\ UNCHANGED <<wake, netFailures, saved, env, hist>>

(* The headless claim, which makes a single request.                       *)
claimByToken ==
  /\ pc = "start"
  /\ \E d \in Durations :
       /\ Request(httpClientTimeout, d)
       /\ \/ Finish(ExitNetworkBudgetExceeded)
          \/ /\ Answers(httpClientTimeout, d)
             /\ \/ pc' = "save" /\ UNCHANGED exit
                \/ Finish(ExitExpiredOrNotFound)
                \/ Finish(ExitFatalRuntime)
  /\ UNCHANGED <<deadline, wake, netFailures, saved, env, hist>>

-----------------------------------------------------------------------------
(* pairPoll *)

backoffFor(failures) ==
  LET shift == Earlier(IF failures < 1 THEN 0 ELSE failures - 1, 6)
  IN  Earlier(pollIntervalDefault * 2 ^ shift, pollNetMaxBackoff)

(* Mutant: the timer alone ends the sleep.                                 *)
sleepCtxDeaf ==
  /\ pc = "sleep"
  /\ now' = wake
  /\ pc' = "top" /\ UNCHANGED exit
  /\ UNCHANGED <<deadline, wake, netFailures, saved, env, hist>>

(* select between the timer and the context; when both are ready either    *)
(* case may be chosen.                                                     *)
sleepCtx ==
  /\ pc = "sleep"
  /\ now' = Earlier(wake, cancelAt)
  /\ \/ now' = wake /\ pc' = "top" /\ UNCHANGED exit
     \/ ctxErr(now') /\ Finish(ExitSignal)
  /\ UNCHANGED <<deadline, wake, netFailures, saved, env, hist>>

Sleep(d) == pc' = "sleep" /\ wake' = now' + d

(* Mutant: give up when a full backoff no longer fits before the deadline. *)
LoopTopEarly ==
  /\ pc = "top"
  /\ \/ ctxErr(now) /\ Finish(ExitSignal)
     \/ /\ ~ctxErr(now) /\ now + pollNetMaxBackoff > deadline
        /\ Finish(ExitPairWallClockTimeout)
  /\ UNCHANGED <<now, deadline, wake, netFailures, saved, env, hist>>

(* The two checks at the top of the loop.                                  *)
LoopTop ==
  /\ pc = "top"
  /\ \/ ctxErr(now) /\ Finish(ExitSignal)
     \/ ~ctxErr(now) /\ now > deadline /\ Finish(ExitPairWallClockTimeout)
  /\ UNCHANGED <<now, deadline, wake, netFailures, saved, env, hist>>

Polling(d) ==
  /\ pc = "top" /\ ~ctxErr(now) /\ now <= deadline
  /\ Request(pollPerRequestTO, d)

(* Mutant: an answer does not reset the count.                             *)
PollPendingCounts ==
  /\ \E d \in Durations :
       Polling(d) /\ ~ready(now)
  /\ since' = now'
  /\ Sleep(pollIntervalDefault)
  /\ UNCHANGED <<deadline, netFailures, exit, saved, env, unanswered>>

(* 202: the server, when it looked, was waiting for the user or, with the  *)
(* reason saga_running, still provisioning the peer.  A body cut short by  *)
(* the timeout or by the context is not noticed.                           *)
PollPending ==
  /\ \E d \in Durations : Polling(d) /\ ~ready(now)
  /\ netFailures' = 0 /\ since' = 0
  /\ Sleep(pollIntervalDefault)
  /\ UNCHANGED <<deadline, exit, saved, env, unanswered>>

(* 200: a body that does not decode, or is cut short, ends the pairing.    *)
PollClaimed ==
  /\ \E d \in Durations :
       /\ Polling(d) /\ ready(now')
       /\ \/ Answers(pollPerRequestTO, d) /\ pc' = "save" /\ UNCHANGED exit
          \/ Finish(ExitFatalRuntime)
  /\ UNCHANGED <<deadline, wake, netFailures, saved, env, since, unanswered>>

(* 410, 404, or a status the client does not know.                         *)
PollRefused ==
  /\ \E d \in Durations : Polling(d) /\ Answers(pollPerRequestTO, d)
  /\ \E code \in {ExitUserCancelled, ExitExpiredOrNotFound, ExitFatalRuntime} :
       Finish(code)
  /\ UNCHANGED <<deadline, wake, netFailures, saved, env, since, unanswered>>

(* Mutant: the budget is one failure too large.                            *)
PollFailsOffByOne ==
  /\ \E d \in Durations : Polling(d)
  /\ netFailures' = netFailures + 1
  /\ \/ /\ netFailures' > pollNetMaxFailures
        /\ Finish(ExitNetworkBudgetExceeded) /\ UNCHANGED wake
     \/ /\ netFailures' <= pollNetMaxFailures
        /\ Sleep(backoffFor(netFailures')) /\ UNCHANGED exit
  /\ since' = IF netFailures = 0 THEN now' ELSE since
  /\ unanswered' = (unanswered \/ ready(now'))
  /\ UNCHANGED <<deadline, saved, env>>

(* 5xx, or an error of the request.  Every error of http.Client.Do is a    *)
(* *url.Error, hence a net.Error and transient, also the one for a         *)
(* cancelled context: it is counted before sleepCtx notices.               *)
PollFails ==
  /\ \E d \in Durations : Polling(d)
  /\ netFailures' = netFailures + 1
  /\ \/ /\ netFailures' >= pollNetMaxFailures
        /\ Finish(ExitNetworkBudgetExceeded) /\ UNCHANGED wake
     \/ /\ netFailures' < pollNetMaxFailures
        /\ Sleep(backoffFor(netFailures')) /\ UNCHANGED exit
  /\ since' = IF netFailures = 0 THEN now' ELSE since
  /\ unanswered' = (unanswered \/ ready(now'))
  /\ UNCHANGED <<deadline, saved, env>>

pairPoll == LoopTop \/ PollPending \/ PollClaimed \/ PollRefused \/ PollFails \/ sleepCtx

-----------------------------------------------------------------------------
(* SaveConfig, then on to runConnect: a failure is only a warning.         *)
Persist ==
  /\ pc = "save"
  /\ saved' \in BOOLEAN
  /\ Finish(ExitOK)
  /\ UNCHANGED <<now, deadline, wake, netFailures, env, hist>>

Next == pairInit \/ claimByToken \/ pairPoll \/ Persist

Spec == Init /\ [][Next]_vars

-----------------------------------------------------------------------------
(* Properties *)

(* The variables keep their types; the failures counted never exceed the   *)
(* budget.                                                                 *)
TypeOK ==
  /\ pc \in {"start", "top", "sleep", "save", "done"}
  /\ {now, deadline, wake, since, readyAt, cancelAt} \subseteq Nat
  /\ netFailures \in 0..pollNetMaxFailures
  /\ exit \in {0, 1, 2, 3, 4, 5, 6, ExitSignal, Running}
  /\ saved \in BOOLEAN /\ unanswered \in BOOLEAN

(* pairPoll ends: whatever mix of slow answers, failures and backoffs it   *)
(* meets, it overruns its deadline by one request and one backoff at most, *)
(* and it never sleeps through an interrupt.  Only an interrupt is         *)
(* reported as one.                                                        *)
PollIsBounded ==
  /\ pc # "start" =>
       now <= httpClientTimeout + pollWallClockMax + pollPerRequestTO + pollNetMaxBackoff
  /\ now <= cancelAt
  /\ exit = ExitSignal => now = cancelAt

(* A claim is not missed: the loop only times out although the credentials *)
(* were ready if a poll has failed since, or if they became ready later    *)
(* than one backoff before the deadline.  That the user had authorised the *)
(* device is not enough: the server may still be provisioning the peer.    *)
ClaimIsSeen ==
  exit = ExitPairWallClockTimeout /\ ready(now) /\ ~unanswered =>
    readyAt + pollNetMaxBackoff > deadline

(* The time the backoffs after n failures take together.                   *)
patience[n \in Nat] == IF n = 0 THEN 0 ELSE patience[n - 1] + backoffFor(n)

(* A brief outage does not end the pairing: the failure budget is spent    *)
(* only after all its backoffs have been slept, whatever the polls cost.   *)
BudgetIsPatient ==
  exit = ExitNetworkBudgetExceeded /\ deadline > 0 =>
    now - since >= patience[pollNetMaxFailures - 1]
=============================================================================
