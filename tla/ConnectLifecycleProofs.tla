----------------------- MODULE ConnectLifecycleProofs -----------------------
(***************************************************************************)
(* Proofs about ConnectLifecycle, for any set of routes, any number of     *)
(* reissued profiles, failing calls and attempts, on either platform.      *)
(***************************************************************************)
EXTENDS ConnectLifecycle, TLAPS

(* The three properties look at the tunnel while it is up or gone.  What   *)
(* makes them inductive is how the main goroutine gets there ...           *)
Stages ==
  /\ main \in {"fetch", "device", "routes", "resolve", "await"} => poll = "off"
  /\ main \in {"fetch", "device"} => link = "none" /\ routes = {}
  /\ main \in {"fetch", "device", "routes", "resolve", "await"} => ~dns
  /\ main \in {"fetch", "device", "routes"} => ~armed /\ ~firewall
  /\ main = "routes" =>
       /\ routes \subseteq current /\ todo \subseteq current
       /\ current \ todo \subseteq routes
  /\ main \in {"resolve", "await"} => routes = current
  /\ main \in {"resolve", "await", "up"} => link = "up" /\ Resolver \in routes
  /\ main \notin {"fetch", "exited"} => current \in Profiles
  /\ main \in {"return", "exited"} => link = "none" /\ routes = {} /\ ~dns
  /\ armed /\ main # "exited" => firewall
  /\ firewall /\ (~armed \/ main = "exited") => failures # 0

(* ... and what a reconciliation has still to do.                          *)
Reconciliation ==
  /\ poll \in {"lock", "withdraw", "add"} => next \in Profiles
  /\ poll = "withdraw" => todo \subseteq current \ next
  /\ poll = "add" => todo \subseteq next \ current

(* As long as no call has failed, todo is all that separates the kernel's  *)
(* routes from the profile that is being left, or taken up.                *)
Progress ==
  failures = 0 /\ main = "up" =>
    /\ dns
    /\ ~Reconciling => routes = current
    /\ poll = "withdraw" => routes = (current \intersect next) \union todo
    /\ poll = "add" => routes = next \ todo

(* The types, the flags apart.                                             *)
Flags ==
  /\ stop \in BOOLEAN /\ cancel \in BOOLEAN /\ dns \in BOOLEAN
  /\ connected \in BOOLEAN /\ armed \in BOOLEAN /\ firewall \in BOOLEAN
  /\ revoked \in BOOLEAN

Domains ==
  /\ os \in Platforms
  /\ main \in {"fetch", "device", "routes", "resolve", "await", "up",
               "teardown", "close", "return", "exited"}
  /\ poll \in {"off", "select", "fetch", "lock", "withdraw", "add"}
  /\ profileMu \in {"free", "poll"}
  /\ current \in Profiles \union {{}} /\ next \in Profiles \union {{}}
  /\ todo \subseteq Routes /\ routes \subseteq Routes
  /\ link \in {"none", "created", "up", "down"}
  /\ issued \in Profiles
  /\ log \in {"", "applied", "failed"}

Counted == failures \in 0..MaxFail
Tried   == attempt \in 1..maxAttempts

IInv == TypeOK /\ Stages /\ Reconciliation /\ Progress

-----------------------------------------------------------------------------
(* A profile routes its own resolver, and nothing that is no route.        *)
LEMMA ProfileRoutes == \A P \in Profiles : Resolver \in P /\ P \subseteq Routes
BY DEF Profiles, Routes

(* Before the profile is fetched.                                          *)
LEMMA InitInv == Init => IInv
<1> SUFFICES ASSUME Init PROVE IInv
    OBVIOUS
<1>1. Flags
    BY Zenon DEF Init, Flags
<1>2. Domains
    BY DEF Init, Domains
<1>3. attempt = 1 /\ failures = 0
    BY DEF Init
<1>4. Counted /\ Tried
    BY <1>3, LifecycleAssumption DEF Counted, Tried
<1>5. TypeOK
    BY <1>1, <1>2, <1>4, Zenon DEF TypeOK, Flags, Domains, Counted, Tried
<1>6. Stages /\ Reconciliation /\ Progress
    BY DEF Init, Stages, Reconciliation, Progress
<1>7. QED
    BY <1>5, <1>6 DEF IInv

(* A failure is counted, within the bound.                                 *)
LEMMA FailureCounted ==
  ASSUME Counted
  PROVE  /\ Fails \/ Works => Counted'
         /\ Fails => failures' # 0
         /\ UNCHANGED failures => Counted'
BY LifecycleAssumption DEF Counted, Fails, Works

(* The flags stay flags.                                                   *)
LEMMA NextFlags == Flags /\ [Next]_vars => Flags'
<1> SUFFICES ASSUME Flags, [Next]_vars PROVE Flags'
    OBVIOUS
<1> USE DEF Flags, vars, mainVars, pollVars, ctlVars, netVars, srvVars
<1>1. CASE UNCHANGED vars
    BY <1>1, Zenon
<1>2. CASE FetchProfile
    BY <1>2, Zenon DEF FetchProfile
<1>3. CASE CreateDevice
    BY <1>3, Zenon DEF CreateDevice
<1>4. CASE InstallRoute
    BY <1>4, Zenon DEF InstallRoute
<1>5. CASE ActivateAddress
    BY <1>5, Zenon DEF ActivateAddress
<1>6. CASE ArmKillSwitch
    BY <1>6, Zenon DEF ArmKillSwitch
<1>7. CASE ResolveHost
    BY <1>7, Zenon DEF ResolveHost
<1>8. CASE ShovelConnected
    BY <1>8, Zenon DEF ShovelConnected
<1>9. CASE AwaitEnds
    BY <1>9, Zenon DEF AwaitEnds
<1>10. CASE ShutdownRequested
    BY <1>10, Zenon DEF ShutdownRequested
<1>11. CASE TeardownTUN
    BY <1>11, Zenon DEF TeardownTUN
<1>12. CASE CloseDevice
    BY <1>12, Zenon DEF CloseDevice
<1>13. CASE Return
    BY <1>13, Zenon DEF Return
<1>14. CASE Ping
    BY <1>14, Zenon DEF Ping
<1>15. CASE FetchNext
    BY <1>15, Zenon DEF FetchNext
<1>16. CASE LockProfile
    BY <1>16, Zenon DEF LockProfile
<1>17. CASE Withdraw
    BY <1>17, Zenon DEF Withdraw
<1>18. CASE WithdrawEnds
    BY <1>18, Zenon DEF WithdrawEnds
<1>19. CASE Add
    BY <1>19, Zenon DEF Add
<1>20. CASE AddFails
    BY <1>20, Zenon DEF AddFails
<1>21. CASE Reconciled
    BY <1>21, Zenon DEF Reconciled
<1>22. CASE DNSFails
    BY <1>22, Zenon DEF DNSFails
<1>23. CASE PollDone
    BY <1>23, Zenon DEF PollDone
<1>24. CASE Signal
    BY <1>24, Zenon DEF Signal
<1>25. CASE Reissue
    BY <1>25, Zenon DEF Reissue
<1>26. CASE Revoke
    BY <1>26, Zenon DEF Revoke
<1>27. QED
    BY <1>1, <1>2, <1>3, <1>4, <1>5, <1>6, <1>7, <1>8, <1>9, <1>10, <1>11, <1>12, <1>13, <1>14, <1>15, <1>16, <1>17, <1>18, <1>19, <1>20, <1>21, <1>22, <1>23, <1>24, <1>25, <1>26
    DEF Next, runConnect, reconcileTUN, pollLoop

(* Every step keeps the types of the other variables.                      *)
LEMMA NextDomains == Domains /\ [Next]_vars => Domains'
<1> SUFFICES ASSUME Domains, [Next]_vars PROVE Domains'
    OBVIOUS
<1>a. ASSUME UNCHANGED <<os, main, poll, profileMu, current, next, todo, routes, link, issued, log>>
      PROVE  Domains'
    BY <1>a, Zenon DEF Domains
<1> USE DEF vars, mainVars, pollVars, ctlVars, netVars, srvVars
<1>1. CASE UNCHANGED vars
    BY <1>1, <1>a
<1>2. CASE Signal
    BY <1>2, <1>a DEF Signal
<1>3. CASE Revoke
    BY <1>3, <1>a DEF Revoke
<1>4. CASE Reissue
  <2>1. UNCHANGED <<os, main, poll, profileMu, current, next, todo, routes, link, log>>
      BY <1>4 DEF Reissue
  <2>2. issued' \in Profiles
      BY <1>4 DEF Reissue
  <2>3. QED
      BY <2>1, <2>2, Zenon DEF Domains
<1> USE ProfileRoutes DEF Domains
<1>5. CASE FetchProfile
    BY <1>5 DEF FetchProfile
<1>6. CASE CreateDevice
    BY <1>6 DEF CreateDevice
<1>7. CASE InstallRoute
    BY <1>7 DEF ConfigureFails, Retry, NotFoundAnyMore, InstallRoute
<1>8. CASE ActivateAddress
    BY <1>8 DEF ConfigureFails, Retry, NotFoundAnyMore, ActivateAddress
<1>9. CASE ArmKillSwitch
    BY <1>9 DEF ArmKillSwitch
<1>10. CASE ResolveHost
    BY <1>10 DEF ResolveHost
<1>11. CASE ShovelConnected
    BY <1>11 DEF ShovelConnected
<1>12. CASE AwaitEnds
    BY <1>12 DEF AwaitEnds
<1>13. CASE ShutdownRequested
    BY <1>13 DEF ShutdownRequested
<1>14. CASE TeardownTUN
    BY <1>14 DEF TeardownTUN
<1>15. CASE CloseDevice
    BY <1>15 DEF CloseDevice
<1>16. CASE Return
    BY <1>16 DEF Return
<1>17. CASE Ping
    BY <1>17 DEF Ping
<1>18. CASE FetchNext
    BY <1>18 DEF FetchNext
<1>19. CASE LockProfile
    BY <1>19 DEF LockProfile
<1>20. CASE Withdraw
    BY <1>20 DEF Withdraw
<1>21. CASE WithdrawEnds
    BY <1>21 DEF WithdrawEnds
<1>22. CASE Add
    BY <1>22 DEF Add
<1>23. CASE AddFails
    BY <1>23 DEF AddFails
<1>24. CASE Reconciled
    BY <1>24 DEF Reconciled
<1>25. CASE DNSFails
    BY <1>25 DEF DNSFails
<1>26. CASE PollDone
    BY <1>26 DEF PollDone
<1>27. QED
    BY <1>1, <1>2, <1>3, <1>4, <1>5, <1>6, <1>7, <1>8, <1>9, <1>10, <1>11, <1>12, <1>13, <1>14, <1>15, <1>16, <1>17, <1>18, <1>19, <1>20, <1>21, <1>22, <1>23, <1>24, <1>25, <1>26
    DEF Next, runConnect, reconcileTUN, pollLoop

(* Every step keeps the number of failures in its range.                   *)
LEMMA NextCounted == Counted /\ [Next]_vars => Counted'
<1>1. [Next]_vars => Fails \/ Works
    BY DEF Next, runConnect, reconcileTUN, pollLoop, vars, Works, FetchProfile, CreateDevice,
           InstallRoute, ActivateAddress, ArmKillSwitch, ResolveHost, ShovelConnected, AwaitEnds,
           ShutdownRequested, TeardownTUN, CloseDevice, Return, Ping, FetchNext, LockProfile,
           Withdraw, WithdrawEnds, Add, AddFails, Reconciled, DNSFails, PollDone, Signal,
           Reissue, Revoke
<1>2. QED
    BY <1>1, FailureCounted

(* Only a retry counts an attempt, and only below the ceiling.             *)
LEMMA NextTried == Tried /\ [Next]_vars => Tried'
<1>1. [Next]_vars => Retry \/ UNCHANGED attempt
    BY DEF Next, runConnect, reconcileTUN, pollLoop, vars, mainVars, FetchProfile, CreateDevice,
           InstallRoute, ActivateAddress, ConfigureFails, NotFoundAnyMore, ArmKillSwitch,
           ResolveHost, ShovelConnected, AwaitEnds, ShutdownRequested, TeardownTUN, CloseDevice,
           Return, Ping, FetchNext, LockProfile, Withdraw, WithdrawEnds, Add, AddFails,
           Reconciled, DNSFails, PollDone, Signal, Reissue, Revoke
<1>2. Tried /\ Retry => Tried'
    BY LifecycleAssumption DEF Tried, Retry
<1>3. QED
    BY <1>1, <1>2 DEF Tried

(* Every step keeps the types.                                             *)
LEMMA NextTypeOK == TypeOK /\ [Next]_vars => TypeOK'
<1>1. TypeOK <=> Flags /\ Domains /\ Counted /\ Tried
    BY Zenon DEF TypeOK, Flags, Domains, Counted, Tried
<1>2. TypeOK' <=> Flags' /\ Domains' /\ Counted' /\ Tried'
    BY Zenon DEF TypeOK, Flags, Domains, Counted, Tried
<1>3. QED
    BY <1>1, <1>2, NextFlags, NextDomains, NextCounted, NextTried

(* Every step of either goroutine keeps what the stages of runConnect say. *)
LEMMA NextStages == IInv /\ [Next]_vars => Stages'
<1> SUFFICES ASSUME IInv, [Next]_vars PROVE Stages'
    OBVIOUS
<1> USE LifecycleAssumption, ProfileRoutes
    DEF IInv, Stages, Reconciliation, Live, Routable,
        vars, mainVars, pollVars, ctlVars, netVars, srvVars
<1>f. Fails => failures' # 0
    BY FailureCounted DEF TypeOK, Counted
<1>1. CASE UNCHANGED vars
    BY <1>1
<1>2. CASE FetchProfile
  <2>1. issued \in Profiles
    BY Zenon DEF TypeOK
  <2>2. QED
    BY <1>2, <2>1 DEF FetchProfile
<1>3. CASE CreateDevice
    BY <1>3 DEF CreateDevice
<1>4. CASE InstallRoute
    BY <1>4, <1>f DEF ConfigureFails, Retry, NotFoundAnyMore, InstallRoute, Works
<1>5. CASE ActivateAddress
    BY <1>5, <1>f DEF ConfigureFails, Retry, NotFoundAnyMore, ActivateAddress, Works
<1>6. CASE ArmKillSwitch
  <2>1. /\ main = "routes" /\ todo = {} /\ link = "up" /\ main' = "resolve"
        /\ UNCHANGED <<todo, link, routes, dns, current, poll>>
      BY <1>6 DEF ArmKillSwitch
  <2>2. routes' = current' /\ Resolver \in routes' /\ current' \in Profiles /\ ~dns' /\ poll' = "off"
      BY <2>1 DEF TypeOK
  <2>3. (armed' => firewall') /\ (firewall' /\ ~armed' => failures' # 0)
    <3>1. ~armed /\ ~firewall
        BY <2>1
    <3>2. \/ armed' = TRUE /\ firewall' = TRUE
          \/ armed' = FALSE /\ failures' # 0
          \/ armed' = armed /\ firewall' = firewall
        BY <1>6, <1>f DEF ArmKillSwitch
    <3>3. QED
        BY <3>1, <3>2
  <2>4. QED
      BY <2>1, <2>2, <2>3
<1>7. CASE ResolveHost
    BY <1>7 DEF ResolveHost
<1>8. CASE ShovelConnected
    BY <1>8, <1>f DEF ShovelConnected, Works
<1>9. CASE AwaitEnds
    BY <1>9 DEF AwaitEnds
<1>10. CASE ShutdownRequested
    BY <1>10 DEF ShutdownRequested
<1>11. CASE TeardownTUN
    BY <1>11, <1>f DEF TeardownTUN, Works
<1>12. CASE CloseDevice
    BY <1>12 DEF CloseDevice
<1>13. CASE Return
    BY <1>13, <1>f DEF Return, Works
<1>14. CASE Ping
    BY <1>14 DEF Ping
<1>15. CASE FetchNext
    BY <1>15 DEF FetchNext
<1>16. CASE LockProfile
    BY <1>16 DEF LockProfile
<1>17. CASE Withdraw
    BY <1>17, <1>f DEF Withdraw, Works
<1>18. CASE WithdrawEnds
    BY <1>18 DEF WithdrawEnds
<1>19. CASE Add
    BY <1>19 DEF Add
<1>20. CASE AddFails
    BY <1>20, <1>f DEF AddFails, Works
<1>21. CASE Reconciled
    BY <1>21 DEF Reconciled
<1>22. CASE DNSFails
    BY <1>22, <1>f DEF DNSFails, Works
<1>23. CASE PollDone
    BY <1>23 DEF PollDone
<1>24. CASE Signal
    BY <1>24 DEF Signal
<1>25. CASE Reissue
    BY <1>25 DEF Reissue
<1>26. CASE Revoke
    BY <1>26 DEF Revoke
<1>27. QED
    BY <1>1, <1>2, <1>3, <1>4, <1>5, <1>6, <1>7, <1>8, <1>9, <1>10, <1>11, <1>12, <1>13, <1>14, <1>15, <1>16, <1>17, <1>18, <1>19, <1>20, <1>21, <1>22, <1>23, <1>24, <1>25, <1>26
    DEF Next, runConnect, reconcileTUN, pollLoop

(* A reconciliation starts from the difference of two profiles.            *)
LEMMA NextReconciliation == IInv /\ [Next]_vars => Reconciliation'
<1> SUFFICES ASSUME IInv, [Next]_vars PROVE Reconciliation'
    OBVIOUS
<1> USE DEF IInv, TypeOK, Stages, Reconciliation, Live,
            vars, mainVars, pollVars, ctlVars, netVars, srvVars
<1>1. CASE UNCHANGED vars
    BY <1>1
<1>2. CASE FetchProfile
    BY <1>2 DEF FetchProfile
<1>3. CASE CreateDevice
    BY <1>3 DEF CreateDevice
<1>4. CASE InstallRoute
    BY <1>4 DEF ConfigureFails, Retry, NotFoundAnyMore, InstallRoute, Fails, Works
<1>5. CASE ActivateAddress
    BY <1>5 DEF ConfigureFails, Retry, NotFoundAnyMore, ActivateAddress, Fails, Works
<1>6. CASE ArmKillSwitch
    BY <1>6 DEF ArmKillSwitch
<1>7. CASE ResolveHost
    BY <1>7 DEF ResolveHost
<1>8. CASE ShovelConnected
    BY <1>8 DEF ShovelConnected, Fails, Works
<1>9. CASE AwaitEnds
    BY <1>9 DEF AwaitEnds
<1>10. CASE ShutdownRequested
    BY <1>10 DEF ShutdownRequested
<1>11. CASE TeardownTUN
    BY <1>11 DEF TeardownTUN, Fails, Works
<1>12. CASE CloseDevice
    BY <1>12 DEF CloseDevice
<1>13. CASE Return
    BY <1>13 DEF Return
<1>14. CASE Ping
    BY <1>14 DEF Ping
<1>15. CASE FetchNext
    BY <1>15 DEF FetchNext
<1>16. CASE LockProfile
    BY <1>16 DEF LockProfile
<1>17. CASE Withdraw
    BY <1>17 DEF Withdraw, Fails, Works
<1>18. CASE WithdrawEnds
    BY <1>18 DEF WithdrawEnds
<1>19. CASE Add
    BY <1>19 DEF Add
<1>20. CASE AddFails
    BY <1>20 DEF AddFails, Fails, Works
<1>21. CASE Reconciled
    BY <1>21 DEF Reconciled
<1>22. CASE DNSFails
    BY <1>22 DEF DNSFails, Fails, Works
<1>23. CASE PollDone
    BY <1>23 DEF PollDone
<1>24. CASE Signal
    BY <1>24 DEF Signal
<1>25. CASE Reissue
    BY <1>25 DEF Reissue
<1>26. CASE Revoke
    BY <1>26 DEF Revoke
<1>27. QED
    BY <1>1, <1>2, <1>3, <1>4, <1>5, <1>6, <1>7, <1>8, <1>9, <1>10, <1>11, <1>12, <1>13, <1>14, <1>15, <1>16, <1>17, <1>18, <1>19, <1>20, <1>21, <1>22, <1>23, <1>24, <1>25, <1>26
    DEF Next, runConnect, reconcileTUN, pollLoop

(* While no call fails, a reconciliation makes exactly the changes due.    *)
LEMMA NextProgress == IInv /\ [Next]_vars => Progress'
<1> SUFFICES ASSUME IInv, [Next]_vars PROVE Progress'
    OBVIOUS
<1> USE DEF IInv, TypeOK, Counted, Stages, Reconciliation, Progress, Reconciling, Routable,
            vars, mainVars, pollVars, ctlVars, netVars, srvVars
<1>1. CASE UNCHANGED vars
    BY <1>1
<1>2. CASE FetchProfile
    BY <1>2 DEF FetchProfile
<1>3. CASE CreateDevice
    BY <1>3 DEF CreateDevice
<1>4. CASE InstallRoute
    BY <1>4 DEF ConfigureFails, Retry, NotFoundAnyMore, InstallRoute, Fails, Works
<1>5. CASE ActivateAddress
    BY <1>5 DEF ConfigureFails, Retry, NotFoundAnyMore, ActivateAddress, Fails, Works
<1>6. CASE ArmKillSwitch
    BY <1>6, FailureCounted DEF ArmKillSwitch, Works
<1>7. CASE ResolveHost
    BY <1>7 DEF ResolveHost
<1>8. CASE ShovelConnected
    BY <1>8 DEF ShovelConnected, Fails, Works
<1>9. CASE AwaitEnds
    BY <1>9 DEF AwaitEnds
<1>10. CASE ShutdownRequested
    BY <1>10 DEF ShutdownRequested
<1>11. CASE TeardownTUN
    BY <1>11 DEF TeardownTUN, Fails, Works
<1>12. CASE CloseDevice
    BY <1>12 DEF CloseDevice
<1>13. CASE Return
    BY <1>13, FailureCounted DEF Return, Works
<1>14. CASE Ping
    BY <1>14 DEF Ping
<1>15. CASE FetchNext
    BY <1>15 DEF FetchNext
<1>16. CASE LockProfile
    BY <1>16 DEF LockProfile
<1>17. CASE Withdraw
    BY <1>17, FailureCounted DEF Withdraw, Works
<1>18. CASE WithdrawEnds
    BY <1>18 DEF WithdrawEnds
<1>19. CASE Add
    BY <1>19 DEF Add
<1>20. CASE AddFails
    BY <1>20, FailureCounted DEF AddFails, Works
<1>21. CASE Reconciled
    BY <1>21 DEF Reconciled
<1>22. CASE DNSFails
    BY <1>22, FailureCounted DEF DNSFails, Works
<1>23. CASE PollDone
    BY <1>23 DEF PollDone
<1>24. CASE Signal
    BY <1>24 DEF Signal
<1>25. CASE Reissue
    BY <1>25 DEF Reissue
<1>26. CASE Revoke
    BY <1>26 DEF Revoke
<1>27. QED
    BY <1>1, <1>2, <1>3, <1>4, <1>5, <1>6, <1>7, <1>8, <1>9, <1>10, <1>11, <1>12, <1>13, <1>14, <1>15, <1>16, <1>17, <1>18, <1>19, <1>20, <1>21, <1>22, <1>23, <1>24, <1>25, <1>26
    DEF Next, runConnect, reconcileTUN, pollLoop

-----------------------------------------------------------------------------
(* Whatever the two goroutines do, in any order and with any calls         *)
(* failing: the stages of runConnect keep their promises, and what a       *)
(* reconciliation still has to do is what keeps the routes from being      *)
(* exactly a profile's.                                                    *)
THEOREM LifecycleInvariant == Spec => []IInv
<1>1. IInv /\ [Next]_vars => IInv'
    BY NextTypeOK, NextStages, NextReconciliation, NextProgress DEF IInv
<1>2. QED
    BY InitInv, <1>1, PTL DEF Spec

(* The variables of runConnect and of its polling goroutine keep their     *)
(* types: in particular configureTUN's retries on Windows never pass their *)
(* ceiling, and no profile that does not route its resolver is applied.    *)
THEOREM LifecycleTypeCorrect == Spec => []TypeOK
<1>1. IInv => TypeOK
    BY DEF IInv
<1>2. QED
    BY <1>1, LifecycleInvariant, PTL

(* reconcileTUN, when no call fails, through any sequence of reissued      *)
(* profiles: outside of it the kernel has exactly the routes of the        *)
(* current profile, and during it never a mixture of what only the old and *)
(* only the new one authorises.                                            *)
THEOREM ExactRoutes == Spec => []ExactWithoutFailures
<1>1. IInv => ExactWithoutFailures
  <2> SUFFICES ASSUME IInv, failures = 0, main = "up"
               PROVE  /\ Settled => routes = current /\ dns
                      /\ Reconciling => routes \subseteq current \/ routes \subseteq next
      BY DEF ExactWithoutFailures
  <2>1. Progress /\ Reconciliation
      BY DEF IInv
  <2>2. Settled => routes = current /\ dns
      BY <2>1 DEF Progress, Settled
  <2>3. poll = "withdraw" => routes \subseteq current
      BY <2>1 DEF Progress, Reconciliation
  <2>4. poll = "add" => routes \subseteq next
      BY <2>1 DEF Progress
  <2>5. QED
      BY <2>2, <2>3, <2>4 DEF Reconciling
<1>2. QED
    BY <1>1, LifecycleInvariant, PTL

(* Whichever call of configureTUN, of reconcileTUN or of their retries     *)
(* fails, the route to the resolver is in place from the end of            *)
(* configureTUN until teardownTUN.                                         *)
THEOREM ResolverStaysReachable == Spec => []ResolverReachable
<1>1. IInv => ResolverReachable
    BY DEF IInv, Stages, ResolverReachable
<1>2. QED
    BY <1>1, LifecycleInvariant, PTL

(* runConnect's deferred calls run in the order that keeps an armed kill   *)
(* switch in place until the tunnel is gone, whatever fails in the         *)
(* teardown and even while the poll is reconciling; what an install or a   *)
(* teardown that failed has left behind is all that is left.               *)
THEOREM ProtectionLast == Spec => []ProtectionOutlivesTunnel
<1>1. IInv => ProtectionOutlivesTunnel
  <2>1. IInv /\ failures # 0 => failures > 0
    <3>1. IInv => failures \in 0..MaxFail
        BY DEF IInv, TypeOK
    <3>2. QED
        BY <3>1, LifecycleAssumption
  <2>2. IInv => (armed /\ main # "exited" => firewall)
      BY DEF IInv, Stages
  <2>3. IInv => (main = "exited" => routes = {} /\ ~dns /\ (firewall => failures # 0))
      BY DEF IInv, Stages
  <2>4. QED
      BY <2>1, <2>2, <2>3 DEF ProtectionOutlivesTunnel
<1>2. QED
    BY <1>1, LifecycleInvariant, PTL
=============================================================================
