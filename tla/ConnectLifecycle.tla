-------------------------- MODULE ConnectLifecycle --------------------------
(***************************************************************************)
(* runConnect of the client (client/main.go) on Linux and on Windows       *)
(* (tun_config_linux.go, tun_config_windows.go): the tunnel interface is   *)
(* configured from the network profile the control plane issues, the kill  *)
(* switch is armed, the shovel connects, DNS is pointed at the tunnel, and *)
(* a second goroutine polls the control plane and reconciles the routes    *)
(* until the tunnel is shut down.                                          *)
(*                                                                         *)
(* A profile that passed validateNetworkProfile is the set of its routes:  *)
(* the resolver's and any others; its DNS part is always the same.         *)
(***************************************************************************)
EXTENDS Naturals, FiniteSets

CONSTANTS Resolver,    \* the resolver's /32, in every valid profile
          Others,      \* scenario and TeamServer routes
          Platforms,   \* "linux", "windows" or both: one of them per run
          maxAttempts, \* how often the Windows client tries to configure
          MaxFail      \* bound: calls to the system that fail by chance

ASSUME LifecycleAssumption ==
  /\ Resolver \notin Others /\ Platforms \subseteq {"linux", "windows"}
  /\ MaxFail \in Nat /\ maxAttempts \in Nat \ {0}

Routes   == Others \union {Resolver}
Profiles == {{Resolver} \union S : S \in SUBSET Others}

VARIABLES
  os,        \* the platform, never changed
  attempt,   \* configureTUN on Windows: the attempt being made
  main,      \* runConnect: its program point
  poll,      \* the polling goroutine: its program point
  stop,      \* ctx: SIGINT or SIGTERM was received
  cancel,    \* shovelCtx was cancelled by runConnect or by the poll
  profileMu, \* "free", "main" or "poll"
  current,   \* currentProfile
  next,      \* nextProfile, the profile the poll has fetched
  todo,      \* routes the running loop has still to handle
  link,      \* the TUN device: "none", "created", "up" (with its address)
             \* or "down"
  routes,    \* kernel routes through the TUN device
  dns,       \* the tunnel's link carries the Arena resolver
  connected, \* the shovel has reported its first session
  armed,     \* killSwitchArmed
  firewall,  \* rules of the kill switch filter the traffic
  issued,    \* environment: the profile the control plane issues now
  revoked,   \* environment: the peer is revoked
  log,       \* last outcome logged by the poll: "", "applied" or "failed"
  failures   \* history: calls that failed by chance

mainVars == <<os, attempt, main, connected, armed, firewall>>
pollVars == <<poll, next, todo, log>>
ctlVars  == <<stop, cancel, profileMu>>
netVars  == <<link, routes, dns>>
srvVars  == <<issued, revoked>>
vars == <<mainVars, pollVars, ctlVars, netVars, srvVars, current, failures>>

Cancelled == stop \/ cancel

Init ==
  /\ os \in Platforms /\ attempt = 1
  /\ main = "fetch" /\ poll = "off"
  /\ stop = FALSE /\ cancel = FALSE /\ profileMu = "free"
  /\ issued \in Profiles /\ revoked = FALSE
  /\ current = {} /\ next = {} /\ todo = {}
  /\ link = "none" /\ routes = {} /\ dns = FALSE
  /\ connected = FALSE /\ armed = FALSE /\ firewall = FALSE
  /\ log = "" /\ failures = 0

(* A call of ip, resolvectl or winipcfg, or one of the kill switch, fails  *)
(* although it could succeed.                                              *)
Fails == failures < MaxFail /\ failures' = failures + 1
Works == UNCHANGED failures

-----------------------------------------------------------------------------
(* runConnect: bring the tunnel up *)

FetchProfile ==
  /\ main = "fetch"
  /\ \/ main' = "device" /\ current' = issued
     \/ main' = "exited" /\ UNCHANGED current
  /\ UNCHANGED <<os, attempt, connected, armed, firewall, pollVars, ctlVars, netVars>>
  /\ UNCHANGED <<srvVars, failures>>

(* CreateTUN, ListenUDP, IpcSet, Up; on Linux then ip addr add and ip link *)
(* set up.  Each failure closes what was opened.                           *)
CreateDevice ==
  /\ main = "device"
  /\ \/ /\ main' = "routes" /\ todo' = current
        /\ link' = IF os = "linux" THEN "up" ELSE "created"
     \/ main' = "exited" /\ UNCHANGED <<link, todo>>
  /\ UNCHANGED <<os, attempt, connected, armed, firewall, poll, next, log, ctlVars>>
  /\ UNCHANGED <<routes, dns, srvVars, current, failures>>

(* configureTUN fails: the device is closed, and its routes go with it.    *)
ConfigureFails ==
  /\ main' = "exited" /\ link' = "none" /\ routes' = {}
  /\ UNCHANGED <<attempt, todo>>

(* The adapter is not found while Windows still wires it up: the whole     *)
(* block is tried again, a second later, on top of what it has configured. *)
Retry ==
  /\ os = "windows" /\ attempt < maxAttempts
  /\ attempt' = attempt + 1 /\ todo' = current
  /\ UNCHANGED <<main, link, routes>>

NotFoundAnyMore == os = "windows" /\ attempt = maxAttempts /\ ConfigureFails

(* configureTUN's loop over the routes.                                    *)
InstallRoute ==
  /\ main = "routes" /\ todo # {}
  /\ \/ /\ \E r \in todo : routes' = routes \union {r} /\ todo' = todo \ {r}
        /\ Works /\ UNCHANGED <<attempt, main, link>>
     \/ Works /\ (Retry \/ NotFoundAnyMore)
     \/ Fails /\ ConfigureFails
  /\ UNCHANGED <<os, connected, armed, firewall, poll, next, log, ctlVars>>
  /\ UNCHANGED <<dns, srvVars, current>>

(* On Windows the address follows the routes (a leftover one is flushed),  *)
(* and setting the interface activates it.                                 *)
ActivateAddress ==
  /\ main = "routes" /\ todo = {} /\ link = "created"
  /\ \/ link' = "up" /\ Works /\ UNCHANGED <<attempt, main, todo, routes>>
     \/ Works /\ (Retry \/ NotFoundAnyMore)
     \/ Fails /\ ConfigureFails
  /\ UNCHANGED <<os, connected, armed, firewall, poll, next, log, ctlVars>>
  /\ UNCHANGED <<dns, srvVars, current>>

(* Arm after the tunnel is up, unless -kill-switch=false or -portable.  A  *)
(* failed install is only logged, and stops where it is: what it has set   *)
(* by then, the outbound default of Windows included, stays.               *)
ArmKillSwitch ==
  /\ main = "routes" /\ todo = {} /\ link = "up"
  /\ main' = "resolve"
  /\ \/ armed' = TRUE /\ firewall' = TRUE /\ Works
     \/ armed' = FALSE /\ firewall' \in BOOLEAN /\ Fails
     \/ UNCHANGED <<armed, firewall>> /\ Works
  /\ UNCHANGED <<os, attempt, connected, pollVars, ctlVars, netVars, srvVars, current>>

(* resolveWSSDialAddress, then the shovel starts.                          *)
ResolveHost ==
  /\ main = "resolve"
  /\ \/ main' = "await" /\ UNCHANGED cancel
     \/ main' = "teardown" /\ cancel' = TRUE
  /\ UNCHANGED <<os, attempt, connected, armed, firewall, pollVars, stop, profileMu, netVars>>
  /\ UNCHANGED <<srvVars, current, failures>>

(* configureTunnelDNS sets all of it, or nothing and reports an error.     *)
ShovelConnected ==
  /\ main = "await"
  /\ connected' = TRUE
  /\ \/ /\ dns' = TRUE /\ Works
        /\ main' = "up" /\ poll' = "select"
        /\ UNCHANGED cancel
     \/ /\ Fails /\ cancel' = TRUE /\ main' = "teardown"
        /\ UNCHANGED <<dns, poll>>
  /\ UNCHANGED <<os, attempt, armed, firewall, next, todo, log, stop, profileMu, link, routes>>
  /\ UNCHANGED <<srvVars, current>>

(* Twenty seconds without a session, or a signal.                          *)
AwaitEnds ==
  /\ main = "await"
  /\ main' = "teardown" /\ cancel' = TRUE
  /\ UNCHANGED <<os, attempt, connected, armed, firewall, pollVars, stop, profileMu, netVars>>
  /\ UNCHANGED <<srvVars, current, failures>>

-----------------------------------------------------------------------------
(* runConnect: shut down *)

ShutdownRequested ==
  /\ main = "up" /\ Cancelled
  /\ main' = "teardown" /\ cancel' = TRUE
  /\ UNCHANGED <<os, attempt, connected, armed, firewall, pollVars, stop, profileMu, netVars>>
  /\ UNCHANGED <<srvVars, current, failures>>

(* Mutant: the kill switch is taken down first.                            *)
TeardownTUNUnprotected ==
  /\ main = "teardown" /\ profileMu = "free"
  /\ main' = "close" /\ firewall' = FALSE
  /\ dns' = FALSE /\ routes' = {} /\ link' = "down" /\ Works
  /\ UNCHANGED <<os, attempt, connected, armed, pollVars, ctlVars, srvVars, current>>

(* teardownTUN under profileMu.  Linux: link down flushes every route of   *)
(* the device; when that call fails only the routes of the profile are     *)
(* gone.  Windows flushes DNS, routes and addresses one by one, errors     *)
(* ignored, and the adapter stays.                                         *)
TeardownTUN ==
  /\ main = "teardown" /\ profileMu = "free"
  /\ main' = "close"
  /\ \/ routes' = {} /\ dns' = FALSE /\ Works
        /\ link' = IF os = "linux" THEN "down" ELSE "created"
     \/ /\ os = "linux" /\ Fails
        /\ routes' = routes \ current /\ dns' = FALSE /\ UNCHANGED link
     \/ /\ os = "windows" /\ Fails
        /\ \/ routes' = {} /\ dns' = FALSE /\ UNCHANGED link
           \/ routes' = {} /\ link' = "created" /\ UNCHANGED dns
           \/ dns' = FALSE /\ link' = "created" /\ UNCHANGED routes
  /\ UNCHANGED <<os, attempt, connected, armed, firewall, pollVars, ctlVars, srvVars, current>>

(* dev.Close, tdev.Close, udpConn.Close: the interface disappears.         *)
CloseDevice ==
  /\ main = "close"
  /\ main' = "return"
  /\ link' = "none" /\ routes' = {} /\ dns' = FALSE
  /\ UNCHANGED <<os, attempt, connected, armed, firewall, pollVars, ctlVars, srvVars>>
  /\ UNCHANGED <<current, failures>>

(* The deferred teardownKillSwitch, which exists if the install succeeded  *)
(* and whose calls fail silently; then the process ends.                   *)
Return ==
  /\ main = "return"
  /\ main' = "exited" /\ poll' = "off"
  /\ \/ armed /\ firewall' = FALSE /\ Works
     \/ armed /\ UNCHANGED firewall /\ Fails
     \/ ~armed /\ UNCHANGED firewall /\ Works
  /\ UNCHANGED <<os, attempt, connected, armed, next, todo, log, ctlVars, netVars, srvVars>>
  /\ UNCHANGED current

-----------------------------------------------------------------------------
(* The polling goroutine *)

Live == main # "exited"

(* pingC2State: an error waits for the next tick; revocation cancels.      *)
Ping ==
  /\ Live /\ poll = "select"
  /\ \/ UNCHANGED <<poll, cancel>>
     \/ ~Cancelled /\ revoked /\ cancel' = TRUE /\ poll' = "off"
     \/ ~Cancelled /\ ~revoked /\ poll' = "fetch" /\ UNCHANGED cancel
  /\ UNCHANGED <<mainVars, next, todo, log, stop, profileMu, netVars, srvVars>>
  /\ UNCHANGED <<current, failures>>

(* Mutant: a polled profile need not authorise its own resolver.           *)
FetchNextUnvalidated ==
  /\ Live /\ poll = "fetch"
  /\ \/ ~Cancelled /\ next' = issued \ {Resolver} /\ poll' = "lock"
     \/ poll' = "select" /\ UNCHANGED next
  /\ UNCHANGED <<mainVars, todo, log, ctlVars, netVars, srvVars, current, failures>>

(* fetchNetworkProfile, with the validation of its answer.                 *)
FetchNext ==
  /\ Live /\ poll = "fetch"
  /\ \/ ~Cancelled /\ next' = issued /\ poll' = "lock"
     \/ poll' = "select" /\ UNCHANGED next
  /\ UNCHANGED <<mainVars, todo, log, ctlVars, netVars, srvVars, current, failures>>

(* Mutant: new routes are added without withdrawing the old ones first.    *)
LockProfileAddFirst ==
  /\ Live /\ poll = "lock" /\ profileMu = "free"
  /\ profileMu' = "poll" /\ poll' = "add" /\ todo' = next \ current
  /\ UNCHANGED <<mainVars, next, log, stop, cancel, netVars, srvVars>>
  /\ UNCHANGED <<current, failures>>

(* Mutant: every route of the previous profile is withdrawn.               *)
LockProfileAll ==
  /\ Live /\ poll = "lock" /\ profileMu = "free"
  /\ profileMu' = "poll" /\ poll' = "withdraw" /\ todo' = current
  /\ UNCHANGED <<mainVars, next, log, stop, cancel, netVars, srvVars>>
  /\ UNCHANGED <<current, failures>>

(* profileMu.Lock and the comparison.  DeepEqual tells apart the same      *)
(* routes in another order, which is then reconciled to no effect.  The    *)
(* context is not looked at again.                                         *)
LockProfile ==
  /\ Live /\ poll = "lock" /\ profileMu = "free"
  /\ \/ next = current /\ poll' = "select" /\ UNCHANGED <<profileMu, todo>>
     \/ profileMu' = "poll" /\ poll' = "withdraw" /\ todo' = current \ next
  /\ UNCHANGED <<mainVars, next, log, stop, cancel, netVars, srvVars>>
  /\ UNCHANGED <<current, failures>>

(* reconcileTUN, first loop: a failed withdrawal is only logged.           *)
Withdraw ==
  /\ Live /\ poll = "withdraw" /\ todo # {}
  /\ \E r \in todo :
       /\ todo' = todo \ {r}
       /\ \/ routes' = routes \ {r} /\ Works
          \/ r \in routes /\ Fails /\ UNCHANGED routes
  /\ UNCHANGED <<mainVars, poll, next, log, ctlVars, link, dns, srvVars, current>>

WithdrawEnds ==
  /\ Live /\ poll = "withdraw" /\ todo = {}
  /\ poll' = "add" /\ todo' = next \ current
  /\ UNCHANGED <<mainVars, next, log, ctlVars, netVars, srvVars, current, failures>>

(* A route can be added: `ip route replace` needs the link up, AddRoute    *)
(* only an adapter, also one that teardownTUN has just flushed.            *)
Routable == IF os = "linux" THEN link = "up" ELSE link # "none"

(* Second loop: the first failure ends the reconciliation with an error.   *)
Add ==
  /\ Live /\ poll = "add" /\ todo # {} /\ Routable
  /\ \E r \in todo : routes' = routes \union {r} /\ todo' = todo \ {r}
  /\ UNCHANGED <<mainVars, poll, next, log, ctlVars, link, dns, srvVars>>
  /\ UNCHANGED <<current, failures>>

(* Mutant: the error path does not unlock profileMu.                       *)
AddFailsLocked ==
  /\ Live /\ poll = "add" /\ todo # {}
  /\ (~Routable /\ Works) \/ (Routable /\ Fails)
  /\ poll' = "select" /\ log' = "failed"
  /\ UNCHANGED <<mainVars, next, todo, ctlVars, netVars, srvVars, current>>

AddFails ==
  /\ Live /\ poll = "add" /\ todo # {}
  /\ (~Routable /\ Works) \/ (Routable /\ Fails)
  /\ poll' = "select" /\ log' = "failed" /\ profileMu' = "free"
  /\ UNCHANGED <<mainVars, next, todo, stop, cancel, netVars, srvVars, current>>

(* The DNS part succeeds: "applied %d exact routes".                       *)
Reconciled ==
  /\ Live /\ poll = "add" /\ todo = {} /\ link # "none"
  /\ dns' = TRUE /\ log' = "applied" /\ current' = next
  /\ poll' = "select" /\ profileMu' = "free"
  /\ UNCHANGED <<mainVars, next, todo, stop, cancel, link, routes, srvVars, failures>>

(* It fails, on Linux possibly after a revert: "retaining last profile".   *)
DNSFails ==
  /\ Live /\ poll = "add" /\ todo = {}
  /\ \/ link = "none" /\ Works /\ UNCHANGED dns
     \/ link # "none" /\ Fails /\ dns' \in {dns, dns /\ os = "windows"}
  /\ poll' = "select" /\ log' = "failed" /\ profileMu' = "free"
  /\ UNCHANGED <<mainVars, next, todo, stop, cancel, link, routes, srvVars, current>>

PollDone ==
  /\ Live /\ poll = "select" /\ Cancelled
  /\ poll' = "off"
  /\ UNCHANGED <<mainVars, next, todo, log, ctlVars, netVars, srvVars>>
  /\ UNCHANGED <<current, failures>>

-----------------------------------------------------------------------------
(* The environment *)

Signal ==
  /\ ~stop
  /\ stop' = TRUE
  /\ UNCHANGED <<mainVars, pollVars, cancel, profileMu, netVars, srvVars>>
  /\ UNCHANGED <<current, failures>>

Reissue ==
  /\ Live
  /\ issued' \in Profiles
  /\ UNCHANGED <<mainVars, pollVars, ctlVars, netVars, revoked, current, failures>>

Revoke ==
  /\ Live /\ ~revoked
  /\ revoked' = TRUE
  /\ UNCHANGED <<mainVars, pollVars, ctlVars, netVars, issued, current, failures>>

-----------------------------------------------------------------------------
runConnect == \/ FetchProfile \/ CreateDevice \/ InstallRoute \/ ActivateAddress
              \/ ArmKillSwitch \/ ResolveHost \/ ShovelConnected \/ AwaitEnds
              \/ ShutdownRequested \/ TeardownTUN \/ CloseDevice \/ Return
reconcileTUN == Withdraw \/ WithdrawEnds \/ Add \/ AddFails \/ Reconciled \/ DNSFails
pollLoop == Ping \/ FetchNext \/ LockProfile \/ reconcileTUN \/ PollDone

Next == runConnect \/ pollLoop \/ Signal \/ Reissue \/ Revoke

(* Both goroutines keep running and no call blocks for ever (every request *)
(* and lookup has a timeout); the poll's mutex hand-over is fair.          *)
Fairness == /\ WF_vars(runConnect) /\ SF_vars(TeardownTUN)
            /\ WF_vars(reconcileTUN) /\ WF_vars(LockProfile)

Spec == Init /\ [][Next]_vars /\ Fairness

-----------------------------------------------------------------------------
(* Properties *)

(* The variables keep their types; only validated profiles, which route    *)
(* their own resolver, are ever fetched or applied.                        *)
TypeOK ==
  /\ os \in Platforms /\ attempt \in 1..maxAttempts
  /\ main \in {"fetch", "device", "routes", "resolve", "await", "up",
               "teardown", "close", "return", "exited"}
  /\ poll \in {"off", "select", "fetch", "lock", "withdraw", "add"}
  /\ stop \in BOOLEAN /\ cancel \in BOOLEAN
  /\ profileMu \in {"free", "poll"}
  /\ current \in Profiles \union {{}} /\ next \in Profiles \union {{}}
  /\ todo \subseteq Routes /\ routes \subseteq Routes
  /\ link \in {"none", "created", "up", "down"} /\ dns \in BOOLEAN
  /\ connected \in BOOLEAN /\ armed \in BOOLEAN /\ firewall \in BOOLEAN
  /\ issued \in Profiles /\ revoked \in BOOLEAN
  /\ log \in {"", "applied", "failed"}
  /\ failures \in 0..MaxFail

Reconciling == poll \in {"withdraw", "add"}
Settled == main = "up" /\ ~Reconciling

(* Through any sequence of reissued profiles, when no call fails: outside  *)
(* a reconciliation the kernel routes are exactly the profile the client   *)
(* believes to be in force and DNS points at the tunnel; during one they   *)
(* never mix what the old and what the new profile alone authorise         *)
(* ("withdraw old authorization first").                                   *)
ExactWithoutFailures ==
  failures = 0 /\ main = "up" =>
    /\ Settled => routes = current /\ dns
    /\ Reconciling => routes \subseteq current \/ routes \subseteq next

(* "applied %d exact routes" (client/main.go:925): after that line, the    *)
(* installed routes are exactly those of the profile.                      *)
AppliedIsExact == Settled /\ log = "applied" => routes = current

(* Whatever call fails, the resolver stays reachable through the tunnel    *)
(* for as long as the interface is up.                                     *)
ResolverReachable ==
  main \in {"resolve", "await", "up"} => Resolver \in routes

(* On every path out of runConnect, whatever fails in it and also while    *)
(* the poll is reconciling: an armed kill switch filters until every route *)
(* and the interface are gone.  When the process has ended no route and no *)
(* DNS setting is left, and rules that filter only if a call has failed.   *)
ProtectionOutlivesTunnel ==
  /\ armed /\ main # "exited" => firewall
  /\ main = "exited" => routes = {} /\ ~dns /\ (firewall => failures > 0)

(* A requested shutdown completes, also while the poll is reconciling.     *)
ShutdownCompletes == Cancelled ~> main = "exited"
=============================================================================
