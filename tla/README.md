# A TLA+ model of arena-tunnel

arena-tunnel carries WireGuard datagrams over a WebSocket. This directory holds
TLA+ modules translated from its Go source, the TLC configurations that check
them on small instances, and TLAPS proofs for every instance. `PROJECT.json`
maps every definition to the lines it models, and lists the runs, the mutants
that show each property can fail, the hazards and the theorems.

    tlc -workers 2 -config ServerTunnel_tunnel.cfg MCServerTunnel
    tlapm ServerTunnelProofs.tla

## The system

| part | source | state it keeps | operations |
|---|---|---|---|
| tunnel server | `server/main.go` | per request: WebSocket, UDP socket, `done`, `once`; per process: `activeConns` | upgrade and open, `pingLoop`, `wsToUDP`, `udpToWS`, `statsLoop`, `close`, manager callbacks, `/healthz` |
| client shovel | `client/main.go` 78-340 | the UDP socket shared by all sessions; per session: WebSocket, `writeMu`, `wgPeer`, `peerCh`, `reasonBox`, a cancel function | dial, backoff, the two copy loops, keepalive, ping handler |
| connect lifecycle | `client/main.go` 718-948, `tun_config_linux.go`, `tun_config_windows.go`, `network_profile.go` | TUN device, kernel routes, DNS of the link, `currentProfile`, `profileMu`, two contexts | bring up (with retries on Windows), await, poll, `reconcileTUN`, shut down |
| kill switch | `client/killswitch_linux.go`, `killswitch_windows.go`, `heartbeat.go` | Linux: iptables chain, rule, jump; Windows: outbound default and allow rules; marker file; the armed flag of a run | install, teardown, recovery at startup, heartbeat |
| single-instance lock | `client/main.go` 373-411, `pid_unix.go` | the lock file | acquire, release, probe |
| pairing | `client/pair.go` | pairing code, deadline, failure count | init, poll, backoff, claim by token, save |
| config store, bootstrap | `client/config.go`, `client/main.go` 550-714, 951-1225 | `config.json`, `config.json.tmp`, the systemd unit; at the control plane the state of each peer | load, save, wipe, pair or not, preflight, logout |
| durable log | `client/logsink.go` | the live file and its archives; per process the open file, its believed size, a semaphore | open, write, rotate, close |
| observability | `observability.go` | counters, the last data-plane state, `reasonBox` | reasons of a session end; log lines |
| banner, status, trust cleanup, other systems, scripts | the remaining files | - | formatting and platform calls |

How they meet. `main` first recovers the kill switch, then dispatches. A default
run opens the durable log, takes the lock, loads the config or pairs and stores
one, asks the control plane whether the stored peer is still active (if not: wipe
and pair again), and calls `runConnect`, which fetches a network profile, creates
the device, arms the kill switch, starts the shovel as a goroutine and waits on
the channel `connected`. A logout revokes, wipes and removes what the installer
left, without the lock. The shovel and the server exchange WebSocket frames; one
binary frame is one datagram. The server talks UDP to WireGuard and posts
`connected` and `disconnected` to the manager. The client's poll goroutine asks
the manager for revocation and profiles every 60 s.

What is hard: four goroutines of a tunnel racing into `close()`; two of them
writing one WebSocket; goroutines of ended client sessions that still read the
shared socket; a poll that reconciles while the main goroutine shuts down; steps
of several external commands of which one fails; a crash between two of them; a
config file written, zeroed and removed by invocations that may die in between; a
rotation of several renames under a lock that the logger itself would need; a lock
file, a log and a firewall shared by invocations that do not know of each other;
backoffs and deadlines that race.

## Modules

| module | models | abstracted |
|---|---|---|
| `ServerTunnel` | the whole of `server/main.go`, a process panic, the restart by systemd | deadlines (silence is a broken wire), logging, session ids |
| `ClientShovel` | `runShovel`, `runOneTunnel`, `reasonBox` | statistics goroutines, the dialer's address choice |
| `PidLock` | `acquirePIDLock`, `releasePIDLock`, `processExists` | pid reuse; path and inode are told apart |
| `KillSwitchRuns` | the invocations around the kill switch: recovery at startup, dispatch, arming, marker, heartbeat, clean end, crash | what a run does besides |
| `KillSwitchLinux`, `KillSwitchWindows` | install and teardown, one step per iptables or PowerShell call | the content of a rule; LAN and control-plane rules are one each |
| `KillSwitch` | the two platforms composed with the invocations, and the properties | - |
| `ConnectLifecycle` | `runConnect`, `configureTUN`, the poll, `reconcileTUN`, DNS, `teardownTUN`, on both platforms | a validated profile is its set of routes; the firewall is one bit (its steps are in `KillSwitch`) |
| `Pairing` | `pairInit`, `pairPoll`, `claimByToken` | codes and URLs; time passes only in requests and sleeps; the save is one step (its steps are in `Bootstrap`) |
| `Bootstrap` | `LoadConfig`, `SaveConfig`, `WipeConfig` per system call, `runDefault`, `pingC2State`, `runLogout` | a config is the peer it identifies; pairing is one claim, `runConnect` one step |
| `LogSink` | `rotatingSink`, opened by every run before the lock | a record is its number, once per unit of length |
| `Bridge` | what the server promises, abstractly | - |
| `ConfigCell` | what the config file promises, abstractly | - |
| `RecordLog` | what the durable log promises, abstractly | - |
| `PidLockProofs`, `ServerTunnelProofs`, `ClientShovelProofs`, `KillSwitchProofs`, `ConnectLifecycleProofs`, `BootstrapProofs`, `PairingProofs`, `LogSinkProofs` | - | theorems about the module of that name |

The `MC...` modules give constants their values; `MCKillSwitch` also defines the
symmetry set of its invocations, and so does `MCBootstrap`.

Three refinements. `Bridge` says what the server is for: a request is refused or
becomes a channel that carries both ways, in order and without holes, until it
ends (toward the client: until two writers of its WebSocket have met, after which
a frame may be damaged); whoever watches is told of the end after it, and every
channel ends.
`ServerTunnel` implements it (`BridgesInOrder`) with a channel that is `open` as
long as its UDP socket is and `closing` as long as its WebSocket still is; all
goroutines, the `Once` and every error path disappear behind that. `ConfigCell`
says what the config file is for: one cell that changes in a single step, is
replaced by younger pairings only, and is emptied only for a logout or because a
pairing ended. `Bootstrap` implements it (`StoredPairing`) with the cell that
`LoadConfig` would return: a temporary file, a zeroed file and a half-written one
are all invisible. TLC checks both in full; the second, and the safety part of the
first, are proved too. `RecordLog` says what the log is for: a list that grows by the
record accepted last, each one once at most, and is cut only at its ends, until two
invocations share it. `LogSink` implements it (`ImplementsRecordLog` in
`LogSinkProofs`) with the concatenation of its files: a rotation at any point, a
failed one and a crash in the middle of one are invisible. This one is a theorem
and not a property of a run.

Correspondence. A `pc` variable names the program point of each goroutine or
process; a step is what happens between two points at which another actor can
interfere (a system call, a channel operation, a lock). Datagrams are sequence
numbers; `Control` is any frame that is not binary. Definitions named `...Twice`,
`...Skipped` and the like, introduced by "Mutant:", are the faulty variants used
to test the properties; no specification uses them.

Some points where the model follows the code closely:

- `sync.Once` blocks a second caller until the body has finished
  (`EnterClose` has no step while `once = "running"`).
- A server holds the UDP socket before it counts the tunnel, and counts it before
  any goroutine runs (`DialUDP`, `CountTunnel`, `StartTunnel`).
- Two overlapping writes of the server panic (`Panic`), or, since gorilla only looks
  at a flag without synchronisation, return, and then the datagram may be damaged on
  the WebSocket (`clash`, `Damaged`).
- A write on a socket closed by this side fails; one on a broken wire may
  succeed or fail, because the kernel buffers it.
- `wgPeer` is a data race: until the reader has received from `peerCh`, it may or may
  not see the assignment (`ReadBinary`). The address is stored
  first and sent afterwards (`StorePeer`, `SendPeer`), and the 30 s timer may fire
  whenever the reader waits (`PeerTimeout`).
- `Dial` does not take the context: the shovel notices a cancellation only after
  it (`StartSession` is not guarded by `ctx`).
- The heartbeat runs until the root context is done. A signal cancels it, a
  revocation cancels only the shovel's, so the heartbeat goes on during the deferred
  teardown of a revoked run (`Beats`).
- An install of the kill switch that fails leaves whatever it has set, with `armed`
  false and nothing deferred; the calls of a teardown fail silently (`ArmKillSwitch`
  and `Return` of `ConnectLifecycle`, step by step in `KillSwitch`).
- The lock file exists before it holds a pid (`OpenExcl`, then `WritePid`).
- Every error of `http.Client.Do` is a `*url.Error` and therefore transient to
  `isTransientNetErr`; `PollFails` counts it even when the context is cancelled.
- `LoadConfig` answers "none" both for a missing and for an unreadable text, so a
  crash between zeroing and unlinking is the end of the wipe (`Loaded`).
- A 202 says that the user has not authorised the device yet or, with `saga_running`,
  that the server is still provisioning the peer; `Pairing` knows only when the
  credentials are ready (`readyAt`).
- An answer to a claim that cannot be decoded, or does not arrive, may have issued a
  peer (`ClaimFails`); `claimed` is the last peer whose credentials the client has
  read.
- The stored peer may be wiped on "unknown" only after a 401; a config without a
  token needs "revoked" (`Verdicts`).
- `open(true)` does not ask for `O_APPEND`: a sink that truncated after a failed
  rotation writes where it believes to be (`Opened`, `Put`).
- An open file follows its name through a rename (`fd` in `LogSink`), so a process
  whose log is rotated by another one writes into an archive.
- On Windows, `runLogout` does not tear the kill switch down, and an adapter still
  takes routes after `teardownTUN` (`Routable`).

## Runs

States are distinct states, rounded.

| run | instance | states | shows |
|---|---|---|---|
| `ServerTunnel_tunnel` | 1 tunnel with a token, up to 2 datagrams each way but 3 in all, 1 control frame | 417 000 | `TypeOK`, `HealthExact`, `ClosedForAReason`, `DisconnectedIsLast`, `TunnelDrains`, `BridgesInOrder` |
| `ServerTunnel_writers` | 1 tunnel, 1 datagram | violation | `SingleWriter` |
| `ClientShovel_sessions` | 1 session with a datagram each way and a control frame, with 1 up and 2 down, with 2 up, or with a control frame and keepalives; 2 sessions with 1 datagram up, or with keepalives | 235 000 | `TypeOK`, `OneWriter`, `StaleLosesOne`, `ReasonKnown`, `PeerAtHand`, `BrokenSessionEnds`, `ShutdownIsComplete` |
| `PidLock_starts` | 3 processes, 5 attempts | 246 000 | `TypeOK`, `SingleUnlessRaced` |
| `PidLock_race` | 2 processes, 5 attempts | violation | `SingleInstance` |
| `KillSwitch_safe` | both platforms, 3 invocations, 1 failing call | 482 000 | `TypeOK`, `HonestUnlessOverlap`, `CrashRecovered`, `NeverLockedOut`, `TeardownIsComplete` |
| `KillSwitch_chip` | Linux, 2 invocations, no failure | violation | `HonestChip` |
| `ConnectLifecycle_run` | both platforms, resolver and 2 routes, 2 attempts, 1 failing call | 271 000 | `TypeOK`, `ExactWithoutFailures`, `ResolverReachable`, `ProtectionOutlivesTunnel`, `ShutdownCompletes` |
| `ConnectLifecycle_exact` | Linux, resolver and 2 routes, 1 failing call | violation | `AppliedIsExact` |
| `Pairing_poll` | constants scaled down (40 s wall clock, 4 failures, backoff up to 5 s) | 212 000 | `TypeOK`, `PollIsBounded`, `ClaimIsSeen`, `BudgetIsPatient` |
| `Bootstrap_store` | 3 invocations, 3 peers, 1 failing file operation | 771 000 | `TypeOK`, `ClaimNotLost`, `SaveSucceeds`, `LogoutIsComplete`, `StoredPairing` |
| `LogSink_rotate` | 2 invocations, files of 2 units, 2 archives, 4 records of 1 or 2 units, 1 failing call | 384 000 | `TypeOK`, `Bounded`, `Chronological`, `KeepsTheLatest`, `OnLiveFile`, `WriteReturns` |

Why the bounds are enough. Two datagrams distinguish loss, repetition and
reordering, and the third would meet the same program points; with two in each
direction at once (`MaxTraffic` excludes it) the directions would still share only
`close()` and the WebSocket's writers, which one datagram is enough to reach.
Tunnels share nothing but the gauge and the process; one tunnel already has three
goroutines that race into `close()`, and `GaugeIsExact` proves the gauge for any
number of tunnels. Two sessions give one stale and one live reader of the shared
socket, which is the whole of that interaction; the traffic a run sees is chosen at
its start from the workloads of `MCClientShovel`, because inbound traffic does not
touch a stale session, which only reads the UDP socket. Two processes race for the
lock, a third arrives after a crash. One failing call reaches every error path once;
two routes let one be withdrawn while the other is added. The passing run of
`Pairing` scales the time constants down, so that both ends of an outage, the
failure budget and the wall clock, are reached; request durations and the instants
at which the credentials are ready and a signal arrives are chosen around the
boundaries (0, the request timeout, and both sides of the deadline). Three
invocations of the kill switch are a crash or a bad end, a recovery, and a run on
top of it; of the bootstrap, one that dies, one that meets what it left, and one
that overlaps. Of three peers one has no token, one no URL, and one is incomplete,
so that every branch of load and preflight is taken. Two archives are the fewest
with a shift between them, and four records fill all three files and start the
second round. The Windows client makes 15 attempts to configure the adapter; the
model makes two, and what a third meets is what the second met.

Deadlock checking is off in all runs: a tunnel, a session, an invocation and a
pairing all end, and the environment is bounded. What must happen is stated as
liveness instead.

Fairness. The Go scheduler runs every runnable goroutine, timers fire, and requests,
dials and commands return: weak fairness of the steps of each goroutine. `select`
picks at random among ready cases, so a case that is ready again and again is taken:
strong fairness of `PingDone`. `sync.Mutex` hands over to a waiter it has starved
for 1 ms: strong fairness of `Lock` for `wssToUDP`, the only writer of a session
that has to get through for a property to hold, and of `TeardownTUN`, which waits
for `profileMu`. File operations return: weak fairness of the rest of a write in
`LogSink`. systemd restarts the server (`ARCHITECTURE.md` 194). That a panic follows
two overlapping writes is not assumed. The other modules state safety only. Nothing
is assumed of the peer, the network, WireGuard or the user.

## What the violations show

1. `SingleWriter`: `pingLoop` and `udpToWS` of the server write the same
   WebSocket without a lock. The client has a mutex for exactly this, with a
   comment that records a panic in production (`client/main.go` 218-224). On the
   server the panic ends the process and every tunnel on it, or, when gorilla's best
   effort check misses the other writer, a frame may be damaged. The model has both,
   so all passing server properties hold across such crashes, and `BridgesInOrder`
   promises the order toward the client only until two writes have overlapped.
2. `SingleInstance`: a start that judged the lock file stale removes the file
   another start created in the meantime. `SingleUnlessRaced` is what remains
   true, and it is proved.
3. `HonestChip`: any other invocation of the binary, `status` or `help` too,
   takes the marker of a live run for a leftover and removes its rules; the
   heartbeat goes on reporting armed. Without overlapping invocations the report
   is honest (`HonestUnlessOverlap`), but for a revoked run that goes on reporting
   armed while it takes its own rules down (see below).
4. `AppliedIsExact`: a failed withdrawal is logged and forgotten.

## Smaller disagreements

These have no run of their own; the modules contain the behaviour.

- `client/pair.go` 16-17 promises an exit after 30 consecutive failures. The 29
  backoffs before the thirtieth take 780 s together, the wall clock allows 600 s:
  an outage ends with exit code 6, and code 5 cannot come out of the poll loop.
  (`Pairing_poll` scales the constants so that both ends are reached.)
- `client/pair.go` 331 says that a cancellation does not count as a transient
  failure, but a cancelled request fails with a `*url.Error`, which 340 accepts. It
  has no visible effect, because `sleepCtx` notices the cancellation at once.
- Windows kill switch: when reading the default back fails (161), or a later call
  does, Block stays in force, the run goes on unarmed, nothing is deferred and no
  marker is written, although `client/main.go` 802-803 says that a botched install
  cannot strand the user. The same state follows a crash between the flip (145) and
  the marker (171); the next install then removes the allow rules while the default
  still blocks. `CrashRecovered` and `NeverLockedOut` exclude exactly these cases. A
  recovery without elevation fails silently and still removes the marker (67). The
  read-back looks at the Public profile only.
- After a revocation only the shovel's context is cancelled, not the one the heartbeat
  listens to (`client/heartbeat.go` 71-77): it may report armed during the deferred
  teardown, and nothing corrects the dashboard after it.
- A claim is answered once. When its answer does not decode (`client/pair.go` 273-275,
  392-394), is cut short or lost, the peer exists at the control plane and its
  credentials nowhere; the client ends with an error and a later start pairs again.
- `client/main.go` 1124-1127 asks for "revoked" before a config is wiped; 1158-1162
  also wipes on "unknown", as the comment inside says. A config without a token is
  not wiped on "unknown".
- `runLogout` takes no lock. It may wipe a pairing that a run has just stored while
  it revokes the older peer, and when a preflight has removed the file first it
  ends with `ExitConfigUnlinkFailed` and leaves the unit. A failed read counts as
  "No config to remove". A logout that dies after the wipe cannot be finished by
  another one, and it never looks at `config.json.tmp`, which after a crashed save
  holds credentials.
- When a fresh pairing cannot be stored and is revoked at once, the preflight wipes
  the older, still active config (`unsaved` in `ConfigCell`).
- `src/README.md` 152 describes a run with explicit keys as "no pairing control plane
  needed". Such a run, one with baked-in credentials and one with a config without
  a token have no URL or no token, and `fetchNetworkProfile`
  (`client/network_profile.go` 34) requires both: `runConnect` ends at once.
- `rotatingSink.Write`: after a rotation that worked and an open that failed, the
  file stays closed and `n` as it was, so that records that still fit are lost
  without another attempt, and the next that does not fit shifts the archives once
  more. A lock held on `.1` costs every older archive.

## Proofs

Each of the eight stateful components has a proof module. Together they prove, for
every value of the constants, every safety property of the passing runs. The
properties are seldom inductive: they look at a few program points and say nothing
of the points in between. Each proof module begins with the strengthening that is, a
conjunction of named parts, and has one lemma for each action (or group of actions)
that says what the step does, frame lemmas for what the other actors keep, and one
lemma for each part an action can disturb. The assumptions are the named `ASSUME`s
of the modules. They fix the types of the constants; those that say more are named
below, and TLC evaluates all of them on the constants of every run.

`PidLockProofs` (the absent file is no process, at least one attempt). `TypeCorrect`,
and `SingleInstanceUnlessRaced` for any set of processes. `SingleUnlessRaced` is
silent about a process on its way to the lock; `Solitary` adds that at most one
process is inside `acquirePIDLock`, that the file it fills is its own, that if it is
about to probe a pid and somebody holds the lock, that is the holder, and that
nobody holds it when it is about to remove the file.

`ServerTunnelProofs` (a finite set of requests).

- `ServerInvariant`: at most one goroutine of a tunnel is in the body of `close()`,
  exactly while the `Once` runs (`OneInside`); its program point tells what is
  released (`Released`); the gauge is the number of tunnels that have passed the
  increment and not the decrement (`GaugeInv`). From it follow `GaugeIsExact` (the
  gauge differs from the UDP sockets held only by tunnels between dial and
  increment, or inside `close()`), `DisconnectComesLast` and `ServerTypeCorrect`
  (the gauge is never negative).
- `ClosingHasAReason`: `close()` runs only for a broken wire, a UDP error or
  `-max-age`. `Aware` adds that whoever stands before the `Once` has met such a
  reason, and that the WebSocket is open until the body of `close()` reaches it, so
  that no goroutine is sent there by the teardown itself.
- `ImplementsBridge`: each step of the server is a step of `Bridge` or a stutter,
  the initial state included. Writers that meet set `mixed`, after which `CarryDown`
  may carry a damaged datagram. It needs where a datagram is between the two ends:
  `Upward` and `Downward` say that, while the goroutine that copies is at work, the
  queue before it continues without a hole what it has delivered. Stating it
  turned up that `Phase`, the refinement mapping, was a `CASE` with overlapping
  guards, where TLA+ leaves open which one holds; it is a nested `IF` now.

`ClientShovelProofs` (any number of sessions, any workload).

- `ShovelInvariant`. Within a session (`Local`): a goroutine holds a datagram
  exactly between reading and writing it, the mutex is held exactly around
  `WriteMessage`, whoever cancels has given a reason or was cancelled from outside,
  and the channel holds the address from its sending until `wssToUDP` takes it.
  Between sessions (`Queue`, `InTurn`, `Apart`): the datagrams of the shared socket,
  those in hand, lost and forwarded are pairwise different, and each session has
  them in ascending order.
- From it `ShovelTypeCorrect`, `WritersTakeTurns` (`OneWriter`), `EndIsExplained`
  (`ReasonKnown`), `PeerIsAtHand` (`PeerAtHand`, in spite of the data race on
  `wgPeer`: past the publication `wssToUDP` does not wait in vain) and
  `StaleReadersLoseOne` (`StaleLosesOne`: a goroutine that outlives its session ends
  with the datagram it takes).

`KillSwitchProofs` (any set of invocations, both platforms). `KillSwitchInvariant`
is in layers, because each property grants different excuses: facts that always hold
(`Firewall`, `Report`); that a run installs under the lock (`Locked`), adds its rule
to a flushed chain (`Fresh`) and so never stacks rules, and jumps only by as many as
calls have failed (`Stacks`, which the type invariant states); what an install has
done when invocations do not overlap (`Install`); that a teardown undoes it step by
step when moreover no call fails (`Torn`, `OneJump`); that the marker tells of every
filter when moreover no process died between the last call and the marker (`Beacon`,
`Told`); and on Windows the order of the carve-outs (`Soft`). The theorems are
`KillSwitchTypeCorrect`, `ReportIsHonest`, `CrashIsRecovered`, `NobodyIsLockedOut`
and `TeardownCompletes`; `HonestUnlessOverlap` needs only the layer without overlap,
so that it holds whatever fails.

`ConnectLifecycleProofs` (any set of routes; at least one attempt).
`LifecycleInvariant` says how the main goroutine gets to where the properties look
(`Stages`), where rules may be left over when a call of the kill switch has failed,
what a reconciliation still has to do (`Reconciliation`), and, as long as
no call has failed, that this is all that separates the kernel's routes from the
profile (`Progress`). From it `LifecycleTypeCorrect`, `ExactRoutes`,
`ResolverStaysReachable` and `ProtectionLast`.

`BootstrapProofs` (any invocations, any peers, any number of failing file operations).

- `BootstrapInvariant`: what an invocation is decides where it can be, and a run
  holds the lock (`Role`); what it has in memory (`Memory`), what the control plane
  knows (`Ledger`), whose the temporary file is (`Disk`); while nothing has been
  lost, refused or asked for, that the last pairing whose credentials arrived is in
  the file or being saved, and that a preflight looks at no other (`Kept`,
  `Current`); and for a logout that is alone, that it finds the file until it has
  removed it (`Logout`).
- From it `BootstrapTypeCorrect`, `ClaimIsKept`, `SavesSucceed`, `LogoutCompletes`,
  and `ImplementsCell`, the refinement of `ConfigCell` in full (it has no fairness).

`PairingProofs` (natural constants; a poll interval that is no longer than the cap
of the backoff, also together with a request timeout, and a request timeout no
longer than the client's: 2, 10, 30 and 15 s in `pair.go`). `PairingInvariant` says
how late each program point can be (`Clock`), and that, unless a poll has failed
since, the last one that got through was sent before the credentials were ready, at
most one backoff ago (`Seen`). From it `PairingTypeCorrect`, `PollEndsInTime`
(`PollIsBounded`: one request and one backoff beyond the wall clock) and
`ClaimsAreSeen`. The instances of the run are scaled down; the theorems hold for the
constants of `pair.go`.

`BudgetIsSlept` (`BudgetIsPatient`) is about what a recursive function computes:
`patience` sums the backoffs of the consecutive failures. The induction is done on
sets. `Smallest` gives every nonempty set of naturals a least element (by
`WFMin`, on the library's fact that `<` is well-founded), and `Induction` applies it
to the set of the numbers for which a statement fails. `PatienceSums` unfolds the
definition one backoff at a time that way, `Slept` is the inductive invariant (the
time since the first of the failures is at least the backoffs slept since), and a
pairing that gives up has as many of them behind it as the budget.

`LogSinkProofs` (a finite set of invocations, at least one archive, and records that
fit an empty file: `logMaxBytes` is 5 MiB and a record one line).

- `SinkInvariant`. `Shape`: an open file exists, and a rotation works with the file
  closed. `Alone`, without overlapping invocations: no file exceeds the limit, and
  the sink counts what is in the live file. With overlapping ones the files are
  bounded by an argument over all processes: each owns `maxSize` units per file
  and uses up as many as it writes. `Ledger` says that some assignment of units pays
  for every file, follows it through renames, and that a process has used up no
  more than it has counted; a truncation gives a process its own units back, but
  not those of others who go on writing behind it.
- From it `SinkTypeCorrect` (no file outgrows one limit per process),
  `GrowthIsBounded` and `RecordsReachTheLog` (`OnLiveFile`).
- `LogInvariant`, about the log as one text. `Chronicle` concatenates the files by
  recursion over the slots; `Chain` says the same without it, as a relation between
  neighbouring slots, and `ChronicleIsChain` shows that the recursive definition is
  one (by the induction on sets of `PairingProofs`, here downward from the oldest
  archive). Lemmas about two chains that differ in one or two slots then tell what a
  change of the files does to the text. From them `LogSteps`: a step of the only
  invocation leaves the log as it is, drops one end of it or appends the record, since
  a rename always goes to a name that is missing (`Held`) and an open file is
  appended to at its end. `Ranked` (the records are in order) follows. `Kept`, for the
  time in which no call fails and no invocation ends, says at every point of a
  rotation which slot is the hole that it moves towards the live file and what is
  already full above it (`FullBut`, `Dense`), and that the log is the latest records
  without a gap up to the one being written (`Content`).
- From it `LogIsChronological` (`Chronological`), `LatestAreKept` (`KeepsTheLatest`)
  and `ImplementsRecordLog`, the refinement of `RecordLog` in full (it has no
  fairness). A record is owed while an invocation is between `Write` and the end of
  `Put` (`Owing`); as an invocation leaves `put` only for `idle` or the end
  (`HandStep`), no record is stored twice, which `Chronological` alone would allow.

Only model-checked is liveness, since the prover treats neither fairness nor
`ENABLED`: `TunnelDrains` and the fairness part of `BridgesInOrder`,
`BrokenSessionEnds`, `ShutdownIsComplete`, `ShutdownCompletes`, `WriteReturns`. The
safety parts they rest on (a signal is never slept through, a teardown that ends has
removed everything, a step of the server is a step of `Bridge`) are theorems.

The library's induction theorems take the statement as a parameter, which the
installed provers cannot instantiate; where an induction over data is needed it is
done on the set of the numbers for which the statement holds, as described above. No
module declares a `RECURSIVE` operator.

## Not modelled

- Ping intervals and read deadlines as times; silence is a broken wire. A timed
  model would need both programs and the network between them at once, and both
  ends' models alone already fill their runs.
- The address predicates of `validateNetworkProfile`: the rest of the client
  depends on their outcome only, which is that the resolver is always routed.
- Counters and the data-plane state, which only feed log lines; text output;
  opening a browser. `runStatus` reads and prints.
- Trust cleanup: one file removed and one tool called, best effort.
- Stubs for other systems, build and host scripts, the content of `restrictToOwner`.
- `processExists` on Windows always answers no, which is the mutant
  `processExistsNever` and breaks `SingleUnlessRaced`.
- What a peer does with a frame it receives: histories record what each side has
  put on the WebSocket, the socket or the device.
- The delivery of a callback to the manager; the model records that it started.

## Further work

All stateful components, three abstract specifications and a theorem for every safety
property are done. Two extensions are open:

1. An abstract specification of the kill switch, refined by both platforms. Its
   promises (armed is reported only while protected, recovery restores the network,
   nobody is locked out) hold under different excuses, so that a refinement would
   have to carry the excuses as state; the theorems state each promise with its own.
2. Time in the tunnel itself: ping intervals and read deadlines (see above).
