--------------------------- MODULE KillSwitchRuns ---------------------------
(***************************************************************************)
(* The invocations of the client as the kill switch sees them              *)
(* (client/main.go): every start first recovers from an unclean shutdown,  *)
(* a tunnel run arms the kill switch and reports it to the dashboard, a    *)
(* clean end and (on Linux) a logout take it down.                         *)
(*                                                                         *)
(* The firewall and the marker file are shared by all processes.  What the *)
(* firewall holds, and the calls that install and tear down, differ by     *)
(* platform: KillSwitchLinux and KillSwitchWindows.                        *)
(***************************************************************************)
EXTENDS Integers, Sequences, FiniteSets

CONSTANTS Procs,     \* the invocations of the binary
          Platforms, \* "linux", "windows" or both: one of them per behaviour
          NoHolder,  \* no process holds the PID lock
          MaxFail    \* bound: calls that fail although they could succeed

ASSUME KillSwitchAssumption ==
  /\ NoHolder \notin Procs /\ MaxFail \in Nat
  /\ Platforms \subseteq {"linux", "windows"}

VARIABLES
  os,         \* the platform, never changed
  kind,       \* kind[p]: "run", "logout" or "oneshot" (status, version, help)
  pc,         \* pc[p]: where p stands
  ret,        \* ret[p]: where teardownKillSwitch returns to
  armed,      \* killSwitchArmed of p, the value its heartbeat reports
  revoked,    \* revoked[p]: the run p ends because the server revoked it
  holder,     \* the live process that holds the PID lock
  fw,         \* the firewall, a record of the platform
  marker,     \* the armed-marker file exists
  chip,       \* what the dashboard last heard: "none", "armed", "unarmed"
  failures,   \* history: calls that failed by chance
  overlap,    \* history: two invocations have been alive at once
  beaconless  \* history: a process died between enforcing and marking

histVars == <<overlap, beaconless>>
vars == <<os, kind, pc, ret, armed, revoked, holder, fw, marker, chip, failures, histVars>>

Ended == {"new", "exited", "crashed"}
Alive(p) == pc[p] \notin Ended

(* The points of a teardown; past the first call something is undone.      *)
Undoing  == {"tF", "tX", "ungroup", "unmark"}
Teardown == {"teardown"} \union Undoing

Goto(p, point) == pc' = [pc EXCEPT ![p] = point]

(* p goes on and changes nothing else.                                     *)
Pass(p, from, to) ==
  /\ pc[p] = from /\ Goto(p, to)
  /\ UNCHANGED <<os, kind, ret, armed, revoked, holder, fw, marker, chip, failures, histVars>>

(* A firewall call of p: it works as given, or fails by chance.            *)
Fails == failures < MaxFail /\ failures' = failures + 1
Works == UNCHANGED failures
Calling(p, here) ==
  /\ pc[p] = here
  /\ UNCHANGED <<os, kind, ret, armed, revoked, holder, marker, chip, histVars>>

-----------------------------------------------------------------------------
(* main *)

Start(p) ==
  /\ pc[p] = "new"
  /\ \E k \in {"run", "logout", "oneshot"} : kind' = [kind EXCEPT ![p] = k]
  /\ Goto(p, "recover")
  /\ overlap' = (overlap \/ \E q \in Procs : Alive(q))
  /\ UNCHANGED <<os, ret, armed, revoked, holder, fw, marker, chip, failures, beaconless>>

(* Mutant: no recovery at startup.                                         *)
RecoverSkipped(p) == Pass(p, "recover", "dispatch")

(* recoverKillSwitchIfLeftArmed: before the PID lock, for every subcommand *)
Recover(p) ==
  /\ pc[p] = "recover"
  /\ Goto(p, IF marker THEN "teardown" ELSE "dispatch")
  /\ ret' = [ret EXCEPT ![p] = "dispatch"]
  /\ UNCHANGED <<os, kind, armed, revoked, holder, fw, marker, chip, failures, histVars>>

(* dispatchSubcommand.  A logout without a stored config stops early, and  *)
(* only on Linux does it tear down; a run needs the PID lock (here: no     *)
(* live process holds it) and may fail before the tunnel is up.            *)
Dispatch(p) ==
  /\ pc[p] = "dispatch"
  /\ \/ kind[p] = "run" /\ holder = NoHolder /\ holder' = p /\ Goto(p, "up")
     \/ kind[p] = "logout" /\ os = "linux" /\ Goto(p, "teardown") /\ UNCHANGED holder
     \/ Goto(p, "exited") /\ UNCHANGED holder
  /\ ret' = [ret EXCEPT ![p] = "exited"]
  /\ UNCHANGED <<os, kind, armed, revoked, fw, marker, chip, failures, histVars>>

(* The tunnel is up: install, unless -kill-switch=false or -portable.      *)
Arm(p) == Pass(p, "up", "install") \/ Pass(p, "up", "connected")

(* The marker is best effort; armed is set and the teardown deferred.      *)
InstallMark(p) ==
  /\ pc[p] = "mark"
  /\ \/ marker' = TRUE /\ Works
     \/ UNCHANGED marker /\ Fails
  /\ armed' = [armed EXCEPT ![p] = TRUE]
  /\ Goto(p, "connected")
  /\ UNCHANGED <<os, kind, ret, revoked, holder, fw, chip, histVars>>

(* The heartbeat stops with the root context, which a signal cancels and a *)
(* revocation does not: that ends the shovel's context only.               *)
Beats(p) == pc[p] = "connected" \/ (revoked[p] /\ pc[p] \in Teardown)

(* startHeartbeat reports the value captured when the run was armed.       *)
Heartbeat(p) ==
  /\ Beats(p)
  /\ chip' = IF armed[p] THEN "armed" ELSE "unarmed"
  /\ UNCHANGED <<os, kind, pc, ret, armed, revoked, holder, fw, marker, failures, histVars>>

(* A clean end, by a signal, a failure to connect or a revocation: the     *)
(* deferred teardown exists only if arming succeeded.                      *)
Shutdown(p) ==
  /\ pc[p] = "connected"
  /\ ret' = [ret EXCEPT ![p] = "exited"]
  /\ \E why \in BOOLEAN : revoked' = [revoked EXCEPT ![p] = why]
  /\ IF armed[p] THEN Goto(p, "teardown") /\ UNCHANGED holder
                 ELSE Goto(p, "exited") /\ holder' = NoHolder
  /\ UNCHANGED <<os, kind, armed, fw, marker, chip, failures, histVars>>

(* The last step of a teardown, and of a recovery.                         *)
TeardownUnmark(p) ==
  /\ pc[p] = "unmark"
  /\ marker' = FALSE
  /\ Goto(p, ret[p])
  /\ holder' = IF ret[p] = "exited" /\ holder = p THEN NoHolder ELSE holder
  /\ UNCHANGED <<os, kind, ret, armed, revoked, fw, chip, failures, histVars>>

(* SIGKILL or power loss: nothing deferred runs, the firewall stays.       *)
Crash(p) ==
  /\ Alive(p)
  /\ Goto(p, "crashed")
  /\ holder' = IF holder = p THEN NoHolder ELSE holder
  /\ beaconless' = (beaconless \/ pc[p] \in {"verify", "mark"})
  /\ UNCHANGED <<os, kind, ret, armed, revoked, fw, marker, chip, failures, overlap>>

Invocation(p) == \/ Start(p) \/ Recover(p) \/ Dispatch(p) \/ Arm(p)
                 \/ InstallMark(p) \/ Heartbeat(p) \/ Shutdown(p)
                 \/ TeardownUnmark(p) \/ Crash(p)
=============================================================================
