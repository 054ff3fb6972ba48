----------------------------- MODULE KillSwitch -----------------------------
(***************************************************************************)
(* The kill switch of the client on Linux and on Windows: the invocations  *)
(* of KillSwitchRuns with the firewall calls of their platform.            *)
(***************************************************************************)
EXTENDS KillSwitchLinux, KillSwitchWindows

Untouched == IF os = "linux" THEN NoChain ELSE NoGroup

Init ==
  /\ os \in Platforms
  /\ kind = [p \in Procs |-> "oneshot"]
  /\ pc = [p \in Procs |-> "new"]
  /\ ret = [p \in Procs |-> "dispatch"]
  /\ armed = [p \in Procs |-> FALSE]
  /\ revoked = [p \in Procs |-> FALSE]
  /\ holder = NoHolder
  /\ fw = Untouched
  /\ marker = FALSE
  /\ chip = "none"
  /\ failures = 0
  /\ overlap = FALSE /\ beaconless = FALSE

Next == \E p \in Procs : Invocation(p) \/ Linux(p) \/ Windows(p)

Spec == Init /\ [][Next]_vars

-----------------------------------------------------------------------------
(* Properties *)

PCs == Ended \union CarveoutKinds \union
       {"recover", "dispatch", "up", "install", "iF", "iA", "iD", "iI", "block", "verify",
        "mark", "connected", "teardown", "tF", "tX", "ungroup", "unmark"}

(* The variables keep their types; and whatever installs, recoveries and   *)
(* teardowns of whichever processes were cut short, they never stack: the  *)
(* chain has one rule at most ("Install-time FLUSH + REBUILD is            *)
(* idempotent"), and OUTPUT one jump more than calls have failed.          *)
TypeOK ==
  /\ os \in Platforms
  /\ kind \in [Procs -> {"run", "logout", "oneshot"}]
  /\ pc \in [Procs -> PCs]
  /\ ret \in [Procs -> {"dispatch", "exited"}]
  /\ armed \in [Procs -> BOOLEAN] /\ revoked \in [Procs -> BOOLEAN]
  /\ holder \in Procs \union {NoHolder}
  /\ fw \in IF os = "linux" THEN [chain : BOOLEAN, rules : 0..1, jumps : 0..failures + 1]
                            ELSE [default : {"allow", "block"}, allows : SUBSET CarveoutKinds]
  /\ marker \in BOOLEAN
  /\ chip \in {"none", "armed", "unarmed"}
  /\ failures \in 0..MaxFail
  /\ overlap \in BOOLEAN /\ beaconless \in BOOLEAN

Active   == IF os = "linux" THEN Protected ELSE Enforced
Filtered == IF os = "linux" THEN fw.jumps > 0 ELSE Blocking

(* "so the dashboard chip renders PROTECTED / UNPROTECTED honestly"        *)
(* (client/main.go:866): a connected run that reports armed has its rules  *)
(* in place.                                                               *)
HonestChip == \A p \in Procs : pc[p] = "connected" /\ armed[p] => Active

(* The report is honest as long as invocations do not overlap: whichever   *)
(* firewall call failed, or reported a success it did not have, and        *)
(* whatever an earlier crash left behind, armed is only claimed with the   *)
(* rules in place, those included that the tunnel itself needs.  But for   *)
(* one case: the heartbeat of a revoked run goes on, and still claims them *)
(* when its own teardown has begun to take them down.                      *)
HonestUnlessOverlap ==
  ~overlap => \A p \in Procs : Beats(p) /\ armed[p] => Active \/ pc[p] \in Undoing

(* A crash at any point but one (between the last firewall call and the    *)
(* marker) is recovered: past the startup recovery nothing filters the     *)
(* traffic any more and no marker is left.                                 *)
CrashRecovered ==
  ~overlap /\ failures = 0 /\ ~beaconless =>
    \A p \in Procs : pc[p] \in {"dispatch", "up"} => ~Filtered /\ ~marker

(* "no instant during teardown where the student is fully locked out", nor *)
(* during an install, nor after a crash that left the marker: where no     *)
(* call fails, the outbound default blocks only with every allow rule set. *)
(* (A crash before the marker leaves Block behind, and the next install    *)
(* then clears the rules under it.)                                        *)
NeverLockedOut ==
  os = "windows" /\ ~overlap /\ failures = 0 /\ ~beaconless => ~LockedOut

(* A clean shutdown, a recovery or a logout leaves nothing behind, also    *)
(* after an install on top of what a crash has left ("delete first so we   *)
(* don't stack duplicates on re-install").                                 *)
TeardownIsComplete ==
  [][\A p \in Procs :
       pc[p] = "unmark" /\ pc'[p] # "crashed" /\ pc'[p] # "unmark" /\ failures = 0 /\ ~overlap
         => fw' = Untouched /\ ~marker']_vars
=============================================================================
