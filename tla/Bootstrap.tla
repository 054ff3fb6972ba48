----------------------------- MODULE Bootstrap -----------------------------
(***************************************************************************)
(* The config file and the invocations that use it (client/config.go,      *)
(* runDefault, runLogout and pingC2State of client/main.go, and the end of *)
(* PairAndPersist): load, pair, save, preflight, wipe, connect.            *)
(*                                                                         *)
(* A process may die between any two system calls.  Runs exclude each      *)
(* other by the PID lock (PidLock has its races); a logout takes no lock.  *)
(* A config is the peer it identifies, numbered as the control plane       *)
(* issues them.                                                            *)
(***************************************************************************)
EXTENDS Naturals, FiniteSets

CONSTANTS Procs,    \* the invocations of the binary
          NoHolder, \* no process holds the PID lock
          MaxPeers, \* bound: pairings the control plane issues
          Stored,   \* those that may be in the file beforehand
          Legacy,   \* those whose config has no revocation token
          Homeless, \* those whose config has no control-plane URL
          Partial,  \* those whose config is not Complete
          MaxFail   \* bound: file operations that fail by chance

Peers  == 1..MaxPeers
Absent == 0
Junk   == MaxPeers + 1  \* empty, half written or zeroed: LoadConfig rejects it

ASSUME BootstrapAssumption ==
  /\ NoHolder \notin Procs /\ MaxPeers \in Nat /\ MaxFail \in Nat
  /\ Stored \union Legacy \union Homeless \union Partial \subseteq Peers

VARIABLES
  kind,      \* kind[p]: "run", "pair", "token", "flags" or "logout"; or "none"
  pc,        \* pc[p]: where p stands
  mem,       \* mem[p]: the config in memory, 0 for none
  ret,       \* ret[p]: where a run goes on after SaveConfig
  holder,    \* the live process that holds the PID lock
  file, tmp, \* config.json and config.json.tmp
  unit,      \* the systemd unit of install.sh exists
  issued,    \* how many peers the control plane has issued
  status,    \* status[q]: "none", "active", "revoked" or "unknown" (deleted)
  claimed,   \* the last peer whose credentials have reached the client
  failures,  \* history: operations that failed by chance
  unsaved,   \* history: a SaveConfig has returned an error
  lost,      \* history: a process died between a claim and its rename
  asked,     \* history: a logout has started to remove a config
  overlap    \* history: two invocations have been alive at once

procVars == <<kind, mem, ret, holder>>
diskVars == <<file, tmp, unit>>
srvVars  == <<issued, status, claimed>>
histVars == <<unsaved, lost, asked, overlap>>
vars == <<pc, procVars, diskVars, srvVars, failures, histVars>>

Kinds == {"run", "pair", "token", "flags", "logout"}
Ended == {"new", "exited", "failed", "crashed"}
Alive(p) == pc[p] \notin Ended
Saving   == {"removeTmp", "createTmp", "writeTmp", "rename"}

(* Mutant: whatever parses is a config.                                    *)
LoadedRaw == file

(* What LoadConfig returns: nil for a missing and for a corrupt file.      *)
Loaded == IF file \in Peers THEN file ELSE 0

Init ==
  /\ kind = [p \in Procs |-> "none"]
  /\ pc = [p \in Procs |-> "new"]
  /\ mem = [p \in Procs |-> 0]
  /\ ret = [p \in Procs |-> "ping"]
  /\ holder = NoHolder
  /\ file \in {Absent, Junk} \union Stored /\ tmp = Absent
  /\ unit = TRUE
  /\ issued = IF file \in Peers THEN file ELSE 0
  /\ status = [q \in Peers |-> IF q <= issued THEN "active" ELSE "none"]
  /\ claimed = issued
  /\ failures = 0
  /\ unsaved = FALSE /\ lost = FALSE /\ asked = FALSE /\ overlap = FALSE

Goto(p, from, to) == pc[p] = from /\ pc' = [pc EXCEPT ![p] = to]

(* p goes on and leaves its own variables alone.                           *)
Step(p, from, to) == Goto(p, from, to) /\ UNCHANGED procVars

(* p ends: its memory is gone and the lock, if it holds it, is free.       *)
End(p, from, how) ==
  /\ Goto(p, from, how)
  /\ kind' = [kind EXCEPT ![p] = "none"]
  /\ mem' = [mem EXCEPT ![p] = 0]
  /\ ret' = [ret EXCEPT ![p] = "ping"]
  /\ holder' = IF holder = p THEN NoHolder ELSE holder

Fails == failures < MaxFail /\ failures' = failures + 1
Works == UNCHANGED failures

-----------------------------------------------------------------------------
(* A start: runs need the lock before they look at anything else.          *)
Start(p) ==
  /\ pc[p] = "new"
  /\ \E k \in Kinds :
       /\ kind' = [kind EXCEPT ![p] = k]
       /\ k # "logout" => holder = NoHolder
       /\ holder' = IF k = "logout" THEN holder ELSE p
       /\ Goto(p, "new", CASE k = "logout" -> "logout"
                           [] k = "flags"  -> "connect"
                           [] k = "token"  -> "claim"
                           [] OTHER        -> "load")
  /\ overlap' = (overlap \/ \E q \in Procs : Alive(q))
  /\ UNCHANGED <<mem, ret, diskVars, srvVars, failures, unsaved, lost, asked>>

-----------------------------------------------------------------------------
(* runDefault *)

LoadConfig(p) ==
  /\ \/ End(p, "load", "failed") /\ Fails
     \/ /\ Goto(p, "load",
                IF kind[p] = "pair" \/ Loaded \in {0} \union Partial
                THEN "claim" ELSE "ping")
        /\ mem' = [mem EXCEPT ![p] = Loaded]
        /\ UNCHANGED <<kind, ret, holder>> /\ Works
  /\ UNCHANGED <<diskVars, srvVars, histVars>>

(* The control plane issues a peer, once.                                  *)
Issue ==
  /\ issued < MaxPeers
  /\ issued' = issued + 1
  /\ status' = [status EXCEPT ![issued'] = "active"]

(* claimByToken, or PairAndPersist up to the answer of its last poll.      *)
Claim(p) ==
  /\ Issue /\ claimed' = issued'
  /\ Goto(p, "claim", "removeTmp")
  /\ mem' = [mem EXCEPT ![p] = issued']
  /\ ret' = [ret EXCEPT ![p] = IF kind[p] = "token" THEN "connect" ELSE @]
  /\ UNCHANGED <<kind, holder, diskVars, failures, histVars>>

(* No peer, or one that is issued in vain: the answer does not decode, or  *)
(* the timeout, a signal or the death of the process is faster.            *)
ClaimFails(p) ==
  /\ End(p, "claim", "failed")
  /\ \/ UNCHANGED srvVars
     \/ Issue /\ UNCHANGED claimed
  /\ UNCHANGED <<diskVars, failures, histVars>>

(* Mutant: a 401 alone is taken for a revocation.                          *)
VerdictsHasty(q) ==
  {"error", IF status[q] = "revoked" THEN "revoked" ELSE "kept", "revoked"}

(* pingC2State.  Without a token only "revoked" counts.  With one, an      *)
(* answer says the same, and a 401 (the token was rotated, or the peer is  *)
(* gone) asks fetchPeerStatus, where "unknown" counts as well; if that     *)
(* request fails the peer is kept.                                         *)
Verdicts(q) ==
  {"error", IF status[q] = "revoked" THEN "revoked" ELSE "kept"} \union
  (IF q \in Legacy THEN {}
   ELSE {"kept", IF status[q] = "active" THEN "kept" ELSE "revoked"})

(* The preflight; a config without a URL skips it.                         *)
pingC2State(p) ==
  /\ \/ /\ Step(p, "ping", "connect")
        /\ mem[p] \in Homeless \/ Verdicts(mem[p]) # {"revoked"}
     \/ /\ Goto(p, "ping", "stat")
        /\ mem[p] \notin Homeless /\ "revoked" \in Verdicts(mem[p])
        /\ ret' = [ret EXCEPT ![p] = "connect"]
        /\ UNCHANGED <<kind, mem, holder>>
  /\ UNCHANGED <<diskVars, srvVars, failures, histVars>>

(* runConnect returns: a signal, a revocation seen by the poll, an error.  *)
Disconnect(p) ==
  /\ End(p, "connect", "exited")
  /\ UNCHANGED <<diskVars, srvVars, failures, histVars>>

-----------------------------------------------------------------------------
(* SaveConfig.  A write that fails (sync and close included) removes the   *)
(* temporary file again; every error is only a warning to the caller.      *)

SaveEnds(p, from, ok) ==
  /\ Step(p, from, ret[p])
  /\ unsaved' = (unsaved \/ ~ok)
  /\ UNCHANGED <<lost, asked, overlap>>

SaveGoesOn(p, from, to) == Step(p, from, to) /\ UNCHANGED histVars

(* Mutant: a stale temporary file is not removed.                          *)
RemoveTmpSkipped(p) ==
  /\ SaveGoesOn(p, "removeTmp", "createTmp")
  /\ UNCHANGED <<diskVars, srvVars, failures>>

RemoveTmp(p) ==
  /\ SaveGoesOn(p, "removeTmp", "createTmp")
  /\ \/ tmp' = Absent /\ Works
     \/ tmp # Absent /\ Fails /\ UNCHANGED tmp
  /\ UNCHANGED <<file, unit, srvVars>>

(* MkdirAll, then O_CREATE with O_EXCL.                                    *)
CreateTmp(p) ==
  /\ \/ tmp = Absent /\ tmp' = Junk /\ Works /\ SaveGoesOn(p, "createTmp", "writeTmp")
     \/ /\ (tmp # Absent /\ Works) \/ Fails
        /\ UNCHANGED tmp /\ SaveEnds(p, "createTmp", FALSE)
  /\ UNCHANGED <<file, unit, srvVars>>

(* Mutant: the config is written in place.                                 *)
WriteTmpInPlace(p) ==
  /\ file' = Junk /\ tmp' = mem[p] /\ Works /\ SaveGoesOn(p, "writeTmp", "rename")
  /\ UNCHANGED <<unit, srvVars>>

WriteTmp(p) ==
  /\ \/ tmp' = mem[p] /\ Works /\ SaveGoesOn(p, "writeTmp", "rename")
     \/ tmp' = Absent /\ Fails /\ SaveEnds(p, "writeTmp", FALSE)
  /\ UNCHANGED <<file, unit, srvVars>>

Rename(p) ==
  /\ tmp' = Absent
  /\ \/ file' = tmp /\ Works /\ SaveEnds(p, "rename", TRUE)
     \/ UNCHANGED file /\ Fails /\ SaveEnds(p, "rename", FALSE)
  /\ UNCHANGED <<unit, srvVars>>

SaveConfig(p) == RemoveTmp(p) \/ CreateTmp(p) \/ WriteTmp(p) \/ Rename(p)

-----------------------------------------------------------------------------
(* WipeConfig, from the preflight (which ignores its error and pairs       *)
(* again) or from a logout.                                                *)

(* Mutant: a logout is done when the config is gone.                       *)
WipeEndsEarly(p, from, ok) ==
  IF kind[p] # "logout" THEN Step(p, from, "claim") ELSE End(p, from, "exited")

WipeEnds(p, from, ok) ==
  IF kind[p] # "logout" THEN Step(p, from, "claim")
  ELSE IF ok THEN Step(p, from, "leftovers")
  ELSE End(p, from, "failed")

Stat(p) ==
  /\ \/ file = Absent /\ Works /\ WipeEnds(p, "stat", TRUE)
     \/ file # Absent /\ Works /\ Step(p, "stat", "zero")
     \/ Fails /\ WipeEnds(p, "stat", FALSE)
  /\ UNCHANGED <<diskVars, srvVars, histVars>>

(* Open without O_CREATE and overwrite; an error is ignored.               *)
Zero(p) ==
  /\ Step(p, "zero", "unlink")
  /\ \/ file' = (IF file = Absent THEN Absent ELSE Junk) /\ Works
     \/ Fails /\ UNCHANGED file
  /\ UNCHANGED <<tmp, unit, srvVars, histVars>>

(* os.Remove: a file that somebody else has removed is an error.           *)
Unlink(p) ==
  /\ \/ file # Absent /\ file' = Absent /\ Works /\ WipeEnds(p, "unlink", TRUE)
     \/ /\ (file = Absent /\ Works) \/ Fails
        /\ UNCHANGED file /\ WipeEnds(p, "unlink", FALSE)
  /\ UNCHANGED <<tmp, unit, srvVars, histVars>>

WipeConfig(p) == Stat(p) \/ Zero(p) \/ Unlink(p)

-----------------------------------------------------------------------------
(* runLogout *)

(* No config to remove, which is also the answer to a failed read.         *)
LogoutLoad(p) ==
  /\ \/ /\ (Loaded = 0 /\ Works) \/ Fails
        /\ End(p, "logout", "exited") /\ UNCHANGED asked
     \/ /\ Loaded # 0 /\ Works
        /\ Goto(p, "logout", "revoke")
        /\ mem' = [mem EXCEPT ![p] = Loaded]
        /\ asked' = TRUE
        /\ UNCHANGED <<kind, ret, holder>>
  /\ UNCHANGED <<diskVars, srvVars, unsaved, lost, overlap>>

(* bestEffortRevoke; an error and -keep-server leave the peer as it is.    *)
bestEffortRevoke(p) ==
  /\ Step(p, "revoke", "stat")
  /\ \/ UNCHANGED status
     \/ /\ status[mem[p]] = "active"
        /\ status' = [status EXCEPT ![mem[p]] = "revoked"]
  /\ UNCHANGED <<issued, claimed, diskVars, failures, histVars>>

(* teardownInstallLeftovers (the firewall is in KillSwitch).               *)
Leftovers(p) ==
  /\ End(p, "leftovers", "exited")
  /\ (unit' = FALSE /\ Works) \/ (Fails /\ UNCHANGED unit)
  /\ UNCHANGED <<file, tmp, srvVars, histVars>>

-----------------------------------------------------------------------------
(* SIGKILL or power loss.                                                  *)
Crash(p) ==
  /\ Alive(p) /\ End(p, pc[p], "crashed")
  /\ lost' = (lost \/ pc[p] \in Saving)
  /\ UNCHANGED <<diskVars, srvVars, failures, unsaved, asked, overlap>>

(* An admin, or a pairing on another machine, revokes or deletes a peer.   *)
Withdraw(q) ==
  /\ \/ status[q] = "active" /\ status' = [status EXCEPT ![q] = "revoked"]
     \/ /\ status[q] \in {"active", "revoked"}
        /\ status' = [status EXCEPT ![q] = "unknown"]
  /\ UNCHANGED <<pc, procVars, diskVars, issued, claimed, failures, histVars>>

runDefault(p) == \/ LoadConfig(p) \/ Claim(p) \/ ClaimFails(p) \/ pingC2State(p)
                 \/ Disconnect(p)
runLogout(p)  == LogoutLoad(p) \/ bestEffortRevoke(p) \/ Leftovers(p)

Next == \/ \E p \in Procs : \/ Start(p) \/ runDefault(p) \/ runLogout(p)
                            \/ SaveConfig(p) \/ WipeConfig(p) \/ Crash(p)
        \/ \E q \in Peers : Withdraw(q)

Spec == Init /\ [][Next]_vars

-----------------------------------------------------------------------------
(* Properties *)

PCs == Ended \union Saving \union
       {"load", "claim", "ping", "connect", "stat", "zero", "unlink",
        "logout", "revoke", "leftovers"}

(* The variables keep their types; config.json is only ever a whole config *)
(* of an issued peer, or zeroed.                                           *)
TypeOK ==
  /\ kind \in [Procs -> Kinds \union {"none"}]
  /\ pc \in [Procs -> PCs]
  /\ mem \in [Procs -> Peers \union {0}]
  /\ ret \in [Procs -> {"ping", "connect"}]
  /\ holder \in Procs \union {NoHolder}
  /\ file \in {Absent, Junk} \union 1..issued
  /\ tmp \in {Absent, Junk} \union 1..issued
  /\ unit \in BOOLEAN /\ issued \in 0..MaxPeers /\ claimed \in 0..issued
  /\ status \in [Peers -> {"none", "active", "revoked", "unknown"}]
  /\ failures \in 0..MaxFail
  /\ {unsaved, lost, asked, overlap} \subseteq BOOLEAN

(* A claim is answered once, and an answer the client cannot read is gone. *)
(* The credentials it has read last are in the config file or with a live  *)
(* process while the peer is active, unless that process died before the   *)
(* rename, the disk refused them, or a logout was asked for: no preflight  *)
(* takes them away, and no later claim that comes to nothing.              *)
ClaimNotLost ==
  claimed > 0 /\ status[claimed] = "active" /\ ~lost /\ ~unsaved /\ ~asked =>
    file = claimed \/ \E p \in Procs : Alive(p) /\ mem[p] = claimed

(* What crashes have left behind never makes a save fail.                  *)
SaveSucceeds == unsaved => failures > 0

(* A logout that had the machine to itself succeeds, and no credentials    *)
(* and no unit are left, except in the temporary file of a crashed save.   *)
LogoutIsComplete ==
  [][\A p \in Procs :
       kind[p] = "logout" /\ pc[p] \in {"stat", "unlink", "leftovers"} /\
       pc'[p] \in {"exited", "failed"} /\ ~overlap /\ failures' = 0 =>
         /\ pc'[p] = "exited" /\ file' = Absent /\ ~unit'
         /\ tmp' = Absent \/ lost]_vars

(* No crash, failure or interleaving of load, pair, save, preflight and    *)
(* logout shows a start anything but a stored pairing or none, and only a  *)
(* logout or the end of the peer makes the client forget it: Bootstrap     *)
(* implements ConfigCell.                                                  *)
Cell == INSTANCE ConfigCell WITH
  cell  <- Loaded,
  asked <- \E p \in Procs :
             kind[p] = "logout" /\ pc[p] \in {"revoke", "stat", "zero", "unlink"}

StoredPairing == Cell!Spec
=============================================================================
