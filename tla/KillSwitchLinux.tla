-------------------------- MODULE KillSwitchLinux --------------------------
(***************************************************************************)
(* Installing and tearing down on Linux (client/killswitch_linux.go): a    *)
(* chain with one DROP rule, and a jump to it at the top of OUTPUT.  Each  *)
(* iptables call is a step of its own and may fail (without -w it fails    *)
(* whenever another program holds the xtables lock).                       *)
(*                                                                         *)
(* fw: the chain ARENA_KILLSWITCH exists; the DROP rules in it; the rules  *)
(* of OUTPUT that jump to it.                                              *)
(***************************************************************************)
EXTENDS KillSwitchRuns

Protected == fw.chain /\ fw.rules > 0 /\ fw.jumps > 0
NoChain   == [chain |-> FALSE, rules |-> 0, jumps |-> 0]

(* When a call succeeds, and what it changes.                              *)
Applies(cmd) ==
  \/ cmd = "-N" /\ ~fw.chain
  \/ cmd \in {"-F", "-A", "-I"} /\ fw.chain
  \/ cmd = "-D" /\ fw.jumps > 0
  \/ cmd = "-X" /\ fw.chain /\ fw.rules = 0 /\ fw.jumps = 0

iptables(cmd) == fw' =
  [chain |-> cmd # "-X" /\ (fw.chain \/ cmd = "-N"),
   rules |-> IF cmd = "-F" THEN 0 ELSE IF cmd = "-A" THEN fw.rules + 1 ELSE fw.rules,
   jumps |-> CASE cmd = "-I" -> fw.jumps + 1
               [] cmd = "-D" -> fw.jumps - 1
               [] OTHER      -> fw.jumps]

(* p runs one call: it goes on at ok, or at err when the call fails.       *)
Call(p, here, cmd, ok, err) ==
  /\ Calling(p, here) /\ os = "linux"
  /\ \/ Applies(cmd) /\ iptables(cmd) /\ Goto(p, ok) /\ Works
     \/ ~Applies(cmd) /\ Goto(p, err) /\ UNCHANGED fw /\ Works
     \/ Applies(cmd) /\ Goto(p, err) /\ UNCHANGED fw /\ Fails

-----------------------------------------------------------------------------
(* installKillSwitch *)

InstallNew(p)   == Call(p, "install", "-N", "iF", "iF")

(* Mutant: an existing chain is not flushed before it is built again.      *)
InstallFlushSkipped(p) == Pass(p, "iF", "iA")

InstallFlush(p) == Call(p, "iF", "-F", "iA", "connected")
InstallRule(p)  == Call(p, "iA", "-A", "iD", "connected")

(* Mutant: the chain is spliced without deleting an old jump first.        *)
InstallUnspliceSkipped(p) == Pass(p, "iD", "iI")

InstallUnsplice(p) == Call(p, "iD", "-D", "iI", "iI")

InstallSplice(p) == Call(p, "iI", "-I", "mark", "connected")

-----------------------------------------------------------------------------
(* teardownKillSwitch: errors are ignored. *)

TeardownUnsplice(p) == Call(p, "teardown", "-D", "tF", "tF")

TeardownFlush(p) == Call(p, "tF", "-F", "tX", "tX")

TeardownDelete(p) == Call(p, "tX", "-X", "unmark", "unmark")

Linux(p) == \/ InstallNew(p) \/ InstallFlush(p) \/ InstallRule(p)
            \/ InstallUnsplice(p) \/ InstallSplice(p)
            \/ TeardownUnsplice(p) \/ TeardownFlush(p) \/ TeardownDelete(p)
=============================================================================
