------------------------- MODULE KillSwitchWindows -------------------------
(***************************************************************************)
(* Installing and tearing down on Windows (client/killswitch_windows.go):  *)
(* rules that allow what the user still needs, and the outbound default    *)
(* set to Block.  Each PowerShell call is a step and may fail.             *)
(*                                                                         *)
(* fw: the outbound default, and the kinds of allow rule in the group      *)
(* ArenaKillSwitch, which are added in this order.                         *)
(***************************************************************************)
EXTENDS KillSwitchRuns

Carveouts == <<"tunnel", "loopback", "scenario", "lan", "arena">>
CarveoutKinds == {Carveouts[i] : i \in 1..Len(Carveouts)}

NoGroup   == [default |-> "allow", allows |-> {}]
Blocking  == fw.default = "block"
Enforced  == Blocking /\ {"tunnel", "loopback", "scenario"} \subseteq fw.allows
LockedOut == Blocking /\ fw.allows # CarveoutKinds

(* p runs one call: it changes the firewall and goes on at ok, or fails    *)
(* and goes on at err.                                                     *)
ps(p, here, change, ok, err) ==
  /\ Calling(p, here) /\ os = "windows"
  /\ \/ fw' = change /\ Goto(p, ok) /\ Works
     \/ UNCHANGED fw /\ Goto(p, err) /\ Fails

Default(action) == [fw EXCEPT !.default = action]

-----------------------------------------------------------------------------
(* installKillSwitch *)

(* Mutant: the default is set before the rules that soften it.             *)
ClearBlocking(p) == ps(p, "install", [default |-> "block", allows |-> {}], Carveouts[1], Carveouts[1])

(* Leftover rules of the group go; an error is ignored.                    *)
Clear(p) == ps(p, "install", [fw EXCEPT !.allows = {}], Carveouts[1], Carveouts[1])

(* One rule per carve-out.  LAN and control-plane addresses were looked up *)
(* before, best effort: a lookup that failed leaves none to add.           *)
Allow(p) == \E i \in 1..Len(Carveouts) :
  LET next == IF i = Len(Carveouts) THEN "block" ELSE Carveouts[i + 1] IN
    \/ ps(p, Carveouts[i], [fw EXCEPT !.allows = @ \union {Carveouts[i]}], next, "connected")
    \/ /\ Carveouts[i] \in {"lan", "arena"}
       /\ Calling(p, Carveouts[i]) /\ os = "windows"
       /\ Goto(p, next) /\ UNCHANGED fw /\ Fails

(* The flip may also report success without having had an effect.          *)
Block(p) ==
  \/ ps(p, "block", Default("block"), "verify", "connected")
  \/ ps(p, "block", fw, "verify", "verify")

(* Mutant: the default is not read back.                                   *)
VerifySkipped(p) == os = "windows" /\ Pass(p, "verify", "mark")

(* Only a default that reads Block goes on to the marker.                  *)
Verify(p) == ps(p, "verify", fw, IF Blocking THEN "mark" ELSE "connected", "connected")

-----------------------------------------------------------------------------
(* teardownKillSwitch: the default first, then the rules; errors are       *)
(* ignored.                                                                *)

Unblock(p) == ps(p, "teardown", Default("allow"), "ungroup", "ungroup")
Ungroup(p) == ps(p, "ungroup", [fw EXCEPT !.allows = {}], "unmark", "unmark")

Windows(p) == \/ Clear(p) \/ Allow(p) \/ Block(p) \/ Verify(p)
              \/ Unblock(p) \/ Ungroup(p)
=============================================================================
