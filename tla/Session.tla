------------------------------ MODULE Session ------------------------------
(***************************************************************************)
(* One user of the regionlock command line, one command after the other:   *)
(* the edits of desired state and of a preset, a feed that changes under   *)
(* them, apply and teardown.  Each command is one step here; module Cli    *)
(* interleaves the commands of several users, module Applier takes the     *)
(* privileged part of apply and teardown apart.                            *)
(***************************************************************************)
EXTENDS Plan

CONSTANT Commands   \* the sets of inputs that a command may carry

ASSUME CommandsAssumption == Commands \subseteq SUBSET (Codes \cup Regions)

VARIABLES desired,  \* the blocklist of the game in config.toml
          preset,   \* the blocklist saved under one preset name, or None
          feed,     \* the newest feed in the cache
          applied   \* the ruleset in the journal, or None

session == <<desired, preset, feed, applied>>

Init ==
  /\ desired = {} /\ preset = None
  /\ feed \in Feeds
  /\ applied = None

(* cmd_selectors: an unknown input fails the whole command. *)
Admitted(inputs) == \A i \in inputs : Known(i, feed)

BlockCmd(inputs) ==
  /\ Admitted(inputs)
  /\ desired' = Block(desired, Selected(inputs, feed)).blocked
  /\ UNCHANGED <<preset, feed, applied>>

UnblockCmd(inputs) ==
  /\ Admitted(inputs)
  /\ desired' = Unblock(desired, Selected(inputs, feed)).blocked
  /\ UNCHANGED <<preset, feed, applied>>

AllowCmd(inputs) ==
  /\ Admitted(inputs)
  /\ desired' = Allow(desired, Selected(inputs, feed), feed).blocked
  /\ UNCHANGED <<preset, feed, applied>>

ResetCmd ==
  /\ desired' = Reset(desired).blocked
  /\ UNCHANGED <<preset, feed, applied>>

PresetSave ==
  /\ preset' = desired
  /\ UNCHANGED <<desired, feed, applied>>

(* The saved blocklist as it is, whatever the feed has become. *)
PresetLoad ==
  /\ preset # None
  /\ desired' = preset
  /\ UNCHANGED <<preset, feed, applied>>

PresetRm ==
  /\ preset # None
  /\ preset' = None
  /\ UNCHANGED <<desired, feed, applied>>

(* A new revision reaches the cache. *)
FeedChanges ==
  /\ feed' \in Feeds
  /\ UNCHANGED <<desired, preset, applied>>

(* An apply that is not declined: nothing to do, or a new journal. *)
ApplyCmd ==
  LET target == Build(desired, feed)
  IN /\ IF IsEmptyDiff(Diff(target, applied)) THEN UNCHANGED applied
        ELSE applied' = target
     /\ UNCHANGED <<desired, preset, feed>>

TeardownCmd ==
  /\ applied' = None
  /\ UNCHANGED <<desired, preset, feed>>

Next ==
  \/ \E inputs \in Commands :
       BlockCmd(inputs) \/ UnblockCmd(inputs) \/ AllowCmd(inputs)
  \/ ResetCmd \/ PresetSave \/ PresetLoad \/ PresetRm
  \/ FeedChanges \/ ApplyCmd \/ TeardownCmd

Spec == Init /\ [][Next]_session

----------------------------------------------------------------------------
(* Properties.                                                             *)

(* In particular no ruleset has a POP without relays, which the applier    *)
(* would refuse (NoIps), and desired state never leaves the feed's codes.  *)
TypeOK ==
  /\ desired \in SUBSET Codes
  /\ preset \in (SUBSET Codes) \cup {None}
  /\ feed \in Feeds
  /\ applied \in Rulesets \cup {None}

(* The plan that is shown is the change that is made: carrying out the     *)
(* diff of any journal, of an older feed too, gives the ruleset that apply *)
(* submits, and "nothing to do" means that they are already equal.         *)
PlanIsTheChange ==
  LET target == Build(desired, feed)
      diff   == Diff(target, applied)
  IN /\ Patched(applied, diff, target) = target
     /\ IsEmptyDiff(diff) <=> target = (IF applied = None THEN NoPops
                                        ELSE applied)

(* After an allow, what an apply would block at that feed is every POP     *)
(* that can be blocked but the selected ones: none that was blocked before *)
(* stays, none that has no relays is promised.                             *)
AllowIsExclusive ==
  [][\A inputs \in Commands :
       AllowCmd(inputs) =>
         /\ DOMAIN Build(desired', feed) =
              Blockable(feed) \ Selected(inputs, feed)
         /\ Missing(desired', feed) = {}]_session

(* No edit stages a POP that the apply after it would silently leave out.  *)
EditsStayBlockable ==
  [][\A inputs \in Commands :
       BlockCmd(inputs) \/ UnblockCmd(inputs) \/ AllowCmd(inputs) =>
         Missing(desired', feed) \subseteq Missing(desired, feed)]_session
=============================================================================
