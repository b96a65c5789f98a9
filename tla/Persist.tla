------------------------------ MODULE Persist ------------------------------
(***************************************************************************)
(* The boot snapshot: EnablePersist and DisablePersist of regionlock-apply *)
(* on /etc/regionlock and regionlock.service.  One action is one rename,   *)
(* write, removal or systemctl call; an applier may be killed between any  *)
(* two.  The flock of module Applier admits one operation at a time, so    *)
(* there is one applier here.                                              *)
(*                                                                         *)
(* A file is named by a number: 0 is config.toml and r > 0 the feed file   *)
(* of revision r, of the one game that is persisted.  Its content is the   *)
(* snapshot that wrote it.  The applier trusts neither Foreign, a regular  *)
(* file of another owner, nor Link, a symbolic link; the boot unit passes  *)
(* over a link among the feeds, but reads another owner's file.            *)
(***************************************************************************)
EXTENDS Naturals

CONSTANTS Snaps,     \* snapshots an EnablePersist may carry
          Revision,  \* Revision[s]: the feed revision of s, in its file name
          None,      \* no file, no snapshot
          Foreign,   \* content of another owner's file
          Link,      \* content of a symbolic link
          Strange,   \* the untrusted entries that may be there at first
          Hazards    \* what the environment may do in this instance

(* rename, unlink, write: the call fails.  detect: `systemctl show` fails. *)
(* absent: this applier cannot start systemctl, as it is not on its PATH.  *)
(* misread: systemctl runs and fails in words that mean a missing unit.    *)
(* systemctl: enable or disable fails, with or without effect.             *)
(* undetermined: is-enabled prints neither state.  undo: a call of the     *)
(* rollback fails.  kill: the applier dies.                                *)
HazardKinds == {"rename", "unlink", "write", "detect", "systemctl",
                "undetermined", "undo", "kill", "absent", "misread"}

Config == 0
Feeds  == {Revision[s] : s \in Snaps}
Names  == {Config} \cup Feeds
Aliens == [Names -> {None, Foreign, Link}]

ASSUME ConstantsAssumption ==
  /\ Revision \in [Snaps -> Nat \ {0}]
  /\ None \notin Snaps /\ Foreign \notin Snaps /\ Link \notin Snaps
  /\ None # Foreign /\ None # Link /\ Foreign # Link
  /\ Strange \subseteq [file : Aliens, bak : Aliens]
  /\ Hazards \subseteq HazardKinds

VARIABLES
  file,     \* file[n]: the canonical entry n, who wrote it
  bak,      \* bak[n]: its .bak
  managed,  \* the unit lives in /nix/store
  enabled,  \* somebody but NixOS has enabled the unit
  pc,       \* the next step of the applier, "idle" when there is none
  arg,      \* the snapshot to install
  todo,     \* canonical names the current loop has still to visit
  backed,   \* .bak names this run made, or has still to visit
  written,  \* fresh files of this run
  here,     \* systemctl can be started, as far as detection got, and the
            \* disable did not read as that of a missing unit
  nixos,    \* managed_by_nixos: what detection said of managed
  prior,    \* captured enable state: "on", "off", or "unknown"
  ran,      \* `systemctl enable` was called
  failed,   \* a call of the recovery, the rollback or the removal failed
  before,   \* history: the entries and the unit before the operation, None
            \* outside of one
  kept,     \* history: a snapshot was persisted and no disable asked for
  intact    \* history: nothing went wrong that nobody undid, see Exit

unit   == <<managed, enabled>>
probe  == <<here, nixos, prior>>
locals == <<arg, todo, backed, written, here, nixos, prior, ran, failed>>
past   == <<before, kept, intact>>
vars   == <<file, bak, managed, enabled, pc, arg, todo, backed, written,
            here, nixos, prior, ran, failed, before, kept, intact>>

Contents == Snaps \cup {Foreign, Link, None}
Dirs     == [Names -> Contents]
EnableSteps  == {"recover", "detect", "backup", "config", "feed", "enable",
                 "drop"}
UndoSteps    == {"undo", "restore", "compensate"}
DisableSteps == {"ddetect", "disable", "sweep"}
Replies      == {"persisted", "unpersisted", "refused"}
Steps == EnableSteps \cup UndoSteps \cup DisableSteps \cup Replies

Can(hazard) == hazard \in Hazards

Idle ==
  /\ pc = "idle" /\ arg = None
  /\ todo = {} /\ backed = {} /\ written = {}
  /\ here = TRUE /\ nixos = FALSE /\ prior = "unknown"
  /\ ran = FALSE /\ failed = FALSE
  /\ before = None

Init ==
  /\ \E found \in Strange : file = found.file /\ bak = found.bak
  /\ managed \in BOOLEAN /\ enabled = FALSE
  /\ Idle
  /\ kept = FALSE /\ intact = TRUE

----------------------------------------------------------------------------
(* What the steps share.                                                   *)

(* is_trusted_snapshot_entry: a regular file of root. *)
Trusted(content) == content \in Snaps

TrustedIn(dir) == {n \in Names : Trusted(dir[n])}

Goto(step) == pc' = step

(* Exactly these names lose their entry, or take a new one. *)
Without(dir, n) == [dir EXCEPT ![n] = None]
With(dir, n, content) == [dir EXCEPT ![n] = content]

(* The process ends; what it knew is gone. *)
Vanish ==
  /\ pc' = "idle" /\ arg' = None
  /\ todo' = {} /\ backed' = {} /\ written' = {}
  /\ here' = TRUE /\ nixos' = FALSE /\ prior' = "unknown"
  /\ ran' = FALSE /\ failed' = FALSE
  /\ before' = None

(* An enable failed on a unit in an unknown state, or on one of NixOS:     *)
(* nobody disables it. *)
Undetermined == ran /\ here /\ (managed \/ prior = "unknown")

(* The reply is printed.  A Persisted without leftovers makes up for all   *)
(* that went wrong before, and so does an Unpersisted, but for a unit that *)
(* stays enabled because disabling it was skipped.  A failed               *)
(* rollback or removal is not made up for, nor is an enable that failed on *)
(* a unit in an unknown state.                                             *)
Exit ==
  /\ pc \in Replies
  /\ Vanish
  /\ intact' = CASE pc = "persisted"   -> TrustedIn(bak) = {}
                 [] pc = "unpersisted" -> ~enabled
                 [] pc = "refused"     -> intact /\ ~failed /\ ~Undetermined
  /\ UNCHANGED <<file, bak, unit, kept>>

Kill ==
  /\ Can("kill")
  /\ pc \in Steps
  /\ Vanish
  /\ intact' = FALSE
  /\ UNCHANGED <<file, bak, unit, kept>>

----------------------------------------------------------------------------
(* EnablePersist, up to the commit.                                        *)

Enable(s) ==
  /\ pc = "idle"
  /\ arg' = s
  /\ backed' = TrustedIn(bak)
  /\ Goto("recover")
  /\ UNCHANGED <<file, bak, unit, todo, written, probe, ran, failed, past>>

(* Mutated form of RecoverOne: every trusted .bak is taken for stale. *)
RecoverDropsAll ==
  /\ pc = "recover"
  /\ \E n \in backed : bak' = Without(bak, n) /\ backed' = backed \ {n}
  /\ UNCHANGED <<file, unit, pc, arg, todo, written, probe, ran, failed, past>>

(* recover_snapshot_backups_in: one .bak, in directory order. *)
RecoverOne ==
  /\ pc = "recover"
  /\ \E n \in backed :
       \/ /\ file[n] # None
          /\ bak' = Without(bak, n)
          /\ backed' = backed \ {n}
          /\ UNCHANGED <<file, pc, failed>>
       \/ /\ file[n] = None
          /\ file' = With(file, n, bak[n])
          /\ bak' = Without(bak, n)
          /\ backed' = backed \ {n}
          /\ UNCHANGED <<pc, failed>>
       \/ /\ IF file[n] # None THEN Can("unlink") ELSE Can("rename")
          /\ failed' = TRUE
          /\ Goto("refused")
          /\ UNCHANGED <<file, bak, backed>>
  /\ UNCHANGED <<unit, arg, todo, written, probe, ran, past>>

Recovered ==
  /\ pc = "recover" /\ backed = {}
  /\ Goto("detect")
  /\ UNCHANGED <<file, bak, unit, locals, past>>

(* Mutated form of PriorStates: "enabled-runtime" is taken as it is. *)
PriorStatesRaw(detected) ==
  {IF detected THEN "unknown" ELSE "enabled-runtime"}

(* What `systemctl is-enabled` tells; nobody asks if NixOS was detected,   *)
(* whose own unit is always on. *)
PriorStates(detected) ==
  IF detected THEN {"unknown"}
  ELSE {IF managed \/ enabled THEN "on" ELSE "off"}
         \cup (IF Can("undetermined") THEN {"unknown"} ELSE {})

(* unit_managed_by_nixos, and is_missing_unit where that fails: the unit   *)
(* of NixOS may be taken for one that is not there, which nobody manages. *)
Verdicts == {managed} \cup (IF Can("misread") THEN {FALSE} ELSE {})

(* Whose unit it is, its state, and the entries to back up.  A missing     *)
(* systemctl is taken for a missing unit as well.                          *)
Detect ==
  /\ pc = "detect"
  /\ before' = [file |-> file, enabled |-> enabled]
  /\ \/ /\ \/ /\ nixos' \in Verdicts
              /\ prior' \in PriorStates(nixos')
              /\ UNCHANGED here
           \/ /\ Can("absent")
              /\ here' = FALSE /\ nixos' = FALSE /\ prior' = "unknown"
        /\ todo' = TrustedIn(file)
        /\ Goto("backup")
     \/ /\ Can("detect")
        /\ Goto("refused")
        /\ UNCHANGED <<probe, todo>>
  /\ UNCHANGED <<file, bak, unit, arg, backed, written, ran, failed, kept,
                 intact>>

(* Mutated form of BackUpOne: the old feed file stays where it is. *)
BackUpConfigOnly ==
  /\ pc = "backup"
  /\ \E n \in todo :
       /\ todo' = {}
       /\ bak' = With(bak, Config, file[Config])
       /\ file' = Without(file, Config)
       /\ backed' = {Config}
  /\ UNCHANGED <<unit, pc, arg, written, probe, ran, failed, past>>

BackUpOne ==
  /\ pc = "backup"
  /\ \E n \in todo :
       \/ /\ bak' = With(bak, n, file[n])
          /\ file' = Without(file, n)
          /\ backed' = backed \cup {n}
          /\ todo' = todo \ {n}
          /\ UNCHANGED pc
       \/ /\ Can("rename")
          /\ Goto("undo")
          /\ UNCHANGED <<file, bak, backed, todo>>
  /\ UNCHANGED <<unit, arg, written, probe, ran, failed, past>>

BackedUp ==
  /\ pc = "backup" /\ todo = {}
  /\ Goto("config")
  /\ UNCHANGED <<file, bak, unit, locals, past>>

(* write_file_0644: whole or not at all, over whatever is at the name. *)
Write(step, n, next) ==
  /\ pc = step
  /\ \/ /\ file' = With(file, n, arg)
        /\ written' = written \cup {n}
        /\ Goto(next)
     \/ /\ Can("write")
        /\ Goto("undo")
        /\ UNCHANGED <<file, written>>
  /\ UNCHANGED <<bak, unit, arg, todo, backed, probe, ran, failed, past>>

WriteConfig == Write("config", Config, "feed")
WriteFeed   == Write("feed", Revision[arg], "enable")

(* The last step before the commit; a failed call may have worked. *)
EnableUnit ==
  /\ pc = "enable"
  /\ \/ /\ nixos
        /\ Goto("drop")
        /\ kept' = TRUE
        /\ UNCHANGED <<enabled, ran>>
     \/ /\ ~here
        /\ ran' = TRUE
        /\ Goto("undo")
        /\ UNCHANGED <<enabled, kept>>
     \/ /\ ~nixos /\ here
        /\ ran' = TRUE
        /\ \/ enabled' = TRUE /\ Goto("drop") /\ kept' = TRUE
           \/ /\ managed \/ Can("systemctl")
              /\ enabled' \in {enabled, TRUE}
              /\ Goto("undo")
              /\ UNCHANGED kept
  /\ UNCHANGED <<file, bak, managed, arg, todo, backed, written, probe,
                 failed, before, intact>>

(* Committed: the backups go, or stay when that fails. *)
DropOne ==
  /\ pc = "drop"
  /\ \E n \in backed :
       /\ backed' = backed \ {n}
       /\ bak' = Without(bak, n) \/ (Can("unlink") /\ UNCHANGED bak)
  /\ UNCHANGED <<file, unit, pc, arg, todo, written, probe, ran, failed, past>>

Dropped ==
  /\ pc = "drop" /\ backed = {}
  /\ Goto("persisted")
  /\ UNCHANGED <<file, bak, unit, locals, past>>

----------------------------------------------------------------------------
(* The rollback.                                                           *)

(* Mutated form of UndoWrite: a removal that failed is tried again. *)
UndoWriteRetries ==
  /\ pc = "undo"
  /\ \E n \in written :
       /\ \A m \in written : n <= m
       /\ \/ file' = Without(file, n) /\ written' = written \ {n}
             /\ UNCHANGED failed
          \/ Can("undo") /\ failed' = ~failed /\ UNCHANGED <<file, written>>
  /\ UNCHANGED <<bak, unit, pc, arg, todo, backed, probe, ran, past>>

(* Mutated form of UndoWrite: a removal that failed is not reported. *)
UndoWriteSilent ==
  /\ pc = "undo"
  /\ \E n \in written :
       /\ \A m \in written : n <= m
       /\ written' = written \ {n}
       /\ file' = Without(file, n) \/ (Can("undo") /\ UNCHANGED file)
  /\ UNCHANGED <<bak, unit, pc, arg, todo, backed, probe, ran, failed, past>>

(* Fresh writes go first, config.toml before the feed. *)
UndoWrite ==
  /\ pc = "undo"
  /\ \E n \in written :
       /\ \A m \in written : n <= m
       /\ written' = written \ {n}
       /\ \/ file' = Without(file, n) /\ UNCHANGED failed
          \/ Can("undo") /\ failed' = TRUE /\ UNCHANGED file
  /\ UNCHANGED <<bak, unit, pc, arg, todo, backed, probe, ran, past>>

UndoneWrites ==
  /\ pc = "undo" /\ written = {}
  /\ Goto("restore")
  /\ UNCHANGED <<file, bak, unit, locals, past>>

RestoreOne ==
  /\ pc = "restore"
  /\ \E n \in backed :
       /\ backed' = backed \ {n}
       /\ \/ /\ file' = With(file, n, bak[n])
             /\ bak' = Without(bak, n)
             /\ UNCHANGED failed
          \/ Can("undo") /\ failed' = TRUE /\ UNCHANGED <<file, bak>>
  /\ UNCHANGED <<unit, pc, arg, todo, written, probe, ran, past>>

Restored ==
  /\ pc = "restore" /\ backed = {}
  /\ Goto("compensate")
  /\ UNCHANGED <<file, bak, unit, locals, past>>

(* Mutated form of Compensate: the unit is left as the failed call left it. *)
CompensateNothing ==
  /\ pc = "compensate"
  /\ Goto("refused")
  /\ UNCHANGED <<file, bak, unit, locals, past>>

(* A unit known to have been disabled is disabled again. *)
Compensate ==
  /\ pc = "compensate"
  /\ \/ /\ ran /\ prior = "off"
        /\ \/ enabled' = FALSE /\ UNCHANGED failed
           \/ Can("undo") /\ failed' = TRUE /\ UNCHANGED enabled
     \/ /\ ~ran \/ prior # "off"
        /\ UNCHANGED <<enabled, failed>>
  /\ Goto("refused")
  /\ UNCHANGED <<file, bak, managed, arg, todo, backed, written, probe, ran,
                 past>>

----------------------------------------------------------------------------
(* DisablePersist.                                                         *)

Disable ==
  /\ pc = "idle"
  /\ Goto("ddetect")
  /\ before' = [file |-> file, enabled |-> enabled]
  /\ kept' = FALSE
  /\ UNCHANGED <<file, bak, unit, locals, intact>>

DetectForDisable ==
  /\ pc = "ddetect"
  /\ \/ /\ \/ nixos' \in Verdicts /\ UNCHANGED here
           \/ Can("absent") /\ here' = FALSE /\ nixos' = FALSE
        /\ Goto("disable")
     \/ /\ Can("detect")
        /\ Goto("refused")
        /\ UNCHANGED <<here, nixos>>
  /\ UNCHANGED <<file, bak, unit, arg, todo, backed, written, prior, ran,
                 failed, past>>

(* Then the entries to remove, a leftover .bak of either kind included.    *)
(* Without a systemctl, or if its failure reads as that of a missing unit, *)
(* the unit stays as it is, and nobody is told.                            *)
DisableUnit ==
  /\ pc = "disable"
  /\ \/ /\ \/ (nixos \/ ~here) /\ UNCHANGED <<enabled, here>>
           \/ ~nixos /\ here /\ enabled' = FALSE /\ UNCHANGED here
           \/ ~nixos /\ Can("misread") /\ here' = FALSE /\ UNCHANGED enabled
        /\ todo' = TrustedIn(file)
        /\ backed' = TrustedIn(bak)
        /\ Goto("sweep")
     \/ /\ ~nixos /\ here /\ (managed \/ Can("systemctl"))
        /\ enabled' \in {enabled, FALSE}
        /\ Goto("refused")
        /\ UNCHANGED <<todo, backed, here>>
  /\ UNCHANGED <<file, bak, managed, arg, written, nixos, prior, ran, failed,
                 past>>

(* Mutated form of Sweep: .bak files are not removed. *)
SweepCanonical ==
  /\ pc = "sweep"
  /\ backed' = {}
  /\ \E n \in todo : todo' = todo \ {n} /\ file' = Without(file, n)
  /\ UNCHANGED <<bak, unit, pc, arg, written, probe, ran, failed, past>>

(* A removal that fails is reported in the end and stops nothing. *)
Sweep ==
  /\ pc = "sweep"
  /\ \/ \E n \in todo :
          /\ todo' = todo \ {n}
          /\ \/ file' = Without(file, n) /\ UNCHANGED failed
             \/ Can("unlink") /\ failed' = TRUE /\ UNCHANGED file
          /\ UNCHANGED <<bak, backed>>
     \/ \E n \in backed :
          /\ backed' = backed \ {n}
          /\ \/ bak' = Without(bak, n) /\ UNCHANGED failed
             \/ Can("unlink") /\ failed' = TRUE /\ UNCHANGED bak
          /\ UNCHANGED <<file, todo>>
  /\ UNCHANGED <<unit, pc, arg, written, probe, ran, past>>

Swept ==
  /\ pc = "sweep" /\ todo = {} /\ backed = {}
  /\ Goto(IF failed THEN "refused" ELSE "unpersisted")
  /\ UNCHANGED <<file, bak, unit, locals, past>>

----------------------------------------------------------------------------
Recover  == RecoverOne \/ Recovered
BackUp   == BackUpOne \/ BackedUp
Drop     == DropOne \/ Dropped
Rollback == UndoWrite \/ UndoneWrites \/ RestoreOne \/ Restored \/ Compensate
Operate ==
  \/ Recover \/ Detect \/ BackUp \/ WriteConfig \/ WriteFeed \/ EnableUnit
  \/ Drop \/ Rollback
  \/ DetectForDisable \/ DisableUnit \/ Sweep \/ Swept
  \/ Exit

Next ==
  \/ \E s \in Snaps : Enable(s)
  \/ Disable
  \/ Operate
  \/ Kill

Spec == Init /\ [][Next]_vars

(* An admitted operation runs on, as every call it makes returns. *)
LiveSpec == Spec /\ WF_vars(Operate)

----------------------------------------------------------------------------
(* Properties.                                                             *)

TypeOK ==
  /\ file \in Dirs /\ bak \in Dirs
  /\ managed \in BOOLEAN /\ enabled \in BOOLEAN
  /\ pc \in Steps \cup {"idle"}
  /\ arg \in Snaps \cup {None}
  /\ todo \in SUBSET Names /\ backed \in SUBSET Names
  /\ written \in SUBSET Names
  /\ here \in BOOLEAN /\ nixos \in BOOLEAN
  /\ prior \in {"on", "off", "unknown"}
  /\ ran \in BOOLEAN /\ failed \in BOOLEAN
  /\ before \in [file : Dirs, enabled : BOOLEAN] \cup {None}
  /\ kept \in BOOLEAN /\ intact \in BOOLEAN

(* All of s is there, and of what appliers wrote no newer feed. *)
Whole(dir, s) ==
  /\ dir[Config] = s
  /\ dir[Revision[s]] = s
  /\ \A n \in Feeds : n > Revision[s] => ~Trusted(dir[n])

(* load_newest_in: the feed file of the highest revision, whoever owns it, *)
(* but no link.  So another owner's newer feed comes before that of s.     *)
Shadowed(dir, s) == \E n \in Feeds : n > Revision[s] /\ dir[n] = Foreign

(* `apply --system` reads config.toml and that feed: those of s. *)
Boots(s) == Whole(file, s) /\ ~Shadowed(file, s)

(* A refused EnablePersist that reports no failure of its own rollback has *)
(* put back every entry it owns and the captured state of the unit,        *)
(* whichever call failed; a refused DisablePersist that reports none       *)
(* removed nothing.                                                        *)
RefusedRestores ==
  pc = "refused" /\ ~failed =>
    /\ TrustedIn(file) = TrustedIn(before.file)
    /\ \A n \in TrustedIn(file) : file[n] = before.file[n]
    /\ arg # None =>
         /\ TrustedIn(bak) = {}
         /\ ~Undetermined => enabled = before.enabled

(* Persisted is true when it is replied, after any number of killed or     *)
(* refused operations: the unit would start from the new snapshot, even    *)
(* when its feed is older than the one it replaces.  What may come before  *)
(* it is only a feed of another owner that the operation found there; the  *)
(* code says Persisted all the same.                                       *)
PersistedBoots ==
  pc = "persisted" => /\ Whole(file, arg)
                      /\ Boots(arg) \/ Shadowed(before.file, arg)
                      /\ \A n \in Feeds \ {Revision[arg]} : ~Trusted(file[n])
                      /\ managed \/ enabled

(* Unpersisted is true when it is replied: nothing to boot from, nothing a *)
(* later recovery would bring back, and no unit that would try, unless     *)
(* disabling it failed as if it were missing.                              *)
UnpersistedGone ==
  pc = "unpersisted" => /\ TrustedIn(file) = {} /\ TrustedIn(bak) = {}
                        /\ here => managed \/ ~enabled

(* Once a snapshot was persisted, some config and some feed are on disk,   *)
(* in place or as a .bak, until a disable is asked for: no kill and no     *)
(* failing call of any later EnablePersist destroys the last copy.         *)
NothingLost ==
  kept => /\ Config \in TrustedIn(file) \cup TrustedIn(bak)
          /\ Feeds \cap (TrustedIn(file) \cup TrustedIn(bak)) # {}

(* Between operations an enabled unit has a whole snapshot of one          *)
(* EnablePersist to boot from, whichever calls of refused operations       *)
(* failed; and after a kill, from the next Persisted on again.  If another *)
(* owner's feed is newer, the unit finds that one beside the config.       *)
EnabledBoots ==
  pc = "idle" /\ enabled /\ intact =>
    \E s \in Snaps : Boots(s) \/ (Whole(file, s) /\ Shadowed(file, s))

(* The unit of the NixOS module is never enabled or disabled.  So says the *)
(* comment in enable_persist; it is so as long as no failure of systemctl  *)
(* is misread.                                                             *)
NixOwnsUnit == [][managed => UNCHANGED enabled]_vars

(* Every operation ends, whatever fails on the way. *)
OperationEnds == pc # "idle" ~> pc = "idle"

----------------------------------------------------------------------------
(* The promise.  Between its backups and its commit an operation's store   *)
(* is the one it found.                                                    *)
Uncommitted == {"backup", "config", "feed", "enable", "undo", "restore",
                "compensate"}

Pursued == (EnableSteps \cup UndoSteps) \ {"drop"}

Content(dir) ==
  CASE Trusted(dir[Config]) /\ Whole(dir, dir[Config]) -> dir[Config]
    [] TrustedIn(dir) = {}                             -> None
    [] OTHER                                           -> Foreign

Stored == CASE pc \in Uncommitted \cup {"sweep"} -> Content(before.file)
            [] pc = "drop"                        -> arg
            [] OTHER                              -> Content(file)
UnitOn == IF pc \in Uncommitted THEN before.enabled ELSE enabled
Sure   == intact /\ ~(pc = "refused" /\ (failed \/ Undetermined))
Phase  == CASE pc \in {"drop", "persisted"}        -> "persisted"
            [] pc \in Pursued                      -> "persist"
            [] pc \in DisableSteps                 -> "unpersist"
            [] pc = "refused" /\ failed            -> "broken"
            [] OTHER                               -> pc

Promise == INSTANCE Snapshot WITH
  Torn <- Foreign,
  Deaf <- Can("absent") \/ Can("misread"), Blind <- Can("misread"),
  stored <- Stored, unit <- UnitOn, nix <- managed, sure <- Sure,
  phase <- Phase, want <- arg, hidden <- {s \in Snaps : Shadowed(file, s)}

(* The renames, writes, removals and systemctl calls, failing or killed    *)
(* anywhere, are the whole operations of Snapshot: the store changes at    *)
(* the one step that commits, a refusal is without effect or says so, and  *)
(* a dead or failed operation never leaves a snapshot nobody asked for.    *)
ReplacesWhole == Promise!Spec

----------------------------------------------------------------------------
(* What the comments of main.rs say and the code does not always do.       *)

(* "A .bak whose canonical exists means the prior run got past the         *)
(* writes": a .bak is dropped as stale only where a whole snapshot is.     *)
DropsAfterWrites ==
  [][pc = "recover" /\ bak' # bak /\ UNCHANGED file =>
       \E s \in Snaps : Boots(s)]_vars
=============================================================================
