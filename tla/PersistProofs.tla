--------------------------- MODULE PersistProofs ---------------------------
(* The safety of Persist for every set of snapshots and every hazard.      *)
EXTENDS Persist, FiniteSetTheorems, TLAPS

USE DEF Goto, unit, probe, locals, past

LEMMA NamesOfSnaps ==
  /\ Config \in Names /\ Feeds \subseteq Names /\ Config \notin Feeds
  /\ \A s \in Snaps : Revision[s] \in Feeds /\ Revision[s] # Config
  /\ Names \subseteq Nat
BY ConstantsAssumption DEF Config, Feeds, Names

LEMMA TrustedType == \A dir \in Dirs : TrustedIn(dir) \subseteq Names
BY DEF TrustedIn

LEMMA EntryType ==
  ASSUME NEW dir \in Dirs, NEW n \in Names
  PROVE  /\ dir[n] \in Contents
         /\ Without(dir, n) \in Dirs
         /\ \A content \in Contents : With(dir, n, content) \in Dirs
BY DEF Dirs, Contents, With, Without

(* The steps after which the entries before are known.                     *)
Late  == {"backup", "config", "feed", "enable"} \cup UndoSteps
Pasts == [file : Dirs, enabled : BOOLEAN]

(* What the applier knows at each step.                                    *)
Shape ==
  /\ pc \in EnableSteps \cup UndoSteps \cup {"persisted"} => arg \in Snaps
  /\ pc \in DisableSteps \cup {"idle", "unpersisted"} => arg = None
  /\ pc \in Late \cup {"ddetect", "disable", "drop", "persisted"} =>
       before \in Pasts
  /\ pc = "refused" /\ ~failed => before \in Pasts
  /\ pc \notin UndoSteps \cup {"sweep", "refused"} => ~failed
  /\ pc \in {"idle", "recover", "detect", "ddetect", "disable"} => todo = {}
  /\ pc \in {"idle", "recover", "detect", "backup", "config", "ddetect",
             "disable"} => written = {}
  /\ pc \in {"idle", "detect", "ddetect", "disable", "compensate"} =>
       backed = {}
  /\ pc \in {"config", "feed", "enable"} => todo = {}
  /\ pc \in {"idle", "recover", "detect", "backup", "config", "feed",
             "ddetect", "disable"} => ~ran

TypeInv == TypeOK /\ Shape

LEMMA Basics ==
  ASSUME TypeInv
  PROVE  /\ file \in Dirs /\ bak \in Dirs /\ arg \in Contents
         /\ todo \subseteq Names /\ backed \subseteq Names
         /\ written \subseteq Names
BY DEF TypeInv, TypeOK, Contents

(* What a step that only moves entries leaves alone.                       *)
LEMMA SameFlags ==
  ASSUME TypeOK, UNCHANGED <<unit, probe, ran, past>>
  PROVE  /\ managed' \in BOOLEAN /\ enabled' \in BOOLEAN
         /\ here' \in BOOLEAN /\ nixos' \in BOOLEAN
         /\ prior' \in {"on", "off", "unknown"} /\ ran' \in BOOLEAN
         /\ before' \in [file : Dirs, enabled : BOOLEAN] \cup {None}
         /\ kept' \in BOOLEAN /\ intact' \in BOOLEAN
BY DEF TypeOK

LEMMA TypeRecover ==
  ASSUME TypeInv, Recover \/ Detect \/ BackUp
  PROVE  TypeInv'
<1>1. CASE RecoverOne
  <2>1. file' \in Dirs /\ bak' \in Dirs
    BY <1>1, Basics, EntryType DEF RecoverOne
  <2>2. failed' \in BOOLEAN
    BY <1>1, Zenon DEF TypeInv, TypeOK, RecoverOne
  <2>3. TypeOK'
    BY <1>1, <2>1, <2>2, Basics DEF TypeInv, TypeOK, RecoverOne,
       Steps, EnableSteps, UndoSteps, DisableSteps, Replies
  <2>4. Shape'
    BY <1>1 DEF TypeInv, TypeOK, Shape, RecoverOne,
       Steps, EnableSteps, UndoSteps, DisableSteps, Replies, Late
  <2> QED BY <2>3, <2>4 DEF TypeInv
<1>2. CASE Recovered
  BY <1>2 DEF TypeInv, TypeOK, Shape, Recovered,
     Steps, EnableSteps, UndoSteps, DisableSteps, Replies, Late
<1>3. CASE Detect
  <2>1. todo' \subseteq Names /\ prior' \in {"on", "off", "unknown"}
          /\ here' \in BOOLEAN /\ nixos' \in BOOLEAN
    BY <1>3, TrustedType DEF TypeInv, TypeOK, Detect, PriorStates, Verdicts
  <2>2. before' \in Pasts
    BY <1>3 DEF TypeInv, TypeOK, Detect, Pasts
  <2> QED
    BY <1>3, <2>1, <2>2 DEF TypeInv, TypeOK, Shape, Detect, Pasts,
       Steps, EnableSteps, UndoSteps, DisableSteps, Replies, Late
<1>4. CASE BackUpOne
  <2>1. file' \in Dirs /\ bak' \in Dirs
    BY <1>4, Basics, EntryType DEF BackUpOne
  <2>2. TypeOK'
    BY <1>4, <2>1, Basics DEF TypeInv, TypeOK, BackUpOne,
       Steps, EnableSteps, UndoSteps, DisableSteps, Replies
  <2>3. Shape'
    BY <1>4 DEF TypeInv, TypeOK, Shape, BackUpOne,
       Steps, EnableSteps, UndoSteps, DisableSteps, Replies, Late
  <2> QED BY <2>2, <2>3 DEF TypeInv
<1>5. CASE BackedUp
  BY <1>5 DEF TypeInv, TypeOK, Shape, BackedUp,
     Steps, EnableSteps, UndoSteps, DisableSteps, Replies, Late
<1> QED BY <1>1, <1>2, <1>3, <1>4, <1>5 DEF Recover, BackUp

LEMMA TypeWrite ==
  ASSUME TypeInv, WriteConfig \/ WriteFeed \/ EnableUnit \/ Drop
  PROVE  TypeInv'
<1>1. CASE WriteConfig
  <2>1. file' \in Dirs /\ bak' \in Dirs
    BY <1>1, Basics, EntryType, NamesOfSnaps DEF WriteConfig, Write
  <2>2. TypeOK'
    <3>1. /\ pc' \in Steps \cup {"idle"} /\ arg' \in Snaps \cup {None}
          /\ todo' \in SUBSET Names /\ backed' \in SUBSET Names
          /\ written' \in SUBSET Names /\ failed' \in BOOLEAN
      BY <1>1, NamesOfSnaps DEF TypeInv, TypeOK, WriteConfig, Write, Steps,
         EnableSteps, UndoSteps
    <3> QED
      BY <1>1, <2>1, <3>1, SameFlags DEF TypeInv, TypeOK, WriteConfig, Write
  <2>3. Shape'
    BY <1>1 DEF TypeInv, TypeOK, Shape, WriteConfig, Write,
       Steps, EnableSteps, UndoSteps, DisableSteps, Replies, Late
  <2> QED BY <2>2, <2>3 DEF TypeInv
<1>2. CASE WriteFeed
  <2>1. arg \in Snaps /\ Revision[arg] \in Names
    BY <1>2, NamesOfSnaps DEF TypeInv, Shape, WriteFeed, Write, EnableSteps
  <2>2. file' \in Dirs /\ bak' \in Dirs
    BY <1>2, <2>1, Basics, EntryType DEF WriteFeed, Write
  <2>3. TypeOK'
    <3>1. /\ pc' \in Steps \cup {"idle"} /\ arg' \in Snaps \cup {None}
          /\ todo' \in SUBSET Names /\ backed' \in SUBSET Names
          /\ written' \in SUBSET Names /\ failed' \in BOOLEAN
      BY <1>2, <2>1 DEF TypeInv, TypeOK, WriteFeed, Write, Steps,
         EnableSteps, UndoSteps
    <3> QED
      BY <1>2, <2>2, <3>1, SameFlags DEF TypeInv, TypeOK, WriteFeed, Write
  <2>4. Shape'
    BY <1>2 DEF TypeInv, TypeOK, Shape, WriteFeed, Write,
       Steps, EnableSteps, UndoSteps, DisableSteps, Replies, Late
  <2> QED BY <2>3, <2>4 DEF TypeInv
<1>3. CASE EnableUnit
  <2>1. enabled' \in BOOLEAN /\ ran' \in BOOLEAN /\ kept' \in BOOLEAN
    BY <1>3, Zenon DEF TypeInv, TypeOK, EnableUnit
  <2>2. pc = "enable" /\ pc' \in {"drop", "undo"}
    BY <1>3 DEF EnableUnit
  <2>3. UNCHANGED <<file, bak, managed, arg, todo, backed, written, here,
                    nixos, prior, failed, before, intact>>
    BY <1>3 DEF EnableUnit
  <2>4. TypeOK'
    BY <2>1, <2>2, <2>3 DEF TypeInv, TypeOK, Steps, EnableSteps, UndoSteps
  <2>5. Shape'
    BY <2>2, <2>3 DEF TypeInv, Shape, EnableSteps, UndoSteps, DisableSteps,
       Late
  <2> QED BY <2>4, <2>5 DEF TypeInv
<1>4. CASE DropOne
  <2>1. file' \in Dirs /\ bak' \in Dirs
    BY <1>4, Basics, EntryType DEF DropOne
  <2>2. TypeOK'
    BY <1>4, <2>1, Basics DEF TypeInv, TypeOK, DropOne,
       Steps, EnableSteps, UndoSteps, DisableSteps, Replies
  <2>3. Shape'
    BY <1>4 DEF TypeInv, TypeOK, Shape, DropOne,
       Steps, EnableSteps, UndoSteps, DisableSteps, Replies, Late
  <2> QED BY <2>2, <2>3 DEF TypeInv
<1>5. CASE Dropped
  BY <1>5 DEF TypeInv, TypeOK, Shape, Dropped,
     Steps, EnableSteps, UndoSteps, DisableSteps, Replies, Late
<1> QED BY <1>1, <1>2, <1>3, <1>4, <1>5 DEF Drop

LEMMA TypeRollback == ASSUME TypeInv, Rollback PROVE TypeInv'
<1>1. CASE UndoWrite
  <2>1. file' \in Dirs /\ bak' \in Dirs
    BY <1>1, Basics, EntryType DEF UndoWrite
  <2>2. failed' \in BOOLEAN
    BY <1>1, Zenon DEF TypeInv, TypeOK, UndoWrite
  <2>3. TypeOK'
    BY <1>1, <2>1, <2>2, Basics DEF TypeInv, TypeOK, UndoWrite,
       Steps, EnableSteps, UndoSteps, DisableSteps, Replies
  <2>4. Shape'
    BY <1>1 DEF TypeInv, TypeOK, Shape, UndoWrite,
       Steps, EnableSteps, UndoSteps, DisableSteps, Replies, Late
  <2> QED BY <2>3, <2>4 DEF TypeInv
<1>2. CASE UndoneWrites
  BY <1>2 DEF TypeInv, TypeOK, Shape, UndoneWrites,
     Steps, EnableSteps, UndoSteps, DisableSteps, Replies, Late
<1>3. CASE RestoreOne
  <2>1. file' \in Dirs /\ bak' \in Dirs
    BY <1>3, Basics, EntryType DEF RestoreOne
  <2>2. failed' \in BOOLEAN
    BY <1>3, Zenon DEF TypeInv, TypeOK, RestoreOne
  <2>3. TypeOK'
    BY <1>3, <2>1, <2>2, Basics DEF TypeInv, TypeOK, RestoreOne,
       Steps, EnableSteps, UndoSteps, DisableSteps, Replies
  <2>4. Shape'
    BY <1>3 DEF TypeInv, TypeOK, Shape, RestoreOne,
       Steps, EnableSteps, UndoSteps, DisableSteps, Replies, Late
  <2> QED BY <2>3, <2>4 DEF TypeInv
<1>4. CASE Restored
  BY <1>4 DEF TypeInv, TypeOK, Shape, Restored,
     Steps, EnableSteps, UndoSteps, DisableSteps, Replies, Late
<1>5. CASE Compensate
  <2>1. TypeOK'
    <3>1. enabled' \in BOOLEAN /\ failed' \in BOOLEAN /\ pc' = "refused"
      BY <1>5, Zenon DEF TypeInv, TypeOK, Compensate
    <3>2. UNCHANGED <<file, bak, managed, arg, todo, backed, written, here,
                      nixos, prior, ran, before, kept, intact>>
      BY <1>5 DEF Compensate
    <3> QED BY <3>1, <3>2 DEF TypeInv, TypeOK, Steps, Replies
  <2>2. Shape'
    BY <1>5 DEF TypeInv, Shape, Compensate, UndoSteps, EnableSteps,
       DisableSteps, Late
  <2> QED BY <2>1, <2>2 DEF TypeInv
<1> QED BY <1>1, <1>2, <1>3, <1>4, <1>5 DEF Rollback

LEMMA TypeDisable ==
  ASSUME TypeInv, Disable \/ DetectForDisable \/ DisableUnit \/ Sweep \/ Swept
  PROVE  TypeInv'
<1>1. CASE Disable
  BY <1>1 DEF TypeInv, TypeOK, Shape, Disable, Pasts,
     Steps, EnableSteps, UndoSteps, DisableSteps, Replies, Late
<1>2. CASE DetectForDisable
  <2>1. here' \in BOOLEAN /\ nixos' \in BOOLEAN
    BY <1>2 DEF TypeInv, TypeOK, DetectForDisable, Verdicts
  <2>2. TypeOK'
    BY <1>2, <2>1 DEF TypeInv, TypeOK, DetectForDisable, Steps, DisableSteps,
       Replies
  <2>3. Shape'
    BY <1>2 DEF TypeInv, Shape, DetectForDisable, UndoSteps, EnableSteps,
       DisableSteps, Late
  <2> QED BY <2>2, <2>3 DEF TypeInv
<1>3. CASE DisableUnit
  <2>1. todo' \subseteq Names /\ backed' \subseteq Names
    BY <1>3, TrustedType DEF TypeInv, TypeOK, DisableUnit
  <2>2. enabled' \in BOOLEAN /\ here' \in BOOLEAN
    BY <1>3, Zenon DEF TypeInv, TypeOK, DisableUnit
  <2>3. pc = "disable" /\ pc' \in {"sweep", "refused"}
    BY <1>3 DEF DisableUnit
  <2>4. UNCHANGED <<file, bak, managed, arg, written, nixos, prior, ran,
                    failed, before, kept, intact>>
    BY <1>3 DEF DisableUnit
  <2>5. TypeOK'
    BY <2>1, <2>2, <2>3, <2>4 DEF TypeInv, TypeOK, Steps, DisableSteps,
       Replies
  <2>6. Shape'
    BY <2>3, <2>4 DEF TypeInv, Shape, EnableSteps, UndoSteps, DisableSteps,
       Late
  <2> QED BY <2>5, <2>6 DEF TypeInv
<1>4. CASE Sweep
  <2>1. file' \in Dirs /\ bak' \in Dirs
    BY <1>4, Basics, EntryType DEF Sweep
  <2>2. failed' \in BOOLEAN
    BY <1>4, Zenon DEF TypeInv, TypeOK, Sweep
  <2>3. TypeOK'
    BY <1>4, <2>1, <2>2, Basics DEF TypeInv, TypeOK, Sweep,
       Steps, EnableSteps, UndoSteps, DisableSteps, Replies
  <2>4. Shape'
    BY <1>4 DEF TypeInv, TypeOK, Shape, Sweep,
       Steps, EnableSteps, UndoSteps, DisableSteps, Replies, Late
  <2> QED BY <2>3, <2>4 DEF TypeInv
<1>5. CASE Swept
  BY <1>5 DEF TypeInv, TypeOK, Shape, Swept,
     Steps, EnableSteps, UndoSteps, DisableSteps, Replies, Late
<1> QED BY <1>1, <1>2, <1>3, <1>4, <1>5

LEMMA TypeStep == ASSUME TypeInv, [Next]_vars PROVE TypeInv'
<1>1. ASSUME NEW s \in Snaps, Enable(s) PROVE TypeInv'
  <2>1. backed' \subseteq Names
    BY <1>1, TrustedType DEF TypeInv, TypeOK, Enable
  <2> QED
    BY <1>1, <2>1 DEF TypeInv, TypeOK, Shape, Enable,
       Steps, EnableSteps, UndoSteps, DisableSteps, Replies, Late
<1>2. CASE Exit \/ Kill
  BY <1>2 DEF TypeInv, TypeOK, Shape, Exit, Kill, Vanish, TrustedIn,
     Steps, EnableSteps, UndoSteps, DisableSteps, Replies, Late
<1>3. CASE UNCHANGED vars
  BY <1>3 DEF TypeInv, TypeOK, Shape, vars
<1> QED
  BY <1>1, <1>2, <1>3, TypeRecover, TypeWrite, TypeRollback, TypeDisable
     DEF Next, Operate

LEMMA Beginning ==
  Init => /\ file \in Dirs /\ bak \in Dirs
          /\ \A n \in Names : ~Trusted(file[n]) /\ ~Trusted(bak[n])
BY ConstantsAssumption DEF Init, Aliens, Dirs, Contents, Trusted

LEMMA TypeInitially == Init => TypeInv
BY Beginning DEF Init, Idle, TypeInv, TypeOK, Shape,
   EnableSteps, UndoSteps, DisableSteps, Late

LEMMA Types == Spec => []TypeInv
BY TypeInitially, TypeStep, PTL DEF Spec

(* Every reachable value has its type: no step is reached that neither     *)
(* operation has, and no entry of the directory that nobody writes.        *)
THEOREM PersistTypeCorrect == Spec => []TypeOK
BY Types, PTL DEF TypeInv

----------------------------------------------------------------------------
(* The unit.  What detection found is true, unless it was misread, and     *)
(* until `systemctl enable` is called the unit is as it was.               *)
Unit ==
  /\ nixos => managed /\ here /\ ~ran
  /\ managed => prior # "off"
  /\ ~here => prior = "unknown"
  /\ managed /\ here /\ pc \in Late \cup {"disable"} =>
       nixos \/ Can("misread")
  /\ pc \in {"idle", "recover", "detect"} \cup DisableSteps =>
       prior = "unknown"
  /\ pc \in {"idle", "recover", "detect", "ddetect"} => here
  /\ pc \in {"ddetect", "disable"} => enabled = before.enabled
  /\ pc \in Late \/ (pc = "refused" /\ ~failed /\ arg # None) =>
       /\ prior = "off" => ~before.enabled
       /\ prior = "on" => managed \/ (before.enabled /\ enabled)
       /\ ~ran \/ ~here => enabled = before.enabled
  /\ pc = "refused" /\ ~failed /\ prior = "off" => ~enabled
  /\ pc = "refused" /\ ~failed /\ arg = None /\ enabled => before.enabled
  /\ pc \in {"sweep", "unpersisted"} /\ here => managed \/ ~enabled

UnitInv == TypeInv /\ Unit

LEMMA VerdictTrue ==
  ASSUME NEW v \in Verdicts
  PROVE  (v => managed) /\ (managed => v \/ Can("misread"))
BY Zenon DEF Verdicts

LEMMA DetectedTrue ==
  ASSUME here, ~nixos \/ managed,
         \/ nixos' \in Verdicts /\ here' = here
         \/ ~here' /\ ~nixos'
         \/ pc' = "refused" /\ nixos' = nixos /\ here' = here
  PROVE  /\ nixos' => managed /\ here'
         /\ managed /\ here' /\ pc' # "refused" =>
              nixos' \/ Can("misread")
<1>1. CASE nixos' \in Verdicts /\ here' = here
  <2>1. here'
    BY <1>1, Zenon
  <2> QED BY <1>1, <2>1, VerdictTrue, Zenon
<1>2. CASE ~here' /\ ~nixos'
  BY <1>2, Zenon
<1>3. CASE pc' = "refused" /\ nixos' = nixos /\ here' = here
  <2>1. here'
    BY <1>3, Zenon
  <2>2. nixos' => managed
    BY <1>3
  <2> QED BY <1>3, <2>1, <2>2, Zenon
<1> QED BY <1>1, <1>2, <1>3, Zenon

LEMMA UnitStep == ASSUME UnitInv, [Next]_vars PROVE Unit'
<1>0. TypeInv'
  BY TypeStep DEF UnitInv
<1> USE DEF UnitInv, TypeInv, TypeOK, Unit, Shape, Late, EnableSteps,
            UndoSteps, DisableSteps, Pasts
<1>1. ASSUME NEW s \in Snaps, Enable(s) PROVE Unit'
  BY <1>1 DEF Enable
<1>2. CASE Disable
  BY <1>2 DEF Disable
<1>3. CASE RecoverOne \/ Recovered
  BY <1>3 DEF RecoverOne, Recovered
<1>4. CASE Detect
  <2>1. /\ before'.enabled = enabled
        /\ UNCHANGED <<managed, enabled, arg, ran, failed>>
        /\ pc' \in {"backup", "refused"}
    BY <1>4 DEF Detect
  <2>2. /\ managed => prior' # "off"
        /\ ~here' => prior' = "unknown"
        /\ prior' = "on" => managed \/ enabled
        /\ prior' = "off" => ~enabled
    <3>1. prior' = "unknown" \/ (here' /\ prior' \in PriorStates(nixos'))
      BY <1>4 DEF Detect
    <3>2. CASE managed \/ enabled
      BY <3>1, <3>2 DEF PriorStates
    <3>3. CASE ~managed /\ ~enabled
      BY <3>1, <3>3 DEF PriorStates
    <3> QED BY <3>2, <3>3
  <2>3. /\ nixos' => managed /\ here'
        /\ managed /\ here' /\ pc' = "backup" => nixos' \/ Can("misread")
    <3>1. \/ nixos' \in Verdicts /\ here' = here
          \/ ~here' /\ ~nixos'
          \/ pc' = "refused" /\ nixos' = nixos /\ here' = here
      BY <1>4 DEF Detect
    <3>2. here /\ (~nixos \/ managed)
      BY <1>4 DEF Detect
    <3> QED BY <3>1, <3>2, DetectedTrue
  <2> QED
    BY <1>0, <1>4, <2>1, <2>2, <2>3 DEF Detect
<1>5. CASE BackUpOne \/ BackedUp
  BY <1>5 DEF BackUpOne, BackedUp
<1>6. CASE WriteConfig \/ WriteFeed
  BY <1>6 DEF WriteConfig, WriteFeed, Write
<1>7. CASE EnableUnit
  BY <1>0, <1>7 DEF EnableUnit
<1>8. CASE DropOne \/ Dropped
  BY <1>8 DEF DropOne, Dropped
<1>9. CASE UndoWrite \/ UndoneWrites
  BY <1>9 DEF UndoWrite, UndoneWrites
<1>10. CASE RestoreOne \/ Restored
  BY <1>10 DEF RestoreOne, Restored
<1>11. CASE Compensate
  <2>1. CASE ran /\ prior = "off"
    BY <1>0, <1>11, <2>1 DEF Compensate
  <2>2. CASE ~ran \/ prior # "off"
    <3>1. UNCHANGED <<managed, enabled, here, nixos, prior, ran, failed,
                      before, arg>>
            /\ pc = "compensate" /\ pc' = "refused" /\ before \in Pasts
            /\ arg # None
      BY <1>11, <2>2, ConstantsAssumption DEF Compensate
    <3>2. prior = "off" => ~enabled
      <4> HAVE prior = "off"
      <4>1. ~before.enabled /\ enabled = before.enabled
        BY <2>2, <3>1
      <4> QED BY <4>1
    <3> QED BY <1>0, <3>1, <3>2
  <2> QED BY <2>1, <2>2
<1>12. CASE DetectForDisable
  <2>1. /\ nixos' => managed /\ here'
        /\ managed /\ here' /\ pc' = "disable" => nixos' \/ Can("misread")
    <3>1. \/ nixos' \in Verdicts /\ here' = here
          \/ ~here' /\ ~nixos'
          \/ pc' = "refused" /\ nixos' = nixos /\ here' = here
      BY <1>12 DEF DetectForDisable
    <3>2. here /\ (~nixos \/ managed)
      BY <1>12 DEF DetectForDisable
    <3>3. /\ nixos' => managed /\ here'
          /\ managed /\ here' /\ pc' # "refused" =>
               nixos' \/ Can("misread")
      BY <3>1, <3>2, DetectedTrue, Zenon
    <3> QED BY <3>3
  <2> QED BY <1>0, <1>12, <2>1 DEF DetectForDisable
<1>13. CASE DisableUnit
  BY <1>0, <1>13 DEF DisableUnit
<1>14. CASE Sweep \/ Swept
  BY <1>14 DEF Sweep, Swept
<1>15. CASE Exit \/ Kill
  BY <1>0, <1>15 DEF Exit, Kill, Vanish
<1>16. CASE UNCHANGED vars
  BY <1>16 DEF vars
<1> QED
  BY <1>1, <1>2, <1>3, <1>4, <1>5, <1>6, <1>7, <1>8, <1>9, <1>10, <1>11,
     <1>12, <1>13, <1>14, <1>15, <1>16
     DEF Next, Operate, Recover, BackUp, Drop, Rollback

LEMMA Units == Spec => []UnitInv
<1>1. Init => UnitInv
  BY TypeInitially DEF Init, Idle, UnitInv, Unit, Late, UndoSteps
<1>2. UnitInv /\ [Next]_vars => UnitInv'
  BY TypeStep, UnitStep DEF UnitInv
<1> QED BY <1>1, <1>2, PTL DEF Spec

(* No operation, and no rollback of one, enables or disables the unit of   *)
(* the NixOS module, whichever call fails, and also if systemctl cannot be *)
(* started, as long as no failure of it reads as a missing unit.           *)
THEOREM NixOwnsUnitHolds ==
  ASSUME "misread" \notin Hazards PROVE Spec => NixOwnsUnit
<1>1. UnitInv /\ [Next]_vars => (managed => UNCHANGED enabled)
  <2> SUFFICES ASSUME UnitInv, Next, managed PROVE UNCHANGED enabled
    BY DEF vars
  <2> USE DEF UnitInv, Unit
  <2>1. CASE EnableUnit \/ Compensate \/ DisableUnit
    BY <2>1 DEF EnableUnit, Compensate, DisableUnit, Can, Late
  <2>2. CASE Disable \/ \E s \in Snaps : Enable(s)
    BY <2>2 DEF Disable, Enable
  <2>3. CASE Recover \/ Detect \/ BackUp \/ WriteConfig \/ WriteFeed \/ Drop
    BY <2>3 DEF Recover, RecoverOne, Recovered, Detect, BackUp, BackUpOne,
       BackedUp, WriteConfig, WriteFeed, Write, Drop, DropOne, Dropped
  <2>4. CASE UndoWrite \/ UndoneWrites \/ RestoreOne \/ Restored
    BY <2>4 DEF UndoWrite, UndoneWrites, RestoreOne, Restored
  <2>5. CASE DetectForDisable \/ Sweep \/ Swept \/ Exit \/ Kill
    BY <2>5 DEF DetectForDisable, Sweep, Swept, Exit, Kill
  <2> QED
    BY <2>1, <2>2, <2>3, <2>4, <2>5 DEF Next, Operate, Rollback
<1> QED BY <1>1, Units, PTL DEF Spec, NixOwnsUnit

----------------------------------------------------------------------------
(* What is in place at each step of an EnablePersist that goes well, and   *)
(* what is left to remove for a DisablePersist.                            *)
Placed ==
  /\ pc = "backup" => \A n \in Names : Trusted(file[n]) <=> n \in todo
  /\ pc = "config" => \A n \in Names : ~Trusted(file[n])
  /\ pc = "feed" => /\ file[Config] = arg
                    /\ \A n \in Feeds : ~Trusted(file[n])
  /\ pc \in {"enable", "drop", "persisted"} =>
       /\ file[Config] = arg /\ file[Revision[arg]] = arg
       /\ \A n \in Feeds \ {Revision[arg]} : ~Trusted(file[n])
  /\ pc \in {"drop", "persisted"} => managed \/ enabled

Removed ==
  /\ pc = "sweep" => \A n \in todo : Trusted(file[n])
  /\ pc = "sweep" /\ ~failed =>
       \A n \in Names : /\ Trusted(file[n]) => n \in todo
                        /\ Trusted(bak[n]) => n \in backed
  /\ pc = "unpersisted" =>
       \A n \in Names : ~Trusted(file[n]) /\ ~Trusted(bak[n])

PlacedInv == UnitInv /\ Placed /\ Removed

LEMMA NotTrusted == ~Trusted(None) /\ ~Trusted(Foreign) /\ ~Trusted(Link)
BY ConstantsAssumption DEF Trusted

(* How a change of one entry reads, entry by entry.                        *)
LEMMA Entry ==
  ASSUME NEW dir \in Dirs, NEW n \in Names, NEW content
  PROVE  \A m \in Names :
           /\ Without(dir, n)[m] = IF m = n THEN None ELSE dir[m]
           /\ With(dir, n, content)[m] = IF m = n THEN content ELSE dir[m]
BY DEF Dirs, With, Without

LEMMA PlacedStep == ASSUME PlacedInv, [Next]_vars PROVE Placed'
<1> USE DEF PlacedInv, UnitInv, Placed
<1>0. TypeInv /\ file \in Dirs /\ backed \subseteq Names
        /\ todo \subseteq Names /\ written \subseteq Names
  BY Basics
<1>1. ASSUME NEW s \in Snaps, Enable(s) PROVE Placed'
  BY <1>1 DEF Enable
<1>2. CASE Disable \/ Recover \/ UndoneWrites \/ Restored
  BY <1>2 DEF Disable, Recover, RecoverOne, Recovered, UndoneWrites, Restored
<1>3. CASE Detect
  BY <1>3 DEF Detect, TrustedIn
<1>4. CASE BackUpOne
  BY <1>0, <1>4, Entry, NotTrusted DEF BackUpOne
<1>5. CASE BackedUp
  BY <1>5 DEF BackedUp
<1>6. CASE WriteConfig
  BY <1>0, <1>6, Entry, NamesOfSnaps DEF WriteConfig, Write
<1>7. CASE WriteFeed
  <2>1. arg \in Snaps /\ pc = "feed"
    BY <1>0, <1>7 DEF WriteFeed, Write, TypeInv, Shape, EnableSteps
  <2>2. /\ Revision[arg] \in Names /\ Revision[arg] # Config
        /\ Config \in Names /\ Feeds \subseteq Names
    BY <2>1, NamesOfSnaps
  <2>3. CASE file' = With(file, Revision[arg], arg) /\ pc' = "enable"
    <3>1. \A m \in Names :
            file'[m] = IF m = Revision[arg] THEN arg ELSE file[m]
      BY <1>0, <2>2, <2>3, Entry
    <3> QED
      BY <1>7, <2>1, <2>2, <2>3, <3>1 DEF WriteFeed, Write
  <2>4. CASE pc' = "undo"
    BY <2>4
  <2> QED BY <1>7, <2>3, <2>4 DEF WriteFeed, Write
<1>8. CASE EnableUnit
  <2>1. nixos => managed
    BY DEF Unit
  <2>2. /\ pc = "enable" /\ UNCHANGED <<file, arg, managed>>
        /\ pc' = "undo" \/ (pc' = "drop" /\ (nixos \/ enabled'))
    BY <1>8 DEF EnableUnit
  <2> QED BY <2>1, <2>2
<1>9. CASE Drop
  BY <1>9 DEF Drop, DropOne, Dropped
<1>10. CASE UndoWrite \/ RestoreOne \/ Compensate
  BY <1>10 DEF UndoWrite, RestoreOne, Compensate
<1>11. CASE DetectForDisable \/ DisableUnit
  BY <1>11 DEF DetectForDisable, DisableUnit
<1>12. CASE Sweep \/ Swept
  BY <1>12 DEF Sweep, Swept
<1>13. CASE Exit \/ Kill
  BY <1>13 DEF Exit, Kill, Vanish
<1>14. CASE UNCHANGED vars
  BY <1>14 DEF vars
<1> QED
  BY <1>1, <1>2, <1>3, <1>4, <1>5, <1>6, <1>7, <1>8, <1>9, <1>10, <1>11,
     <1>12, <1>13, <1>14
     DEF Next, Operate, BackUp, Rollback

LEMMA RemovedStep == ASSUME PlacedInv, [Next]_vars PROVE Removed'
<1> USE DEF PlacedInv, UnitInv, Removed
<1>0. TypeInv /\ file \in Dirs /\ bak \in Dirs /\ backed \subseteq Names
        /\ todo \subseteq Names
  BY Basics
<1>1. ASSUME NEW s \in Snaps, Enable(s) PROVE Removed'
  BY <1>1 DEF Enable
<1>2. CASE Disable \/ Recover \/ Detect \/ BackUp
  BY <1>2 DEF Disable, Recover, RecoverOne, Recovered, Detect, BackUp,
     BackUpOne, BackedUp
<1>3. CASE WriteConfig \/ WriteFeed \/ EnableUnit \/ Drop
  BY <1>3 DEF WriteConfig, WriteFeed, Write, EnableUnit, Drop, DropOne,
     Dropped
<1>4. CASE Rollback
  BY <1>4 DEF Rollback, UndoWrite, UndoneWrites, RestoreOne, Restored,
     Compensate
<1>5. CASE DetectForDisable
  BY <1>5 DEF DetectForDisable
<1>6. CASE DisableUnit
  BY <1>6 DEF DisableUnit, TrustedIn
<1>7. CASE Sweep
  <2>1. pc = "sweep" /\ UNCHANGED pc
    BY <1>7 DEF Sweep
  <2>2. ASSUME NEW n \in todo, todo' = todo \ {n}, UNCHANGED <<bak, backed>>,
               \/ file' = Without(file, n) /\ UNCHANGED failed
               \/ failed' /\ UNCHANGED file
        PROVE  Removed'
    BY <1>0, <2>1, <2>2, Entry, NotTrusted
  <2>3. ASSUME NEW n \in backed, backed' = backed \ {n},
               UNCHANGED <<file, todo>>,
               \/ bak' = Without(bak, n) /\ UNCHANGED failed
               \/ failed' /\ UNCHANGED bak
        PROVE  Removed'
    BY <1>0, <2>1, <2>3, Entry, NotTrusted
  <2> QED BY <1>7, <2>2, <2>3 DEF Sweep
<1>8. CASE Swept
  BY <1>8 DEF Swept
<1>9. CASE Exit \/ Kill
  BY <1>9 DEF Exit, Kill, Vanish
<1>10. CASE UNCHANGED vars
  BY <1>10 DEF vars
<1> QED
  BY <1>1, <1>2, <1>3, <1>4, <1>5, <1>6, <1>7, <1>8, <1>9, <1>10
     DEF Next, Operate

LEMMA Places == Spec => []PlacedInv
<1>1. Init => PlacedInv
  BY TypeInitially, Beginning
     DEF Init, Idle, PlacedInv, UnitInv, Unit, Late, UndoSteps, Placed,
         Removed
<1>2. PlacedInv /\ [Next]_vars => PlacedInv'
  BY TypeStep, UnitStep, PlacedStep, RemovedStep DEF PlacedInv, UnitInv
<1> QED BY <1>1, <1>2, PTL DEF Spec

(* An Unpersisted is true when it is replied, but for a unit that nobody   *)
(* could disable.                                                          *)
THEOREM UnpersistedGoneHolds == Spec => []UnpersistedGone
<1>1. PlacedInv => UnpersistedGone
  BY DEF PlacedInv, Removed, UnitInv, Unit, UnpersistedGone, TrustedIn
<1> QED BY <1>1, Places, PTL

----------------------------------------------------------------------------
(* Where the copies are: a .bak is never next to an untrusted entry, the   *)
(* applier knows its own, and no stale one survives the recovery.          *)
Copies ==
  /\ \A n \in Names : Trusted(bak[n]) => file[n] \in Snaps \cup {None}
  /\ pc \in Late \cup {"recover"} => \A n \in backed : Trusted(bak[n])
  /\ pc \in Late \cup {"recover"} /\ ~failed =>
       \A n \in Names : Trusted(bak[n]) => n \in backed
  /\ pc = "detect" \/ (pc = "refused" /\ ~failed /\ arg # None) =>
       \A n \in Names : ~Trusted(bak[n])

CopiesInv == PlacedInv /\ Copies

LEMMA CopiesStep == ASSUME CopiesInv, [Next]_vars PROVE Copies'
<1> USE DEF CopiesInv, Copies, Late, UndoSteps
<1>0. /\ TypeInv /\ file \in Dirs /\ bak \in Dirs /\ backed \subseteq Names
      /\ todo \subseteq Names /\ written \subseteq Names
  BY Basics DEF PlacedInv, UnitInv
<1>a. Placed /\ Shape
  BY DEF PlacedInv, UnitInv, TypeInv
<1>1. ASSUME NEW s \in Snaps, Enable(s) PROVE Copies'
  BY <1>0, <1>1 DEF Enable, TrustedIn
<1>2. CASE Disable
  BY <1>2 DEF Disable
<1>3. CASE RecoverOne
  BY <1>0, <1>3, Entry, NotTrusted DEF RecoverOne
<1>4. CASE Recovered
  BY <1>a, <1>4 DEF Recovered, Shape
<1>5. CASE Detect
  BY <1>a, <1>5 DEF Detect, Shape
<1>6. CASE BackUpOne
  <2>1. PICK n \in todo :
          \/ /\ bak' = With(bak, n, file[n])
             /\ file' = Without(file, n)
             /\ backed' = backed \cup {n}
             /\ UNCHANGED pc
          \/ pc' = "undo" /\ UNCHANGED <<file, bak, backed>>
    BY <1>6 DEF BackUpOne
  <2>2. Trusted(file[n]) /\ pc = "backup" /\ ~failed /\ UNCHANGED failed
    BY <1>a, <1>0, <1>6 DEF BackUpOne, Placed, Shape
  <2>3. CASE pc' = "undo" /\ UNCHANGED <<file, bak, backed>>
    BY <2>2, <2>3
  <2>4. CASE /\ bak' = With(bak, n, file[n]) /\ file' = Without(file, n)
             /\ backed' = backed \cup {n} /\ UNCHANGED pc
    BY <1>0, <2>2, <2>4, Entry, ConstantsAssumption
  <2> QED BY <2>1, <2>3, <2>4
<1>7. CASE BackedUp
  BY <1>7 DEF BackedUp
<1>8. CASE WriteConfig
  BY <1>0, <1>a, <1>8, Entry, NamesOfSnaps, ConstantsAssumption
     DEF WriteConfig, Write, Shape, EnableSteps
<1>9. CASE WriteFeed
  BY <1>0, <1>a, <1>9, Entry, NamesOfSnaps, ConstantsAssumption
     DEF WriteFeed, Write, Shape, EnableSteps
<1>10. CASE EnableUnit
  BY <1>10 DEF EnableUnit
<1>11. CASE DropOne
  BY <1>0, <1>11, Entry, NotTrusted DEF DropOne
<1>12. CASE Dropped
  BY <1>12 DEF Dropped
<1>13. CASE UndoWrite
  BY <1>0, <1>13, Entry, ConstantsAssumption DEF UndoWrite
<1>14. CASE UndoneWrites \/ Restored
  BY <1>14 DEF UndoneWrites, Restored
<1>15. CASE RestoreOne
  BY <1>0, <1>15, Entry, NotTrusted DEF RestoreOne
<1>16. CASE Compensate
  BY <1>a, <1>16 DEF Compensate, Shape
<1>17. CASE DetectForDisable \/ DisableUnit
  BY <1>a, <1>17 DEF DetectForDisable, DisableUnit, Shape, DisableSteps
<1>18. CASE Sweep
  <2>1. pc = "sweep" /\ pc' = "sweep"
    BY <1>18 DEF Sweep
  <2>2. PICK n \in todo \cup backed :
          /\ file' \in {file, Without(file, n)}
          /\ bak' \in {bak, Without(bak, n)}
    <3>1. CASE UNCHANGED <<bak, backed>>
      BY <1>18, <3>1 DEF Sweep
    <3>2. CASE ~UNCHANGED <<bak, backed>>
      BY <1>18, <3>2 DEF Sweep
    <3> QED BY <3>1, <3>2
  <2>3. \A m \in Names : /\ file'[m] \in {file[m], None}
                         /\ Trusted(bak'[m]) => Trusted(bak[m])
    BY <1>0, <2>2, Entry, NotTrusted
  <2> QED BY <2>1, <2>3
<1>19. CASE Swept
  BY <1>19 DEF Swept
<1>20. CASE Exit \/ Kill
  BY <1>20 DEF Exit, Kill, Vanish
<1>21. CASE UNCHANGED vars
  BY <1>21 DEF vars
<1> QED
  BY <1>1, <1>2, <1>3, <1>4, <1>5, <1>6, <1>7, <1>8, <1>9, <1>10, <1>11,
     <1>12, <1>13, <1>14, <1>15, <1>16, <1>17, <1>18, <1>19, <1>20, <1>21
     DEF Next, Operate, Recover, BackUp, Drop, Rollback

LEMMA CopiesInitially == Init => CopiesInv
<1> SUFFICES ASSUME Init PROVE CopiesInv
  OBVIOUS
<1>1. TypeInv
  BY TypeInitially
<1>2. Unit /\ Placed /\ Removed
  BY DEF Init, Idle, Unit, Late, UndoSteps, Placed, Removed
<1>3. \A n \in Names : ~Trusted(bak[n])
  BY Beginning
<1>4. pc = "idle"
  BY DEF Init, Idle
<1> QED
  BY <1>1, <1>2, <1>3, <1>4
     DEF CopiesInv, PlacedInv, UnitInv, Copies, Late, UndoSteps

LEMMA CopiesInvStep == ASSUME CopiesInv, [Next]_vars PROVE CopiesInv'
BY TypeStep, UnitStep, PlacedStep, RemovedStep, CopiesStep
   DEF CopiesInv, PlacedInv, UnitInv

----------------------------------------------------------------------------
(* No operation adds an entry of another owner, and none but a write over  *)
(* it, or the rollback of one, takes it away.                              *)
Writes == {"config", "feed", "undo"}

LEMMA ForeignStep ==
  ASSUME CopiesInv, [Next]_vars, NEW n \in Names
  PROVE  /\ file'[n] = Foreign => file[n] = Foreign
         /\ file[n] = Foreign /\ pc \notin Writes => file'[n] = Foreign
<1>0. /\ TypeInv /\ file \in Dirs /\ bak \in Dirs /\ backed \subseteq Names
      /\ todo \subseteq Names /\ written \subseteq Names
  BY Basics DEF CopiesInv, PlacedInv, UnitInv
<1>a. Placed /\ Shape /\ Copies /\ Removed
  BY DEF CopiesInv, PlacedInv, UnitInv, TypeInv
<1>1. CASE RecoverOne
  <2>1. PICK m \in backed :
          file' = file \/ (file[m] = None /\ file' = With(file, m, bak[m]))
    BY <1>1 DEF RecoverOne
  <2>2. Trusted(bak[m]) /\ m \in Names
    BY <1>0, <1>1, <1>a DEF RecoverOne, Copies
  <2> QED BY <1>0, <2>1, <2>2, Entry, ConstantsAssumption DEF Trusted
<1>2. CASE BackUpOne
  <2>1. PICK m \in todo : file' \in {file, Without(file, m)}
    BY <1>2 DEF BackUpOne
  <2>2. Trusted(file[m]) /\ m \in Names
    BY <1>0, <1>2, <1>a DEF BackUpOne, Placed
  <2> QED BY <1>0, <2>1, <2>2, Entry, ConstantsAssumption DEF Trusted
<1>3. CASE WriteConfig \/ WriteFeed
  <2>1. arg \in Snaps /\ pc \in Writes
    BY <1>3, <1>a DEF WriteConfig, WriteFeed, Write, Shape, EnableSteps,
       Writes
  <2>2. PICK m \in Names : file' \in {file, With(file, m, arg)}
    BY <1>3, <2>1, NamesOfSnaps DEF WriteConfig, WriteFeed, Write
  <2> QED BY <1>0, <2>1, <2>2, Entry, ConstantsAssumption
<1>4. CASE UndoWrite
  <2>1. PICK m \in Names : file' \in {file, Without(file, m)}
    BY <1>0, <1>4 DEF UndoWrite
  <2>2. pc \in Writes
    BY <1>4 DEF UndoWrite, Writes
  <2> QED BY <1>0, <2>1, <2>2, Entry, ConstantsAssumption
<1>5. CASE RestoreOne
  <2>1. PICK m \in backed : file' \in {file, With(file, m, bak[m])}
    BY <1>5 DEF RestoreOne
  <2>2. Trusted(bak[m]) /\ m \in Names
    BY <1>0, <1>5, <1>a DEF RestoreOne, Copies, Late, UndoSteps
  <2>3. file[m] \in Snaps \cup {None}
    BY <1>a, <2>2 DEF Copies
  <2> QED BY <1>0, <2>1, <2>2, <2>3, Entry, ConstantsAssumption DEF Trusted
<1>6. CASE Sweep
  <2>1. file' = file \/ \E m \in todo : file' = Without(file, m)
    BY <1>6 DEF Sweep
  <2>2. ASSUME NEW m \in todo, file' = Without(file, m)
        PROVE  /\ file'[n] = Foreign => file[n] = Foreign
               /\ file[n] = Foreign => file'[n] = Foreign
    <3>1. Trusted(file[m]) /\ m \in Names
      BY <1>0, <1>6, <1>a DEF Sweep, Removed
    <3> QED BY <1>0, <2>2, <3>1, Entry, ConstantsAssumption DEF Trusted
  <2> QED BY <2>1, <2>2
<1>7. CASE \/ \E s \in Snaps : Enable(s)
           \/ Disable \/ Recovered \/ Detect \/ BackedUp \/ EnableUnit
           \/ Drop \/ UndoneWrites \/ Restored \/ Compensate
           \/ DetectForDisable \/ DisableUnit \/ Swept \/ Exit \/ Kill
           \/ UNCHANGED vars
  <2>1. UNCHANGED file
    BY <1>7 DEF Enable, Disable, Recovered, Detect, BackedUp, EnableUnit,
       Drop, DropOne, Dropped, UndoneWrites, Restored, Compensate,
       DetectForDisable, DisableUnit, Swept, Exit, Kill, vars
  <2> QED BY <2>1
<1> QED
  BY <1>1, <1>2, <1>3, <1>4, <1>5, <1>6, <1>7
     DEF Next, Operate, Recover, BackUp, Rollback

(* From detection to the reply, those that are there were found there.     *)
Found ==
  pc \in {"backup", "config", "feed", "enable", "drop", "persisted"} =>
    \A n \in Names : file[n] = Foreign => before.file[n] = Foreign

LEMMA FoundStep == ASSUME CopiesInv, Found, [Next]_vars PROVE Found'
<1>1. \A n \in Names : file'[n] = Foreign => file[n] = Foreign
  BY ForeignStep
<1>2. CASE Detect
  BY <1>2 DEF Detect, Found
<1>3. CASE BackUp \/ WriteConfig \/ WriteFeed \/ EnableUnit \/ Drop
  <2>1. /\ UNCHANGED before
        /\ pc \in {"backup", "config", "feed", "enable", "drop"}
    BY <1>3 DEF BackUp, BackUpOne, BackedUp, WriteConfig, WriteFeed, Write,
       EnableUnit, Drop, DropOne, Dropped
  <2> QED BY <1>1, <2>1 DEF Found
<1>4. CASE UNCHANGED vars
  BY <1>4 DEF vars, Found
<1>5. CASE \/ \E s \in Snaps : Enable(s)
           \/ Disable \/ Recover \/ Rollback \/ DetectForDisable
           \/ DisableUnit \/ Sweep \/ Swept \/ Exit \/ Kill
  <2>1. pc' \notin {"backup", "config", "feed", "enable", "drop",
                    "persisted"}
    BY <1>5 DEF Enable, Disable, Recover, RecoverOne, Recovered, Rollback,
       UndoWrite, UndoneWrites, RestoreOne, Restored, Compensate,
       DetectForDisable, DisableUnit, Sweep, Swept, Exit, Kill, Vanish
  <2> QED BY <2>1 DEF Found
<1> QED
  BY <1>2, <1>3, <1>4, <1>5 DEF Next, Operate

(* A Persisted is true when it is replied, after any number of killed or   *)
(* refused operations, and whatever their leftovers are: all of the new    *)
(* snapshot is there, nothing older or newer of the applier's own, and no  *)
(* feed of another owner comes before it that the operation did not find.  *)
THEOREM PersistedBootsHolds == Spec => []PersistedBoots
<1>1. CopiesInv /\ Found => PersistedBoots
  <2> SUFFICES ASSUME CopiesInv, Found, pc = "persisted" PROVE PersistedBoots
    BY DEF PersistedBoots
  <2>1. /\ arg \in Snaps /\ Revision[arg] \in Nat
        /\ file[Config] = arg /\ file[Revision[arg]] = arg
        /\ \A n \in Feeds \ {Revision[arg]} : ~Trusted(file[n])
        /\ managed \/ enabled
    BY ConstantsAssumption
       DEF CopiesInv, PlacedInv, Placed, UnitInv, TypeInv, Shape
  <2>2. Whole(file, arg)
    BY <2>1 DEF Whole
  <2>3. Shadowed(file, arg) => Shadowed(before.file, arg)
    BY NamesOfSnaps DEF Found, Shadowed
  <2> QED BY <2>1, <2>2, <2>3 DEF PersistedBoots, Boots
<1>2. Init => CopiesInv /\ Found
  BY CopiesInitially DEF Init, Idle, Found
<1>3. CopiesInv /\ Found /\ [Next]_vars => (CopiesInv /\ Found)'
  BY CopiesInvStep, FoundStep
<1> QED BY <1>1, <1>2, <1>3, PTL DEF Spec

----------------------------------------------------------------------------
(* Nothing is lost: the config and a feed are there, and as .bak files     *)
(* from the time that the canonical names are written to.                  *)
Held(n) == Trusted(file[n]) \/ Trusted(bak[n])
There   == Held(Config) /\ \E n \in Feeds : Held(n)
Copied  == Trusted(bak[Config]) /\ \E n \in Feeds : Trusted(bak[n])

Kept ==
  /\ kept => There
  /\ kept /\ pc \in {"config", "feed", "enable"} => Copied
  /\ kept /\ pc = "undo" /\ written # {} => Copied
  /\ pc \in DisableSteps => ~kept

KeptInv == CopiesInv /\ Kept

(* A step that loses no entry keeps them.                                  *)
LEMMA HeldOn ==
  ASSUME There, \A n \in Names : Held(n) => Held(n)'
  PROVE  There'
BY NamesOfSnaps DEF There

LEMMA KeptStep == ASSUME KeptInv, [Next]_vars PROVE Kept'
<1> USE DEF KeptInv, Kept, DisableSteps
<1>0. /\ TypeInv /\ file \in Dirs /\ bak \in Dirs /\ backed \subseteq Names
      /\ todo \subseteq Names /\ written \subseteq Names
  BY Basics DEF CopiesInv, PlacedInv, UnitInv
<1>a. Placed /\ Shape /\ Copies
  BY DEF CopiesInv, PlacedInv, UnitInv, TypeInv
<1>b. ASSUME UNCHANGED <<file, bak>>
      PROVE  (There => There') /\ (Copied => Copied')
  BY <1>b DEF There, Copied, Held
<1>1. ASSUME NEW s \in Snaps, Enable(s) PROVE Kept'
  BY <1>1, <1>b DEF Enable
<1>2. CASE Disable
  BY <1>2 DEF Disable
<1>3. CASE RecoverOne
  <2>1. ASSUME NEW n \in Names, Held(n) PROVE Held(n)'
    BY <1>0, <1>3, <1>a, <2>1, Entry DEF RecoverOne, Copies, Held, Trusted
  <2> QED BY <1>3, <2>1, HeldOn DEF RecoverOne
<1>4. CASE Recovered \/ Detect
  BY <1>4, <1>b DEF Recovered, Detect
<1>5. CASE BackUpOne
  <2>1. ASSUME NEW n \in Names, Held(n) PROVE Held(n)'
    BY <1>0, <1>5, <1>a, <2>1, Entry DEF BackUpOne, Placed, Held
  <2>2. pc' = "backup" \/ (pc' = "undo" /\ written' = {})
    BY <1>5, <1>a DEF BackUpOne, Shape
  <2> QED BY <1>5, <2>1, <2>2, HeldOn DEF BackUpOne
<1>6. CASE BackedUp
  <2>1. \A n \in Names : ~Trusted(file[n])
    BY <1>6, <1>a DEF BackedUp, Placed
  <2>2. There => Copied
    BY <2>1, NamesOfSnaps DEF There, Copied, Held
  <2> QED BY <1>6, <1>b, <2>2 DEF BackedUp
<1>7. ASSUME WriteConfig \/ WriteFeed PROVE Kept'
  <2>1. kept => Copied
    BY <1>7 DEF WriteConfig, WriteFeed, Write
  <2>2. UNCHANGED bak
    BY <1>7 DEF WriteConfig, WriteFeed, Write
  <2>3. Copied => Copied' /\ There'
    BY <2>2 DEF Copied, There, Held
  <2> QED
    BY <1>7, <2>1, <2>3 DEF WriteConfig, WriteFeed, Write
<1>8. CASE EnableUnit
  <2>1. There
    BY <1>8, <1>a, NamesOfSnaps
       DEF EnableUnit, Placed, There, Held, Trusted, Shape, EnableSteps
  <2>2. There' /\ (kept => Copied')
    BY <1>8, <1>b, <2>1 DEF EnableUnit
  <2>3. pc' = "drop" \/ (pc' = "undo" /\ UNCHANGED kept)
    BY <1>8 DEF EnableUnit
  <2> QED BY <2>2, <2>3
<1>9. CASE DropOne
  <2>1. /\ Trusted(file[Config]) /\ Revision[arg] \in Feeds
        /\ Trusted(file[Revision[arg]])
    BY <1>9, <1>a, NamesOfSnaps
       DEF DropOne, Placed, Trusted, Shape, EnableSteps
  <2> QED BY <1>9, <2>1 DEF DropOne, There, Held
<1>10. CASE Dropped
  BY <1>10, <1>b DEF Dropped
<1>11. CASE UndoWrite
  <2>1. kept => Copied
    BY <1>11 DEF UndoWrite
  <2>2. UNCHANGED bak
    BY <1>11 DEF UndoWrite
  <2>3. Copied => Copied' /\ There'
    BY <2>2 DEF Copied, There, Held
  <2> QED BY <1>11, <2>1, <2>3 DEF UndoWrite
<1>12. CASE UndoneWrites \/ Restored \/ Compensate
  BY <1>12, <1>b DEF UndoneWrites, Restored, Compensate
<1>13. CASE RestoreOne
  <2>1. ASSUME NEW n \in Names, Held(n) PROVE Held(n)'
    BY <1>0, <1>13, <1>a, <2>1, Entry
       DEF RestoreOne, Copies, Late, UndoSteps, Held
  <2> QED BY <1>13, <2>1, HeldOn DEF RestoreOne
<1>14. CASE DetectForDisable \/ DisableUnit \/ Sweep \/ Swept
  <2>1. ~kept
    BY <1>14 DEF DetectForDisable, DisableUnit, Sweep, Swept
  <2>2. UNCHANGED kept
    BY <1>14 DEF DetectForDisable, DisableUnit, Sweep, Swept
  <2>3. pc' \in DisableSteps \cup {"unpersisted", "refused"}
    BY <1>14 DEF DetectForDisable, DisableUnit, Sweep, Swept
  <2> QED BY <2>1, <2>2, <2>3
<1>15. CASE Exit \/ Kill
  <2>1. UNCHANGED <<file, bak, kept>> /\ pc' = "idle"
    BY <1>15 DEF Exit, Kill, Vanish
  <2> QED BY <1>b, <2>1
<1>16. CASE UNCHANGED vars
  BY <1>16, <1>b DEF vars
<1> QED
  BY <1>1, <1>2, <1>3, <1>4, <1>5, <1>6, <1>7, <1>8, <1>9, <1>10, <1>11,
     <1>12, <1>13, <1>14, <1>15, <1>16
     DEF Next, Operate, Recover, BackUp, Drop, Rollback

LEMMA Keeps == Spec => []KeptInv
<1>1. Init => KeptInv
  BY CopiesInitially DEF Init, Idle, KeptInv, Kept, DisableSteps
<1>2. KeptInv /\ [Next]_vars => KeptInv'
  BY TypeStep, UnitStep, PlacedStep, RemovedStep, CopiesStep, KeptStep
     DEF KeptInv, CopiesInv, PlacedInv, UnitInv
<1> QED BY <1>1, <1>2, PTL DEF Spec

(* No kill and no failing call of any number of later EnablePersists       *)
(* destroys the last copy of a config and a feed.                          *)
THEOREM NothingLostHolds == Spec => []NothingLost
<1>1. KeptInv => NothingLost
  <2> SUFFICES ASSUME KeptInv, kept PROVE NothingLost
    BY DEF NothingLost
  <2>1. There
    BY DEF KeptInv, Kept
  <2>2. Config \in TrustedIn(file) \cup TrustedIn(bak)
    BY <2>1, NamesOfSnaps DEF There, Held, TrustedIn
  <2>3. PICK n \in Feeds : Held(n)
    BY <2>1 DEF There
  <2>4. n \in TrustedIn(file) \cup TrustedIn(bak)
    BY <2>3, NamesOfSnaps DEF Held, TrustedIn
  <2> QED BY <2>2, <2>3, <2>4 DEF NothingLost
<1> QED BY <1>1, Keeps, PTL

----------------------------------------------------------------------------
(* The rollback, name by name: an entry that was backed up is as before in *)
(* its .bak, any other is as before, or was written and is to be removed.  *)
Same(n) == Trusted(file[n]) \/ Trusted(before.file[n]) =>
             file[n] = before.file[n]
Moved(n) == bak[n] = before.file[n] /\ ~Trusted(file[n])

Faithful ==
  /\ pc \in {"ddetect", "disable"} => file = before.file
  /\ pc = "backup" =>
       \A n \in Names :
         IF n \in backed THEN Moved(n) ELSE file[n] = before.file[n]
  /\ pc \in {"config", "feed", "enable"} =>
       \A n \in Names :
         /\ n \in backed => bak[n] = before.file[n]
         /\ n \notin backed => ~Trusted(before.file[n])
         /\ Trusted(file[n]) => n \in written
  /\ pc = "undo" /\ ~failed =>
       \A n \in Names :
         /\ n \in backed => bak[n] = before.file[n]
         /\ n \in backed /\ Trusted(file[n]) => n \in written
         /\ n \notin backed /\ n \in written => ~Trusted(before.file[n])
         /\ n \notin backed /\ n \notin written => Same(n)
  /\ pc = "restore" /\ ~failed =>
       \A n \in Names : IF n \in backed THEN Moved(n) ELSE Same(n)
  /\ pc \in {"compensate", "refused"} /\ ~failed => \A n \in Names : Same(n)

FaithfulInv == KeptInv /\ Faithful

LEMMA FaithfulStep == ASSUME FaithfulInv, [Next]_vars PROVE Faithful'
<1> USE DEF Faithful, Moved, Same
<1>0. /\ TypeInv /\ file \in Dirs /\ bak \in Dirs /\ backed \subseteq Names
      /\ todo \subseteq Names /\ written \subseteq Names
  BY Basics DEF FaithfulInv, KeptInv, CopiesInv, PlacedInv, UnitInv
<1>a. Placed /\ Shape /\ Copies /\ Faithful
  BY DEF FaithfulInv, KeptInv, CopiesInv, PlacedInv, UnitInv, TypeInv
<1>1. ASSUME NEW s \in Snaps, Enable(s) PROVE Faithful'
  BY <1>1 DEF Enable
<1>2. CASE Disable
  BY <1>2 DEF Disable
<1>3. CASE Recover
  BY <1>3 DEF Recover, RecoverOne, Recovered
<1>4. CASE Detect
  BY <1>a, <1>4 DEF Detect, Shape
<1>5. CASE BackUpOne
  BY <1>0, <1>a, <1>5, Entry, NotTrusted DEF BackUpOne, Placed, Shape
<1>6. CASE BackedUp
  BY <1>a, <1>6 DEF BackedUp, Placed
<1>7. CASE WriteConfig
  BY <1>0, <1>a, <1>7, Entry, NamesOfSnaps DEF WriteConfig, Write
<1>8. CASE WriteFeed
  <2>1. arg \in Snaps /\ Revision[arg] \in Names
    BY <1>a, <1>8, NamesOfSnaps DEF WriteFeed, Write, Shape, EnableSteps
  <2>2. CASE /\ pc' = "enable" /\ file' = With(file, Revision[arg], arg)
             /\ written' = written \cup {Revision[arg]}
    <3>1. \A m \in Names :
            file'[m] = IF m = Revision[arg] THEN arg ELSE file[m]
      BY <1>0, <2>1, <2>2, Entry
    <3> QED
      BY <1>a, <1>8, <2>2, <3>1 DEF WriteFeed, Write
  <2>3. CASE pc' = "undo" /\ UNCHANGED <<file, written>>
    BY <1>a, <1>8, <2>3 DEF WriteFeed, Write
  <2> QED BY <1>8, <2>2, <2>3 DEF WriteFeed, Write
<1>9. CASE EnableUnit
  BY <1>a, <1>9 DEF EnableUnit
<1>10. CASE Drop
  BY <1>10 DEF Drop, DropOne, Dropped
<1>11. CASE UndoWrite
  BY <1>0, <1>a, <1>11, Entry, NotTrusted DEF UndoWrite
<1>12. CASE UndoneWrites
  BY <1>a, <1>12 DEF UndoneWrites
<1>13. CASE RestoreOne
  BY <1>0, <1>a, <1>13, Entry, NotTrusted DEF RestoreOne
<1>14. CASE Restored
  BY <1>a, <1>14 DEF Restored
<1>15. CASE Compensate
  BY <1>a, <1>15 DEF Compensate
<1>16. CASE DetectForDisable
  BY <1>a, <1>16 DEF DetectForDisable
<1>17. CASE DisableUnit
  BY <1>a, <1>17 DEF DisableUnit
<1>18. CASE Sweep \/ Swept
  BY <1>a, <1>18 DEF Sweep, Swept
<1>19. CASE Exit \/ Kill
  BY <1>19 DEF Exit, Kill, Vanish
<1>20. CASE UNCHANGED vars
  BY <1>a, <1>20 DEF vars
<1> QED
  BY <1>1, <1>2, <1>3, <1>4, <1>5, <1>6, <1>7, <1>8, <1>9, <1>10, <1>11,
     <1>12, <1>13, <1>14, <1>15, <1>16, <1>17, <1>18, <1>19, <1>20
     DEF Next, Operate, BackUp, Rollback

LEMMA Faiths == Spec => []FaithfulInv
<1>1. Init => FaithfulInv
  BY CopiesInitially
     DEF Init, Idle, FaithfulInv, KeptInv, Kept, DisableSteps, Faithful
<1>2. FaithfulInv /\ [Next]_vars => FaithfulInv'
  BY TypeStep, UnitStep, PlacedStep, RemovedStep, CopiesStep, KeptStep,
     FaithfulStep
     DEF FaithfulInv, KeptInv, CopiesInv, PlacedInv, UnitInv
<1> QED BY <1>1, <1>2, PTL DEF Spec

(* A refused operation that reports no failure of its own rollback put     *)
(* everything back, whichever call failed.                                 *)
THEOREM RefusedRestoresHolds == Spec => []RefusedRestores
<1>1. FaithfulInv => RefusedRestores
  <2> SUFFICES ASSUME FaithfulInv, pc = "refused", ~failed
               PROVE  RefusedRestores
    BY DEF RefusedRestores
  <2>1. Unit /\ Copies /\ Faithful /\ Shape /\ TypeOK
    BY DEF FaithfulInv, KeptInv, CopiesInv, PlacedInv, UnitInv, TypeInv
  <2>2. \A n \in Names : Same(n)
    BY <2>1 DEF Faithful
  <2>3. /\ TrustedIn(file) = TrustedIn(before.file)
        /\ \A n \in TrustedIn(file) : file[n] = before.file[n]
    BY <2>2 DEF Same, TrustedIn
  <2>4. arg # None => TrustedIn(bak) = {}
    BY <2>1 DEF Copies, TrustedIn
  <2>5. before \in Pasts
    BY <2>1 DEF Shape
  <2>6. ASSUME arg # None, ~Undetermined
        PROVE  enabled = before.enabled
    <3>1. CASE ~here \/ ~ran
      BY <2>1, <2>6, <3>1 DEF Unit
    <3>2. CASE prior = "on" /\ ~managed
      BY <2>1, <2>5, <2>6, <3>2 DEF Unit, Pasts, TypeOK
    <3>3. CASE prior = "off"
      BY <2>1, <2>5, <2>6, <3>3 DEF Unit, Pasts, TypeOK
    <3> QED BY <2>1, <2>6, <3>1, <3>2, <3>3 DEF TypeOK, Undetermined
  <2> QED BY <2>3, <2>4, <2>6 DEF RefusedRestores
<1> QED BY <1>1, Faiths, PTL

----------------------------------------------------------------------------
(* While nothing has gone wrong that nobody undid, no .bak is left behind  *)
(* and an enabled unit has a snapshot: in place between operations, among  *)
(* the entries before during one that can still be refused.                *)
Good(dir) == \E s \in Snaps : Whole(dir, s)

Clear == \A n \in Names : ~Trusted(bak[n])

Refusable == Late \cup {"ddetect", "disable"}

Sound ==
  intact =>
    /\ pc \in {"idle", "recover", "detect", "ddetect", "disable"} => Clear
    /\ pc \in {"idle", "recover", "detect"} => (enabled => Good(file))
    /\ pc \in Refusable => (before.enabled => Good(before.file))
    /\ pc = "refused" /\ ~failed =>
         Clear /\ (before.enabled => Good(before.file))

SoundInv == FaithfulInv /\ Sound

(* Directories that agree on what is trusted are as good as each other.    *)
LEMMA GoodAlike ==
  ASSUME NEW dir \in Dirs, Good(dir),
         \A n \in Names : Trusted(file[n]) \/ Trusted(dir[n]) =>
                            file[n] = dir[n]
  PROVE  Good(file)
<1>1. PICK s \in Snaps :
        /\ dir[Config] = s /\ dir[Revision[s]] = s
        /\ \A n \in Feeds : n > Revision[s] => ~Trusted(dir[n])
  BY DEF Good, Whole
<1>2. Revision[s] \in Names /\ Config \in Names /\ Feeds \subseteq Names
  BY NamesOfSnaps
<1>3. file[Config] = s /\ file[Revision[s]] = s
  BY <1>1, <1>2 DEF Trusted
<1>4. \A n \in Feeds : n > Revision[s] => ~Trusted(file[n])
  BY <1>1, <1>2 DEF Trusted
<1> QED BY <1>3, <1>4 DEF Good, Whole

LEMMA SoundExit == ASSUME SoundInv, Exit PROVE Sound'
<1>1. /\ Unit /\ Placed /\ Removed /\ Copies /\ Faithful /\ Shape /\ Sound
      /\ TypeOK
  BY DEF SoundInv, FaithfulInv, KeptInv, CopiesInv, PlacedInv, UnitInv,
     TypeInv
<1>2. pc' = "idle" /\ UNCHANGED <<file, bak, managed, enabled>>
  BY DEF Exit, Vanish
<1>3. SUFFICES ASSUME intact' PROVE Clear /\ (enabled => Good(file))
  BY <1>2 DEF Sound, Clear, Good, Refusable, Late, UndoSteps
<1>4. CASE pc = "persisted"
  <2>1. Clear
    BY <1>3, <1>4 DEF Exit, Clear, TrustedIn
  <2>2. /\ arg \in Snaps /\ file[Config] = arg /\ file[Revision[arg]] = arg
        /\ \A n \in Feeds \ {Revision[arg]} : ~Trusted(file[n])
    BY <1>1, <1>4 DEF Shape, Placed
  <2>3. Revision[arg] \in Nat
    BY <2>2, ConstantsAssumption
  <2> QED BY <2>1, <2>2, <2>3 DEF Good, Whole
<1>5. CASE pc = "unpersisted"
  <2>1. Clear
    BY <1>1, <1>5 DEF Removed, Clear
  <2>2. ~enabled
    BY <1>1, <1>3, <1>5 DEF Exit, Unit
  <2> QED BY <2>1, <2>2
<1>6. CASE pc = "refused"
  <2>1. /\ intact /\ ~failed
        /\ ~(ran /\ here /\ (managed \/ prior = "unknown"))
    BY <1>3, <1>6 DEF Exit, Undetermined
  <2>2. Clear /\ (before.enabled => Good(before.file))
    BY <1>1, <1>6, <2>1 DEF Sound
  <2>3. before \in Pasts
    BY <1>1, <1>6, <2>1 DEF Shape
  <2>4. enabled => before.enabled
    <3>1. CASE arg = None
      BY <1>1, <1>6, <2>1, <3>1 DEF Unit
    <3>2. CASE arg # None /\ prior = "unknown"
      BY <1>1, <1>6, <2>1, <2>3, <3>2 DEF Unit
    <3>3. CASE arg # None /\ prior # "unknown"
      BY <1>1, <1>6, <2>1, <3>3 DEF Unit, TypeOK
    <3> QED BY <3>1, <3>2, <3>3
  <2>5. \A n \in Names : Same(n)
    BY <1>1, <1>6, <2>1 DEF Faithful
  <2> QED BY <2>2, <2>3, <2>4, <2>5, GoodAlike DEF Same, Pasts
<1> QED BY <1>4, <1>5, <1>6 DEF Exit, Replies

(* No recovery has anything to do before something went wrong.             *)
LEMMA NothingToRecover ==
  ASSUME SoundInv, RecoverOne
  PROVE  ~intact /\ UNCHANGED intact
<1>1. Copies /\ Sound /\ TypeInv
  BY DEF SoundInv, FaithfulInv, KeptInv, CopiesInv, PlacedInv, UnitInv
<1>2. PICK n \in backed : TRUE
  BY DEF RecoverOne
<1>3. pc = "recover" /\ Trusted(bak[n]) /\ n \in Names
  BY <1>1, <1>2, Basics DEF RecoverOne, Copies
<1> QED BY <1>1, <1>3 DEF RecoverOne, Sound, Clear

LEMMA SoundStep == ASSUME SoundInv, [Next]_vars PROVE Sound'
<1>0. /\ Unit /\ Placed /\ Copies /\ Shape /\ Sound
  BY DEF SoundInv, FaithfulInv, KeptInv, CopiesInv, PlacedInv, UnitInv,
     TypeInv
<1> USE DEF Sound, Refusable, Late, UndoSteps
<1>a. ASSUME UNCHANGED file, Good(file) PROVE Good(file)'
  BY <1>a DEF Good
<1>b. ASSUME UNCHANGED before, before.enabled => Good(before.file)
      PROVE  (before.enabled => Good(before.file))'
  BY <1>b DEF Good
<1>c. ASSUME UNCHANGED bak, Clear PROVE Clear'
  BY <1>c DEF Clear
<1>1. ASSUME NEW s \in Snaps, Enable(s) PROVE Sound'
  BY <1>0, <1>1, <1>a, <1>c DEF Enable
<1>2. CASE Disable
  <2>1. before'.enabled = enabled /\ before'.file = file /\ pc' = "ddetect"
          /\ pc = "idle" /\ UNCHANGED <<bak, intact>>
    BY <1>2 DEF Disable
  <2>2. Good(file) => Good(before.file)'
    BY <2>1 DEF Good
  <2> QED BY <1>0, <2>1, <2>2, <1>c
<1>3. CASE Recover
  <2>1. CASE RecoverOne
    BY <2>1, NothingToRecover
  <2>2. CASE Recovered
    BY <1>0, <1>a, <1>c, <2>2 DEF Recovered
  <2> QED BY <1>3, <2>1, <2>2 DEF Recover
<1>4. CASE Detect
  <2>1. /\ before'.enabled = enabled /\ before'.file = file
        /\ pc = "detect" /\ pc' \in {"backup", "refused"}
        /\ UNCHANGED <<bak, intact>>
    BY <1>4 DEF Detect
  <2>2. Good(file) => Good(before.file)'
    BY <2>1 DEF Good
  <2> QED BY <1>0, <2>1, <2>2, <1>c
<1>5. CASE BackUp \/ WriteConfig \/ WriteFeed \/ UndoWrite \/ UndoneWrites
             \/ RestoreOne \/ Restored
  <2>1. /\ pc \in Late /\ pc' \in Late /\ UNCHANGED <<before, intact>>
    BY <1>5 DEF BackUp, BackUpOne, BackedUp, WriteConfig, WriteFeed, Write,
       UndoWrite, UndoneWrites, RestoreOne, Restored
  <2> QED BY <1>0, <1>b, <2>1
<1>6. CASE EnableUnit
  <2>1. /\ pc \in Late /\ pc' \in {"drop", "undo"}
        /\ UNCHANGED <<before, intact>>
    BY <1>6 DEF EnableUnit
  <2> QED BY <1>0, <1>b, <2>1
<1>7. CASE Drop
  <2>1. pc' \in {"drop", "persisted"}
    BY <1>7 DEF Drop, DropOne, Dropped
  <2> QED BY <2>1
<1>8. CASE Compensate
  <2>1. /\ pc = "compensate" /\ pc' = "refused"
        /\ UNCHANGED <<bak, backed, before, intact>>
        /\ ~failed' => ~failed
    BY <1>8 DEF Compensate
  <2>2. ~failed' => Clear
    BY <1>0, <2>1 DEF Copies, Shape, Clear
  <2> QED BY <1>0, <1>b, <1>c, <2>1, <2>2
<1>9. CASE DetectForDisable
  <2>1. /\ pc = "ddetect" /\ pc' \in {"disable", "refused"}
        /\ UNCHANGED <<bak, before, intact>>
    BY <1>9 DEF DetectForDisable
  <2> QED BY <1>0, <1>b, <1>c, <2>1
<1>10. CASE DisableUnit
  <2>1. /\ pc = "disable" /\ pc' \in {"sweep", "refused"}
        /\ UNCHANGED <<bak, before, intact>>
    BY <1>10 DEF DisableUnit
  <2> QED BY <1>0, <1>b, <1>c, <2>1
<1>11. CASE Sweep \/ Swept
  <2>1. pc' \in {"sweep", "unpersisted"} \/ (pc' = "refused" /\ failed')
    BY <1>11 DEF Sweep, Swept
  <2> QED BY <2>1
<1>12. CASE Exit
  BY <1>12, SoundExit
<1>13. CASE Kill
  BY <1>13 DEF Kill
<1>14. CASE UNCHANGED vars
  BY <1>0, <1>14, <1>a, <1>b, <1>c DEF vars
<1> QED
  BY <1>1, <1>2, <1>3, <1>4, <1>5, <1>6, <1>7, <1>8, <1>9, <1>10, <1>11,
     <1>12, <1>13, <1>14
     DEF Next, Operate, Rollback

LEMMA SoundInitially == Init => SoundInv
<1> SUFFICES ASSUME Init PROVE SoundInv
  OBVIOUS
<1>1. FaithfulInv
  BY CopiesInitially
     DEF Init, Idle, FaithfulInv, KeptInv, Kept, DisableSteps, Faithful
<1>2. pc = "idle" /\ ~enabled /\ Clear
  BY Beginning DEF Init, Idle, Clear
<1> QED BY <1>1, <1>2 DEF SoundInv, Sound, Refusable, Late, UndoSteps

LEMMA SoundInvStep == ASSUME SoundInv, [Next]_vars PROVE SoundInv'
BY TypeStep, UnitStep, PlacedStep, RemovedStep, CopiesStep, KeptStep,
   FaithfulStep, SoundStep
   DEF SoundInv, FaithfulInv, KeptInv, CopiesInv, PlacedInv, UnitInv

LEMMA Sounds == Spec => []SoundInv
BY SoundInitially, SoundInvStep, PTL DEF Spec

(* An enabled unit has a whole snapshot to boot from, after any number of  *)
(* refused operations; and after a kill, from the next Persisted on again. *)
(* Only another owner's newer feed can come before the one of it.          *)
THEOREM EnabledBootsHolds == Spec => []EnabledBoots
<1>1. SoundInv => EnabledBoots
  BY DEF SoundInv, Sound, EnabledBoots, Good, Boots
<1> QED BY <1>1, Sounds, PTL

----------------------------------------------------------------------------
(* The promise.  What a directory holds, and what may be told of it from   *)
(* the entries it shares with another.                                     *)
Entire(dir) == Content(dir) # Foreign

LEMMA ContentIs ==
  ASSUME NEW dir
  PROVE  /\ Content(dir) \in Snaps \cup {None, Foreign}
         /\ Content(dir) \in Snaps =>
              /\ Whole(dir, Content(dir))
              /\ dir[Config] = Content(dir)
         /\ \A s \in Snaps : Whole(dir, s) => Content(dir) = s
         /\ (\A n \in Names : ~Trusted(dir[n])) => Content(dir) = None
         /\ Trusted(dir[Config]) /\ Entire(dir) => Content(dir) = dir[Config]
<1>1. CASE Trusted(dir[Config]) /\ Whole(dir, dir[Config])
  <2>1. Content(dir) = dir[Config]
    BY <1>1, NamesOfSnaps DEF Content, TrustedIn
  <2> QED
    BY <1>1, <2>1, NamesOfSnaps DEF Trusted, Whole
<1>2. CASE ~(Trusted(dir[Config]) /\ Whole(dir, dir[Config]))
  <2>1. Content(dir) = IF TrustedIn(dir) = {} THEN None ELSE Foreign
    BY <1>2 DEF Content
  <2>2. \A s \in Snaps : ~Whole(dir, s)
    BY <1>2 DEF Whole, Trusted
  <2>3. (\A n \in Names : ~Trusted(dir[n])) <=> TrustedIn(dir) = {}
    BY DEF TrustedIn
  <2> QED
    BY <2>1, <2>2, <2>3, NamesOfSnaps, ConstantsAssumption DEF Entire
<1> QED BY <1>1, <1>2

LEMMA ContentAlike ==
  ASSUME NEW one, NEW other,
         \A n \in Names : Trusted(one[n]) \/ Trusted(other[n]) =>
                            one[n] = other[n]
  PROVE  Content(one) = Content(other)
<1>1. TrustedIn(one) = TrustedIn(other)
  BY DEF TrustedIn
<1>2. /\ Trusted(one[Config]) <=> Trusted(other[Config])
      /\ Trusted(one[Config]) => one[Config] = other[Config]
  BY NamesOfSnaps
<1>3. \A s \in Snaps : Whole(one, s) <=> Whole(other, s)
  BY NamesOfSnaps DEF Whole, Trusted
<1> QED BY <1>1, <1>2, <1>3 DEF Content, Trusted

(* A mixture of a whole directory and of a new snapshot is one of the two, *)
(* or none.                                                                *)
LEMMA ContentMixed ==
  ASSUME NEW dir, NEW old, NEW new, Entire(old),
         \A n \in Names : Trusted(dir[n]) => dir[n] \in {old[n], new}
  PROVE  Content(dir) \in {Content(old), new, None, Foreign}
<1>1. CASE Content(dir) \in Snaps /\ Content(dir) # new
  <2>1. dir[Config] = Content(dir) /\ Trusted(dir[Config])
    BY <1>1, ContentIs DEF Trusted
  <2>2. old[Config] = dir[Config]
    BY <1>1, <2>1, NamesOfSnaps
  <2> QED BY <2>1, <2>2, ContentIs
<1> QED BY <1>1, ContentIs

(* Where the entries of an operation come from, what is whole before it,   *)
(* and what it may have done to the unit.                                  *)
Traced ==
  pc \in Late \cup DisableSteps =>
    \A n \in Names :
      /\ Trusted(file[n]) => file[n] \in {before.file[n], arg}
      /\ pc \in Late => (Trusted(bak[n]) => bak[n] = before.file[n])

Wholly ==
  intact =>
    /\ pc \in {"idle", "recover", "detect"} => Entire(file)
    /\ pc \in Refusable \cup {"sweep"} => Entire(before.file)
    /\ pc = "refused" /\ ~failed => Entire(before.file)

Meddled ==
  /\ pc \in Late => (before.enabled => enabled)
  /\ ~here => Can("absent") \/ Can("misread")
  /\ pc \in DisableSteps => ~ran

StoreInv == SoundInv /\ Traced /\ Wholly /\ Meddled

LEMMA SoundParts ==
  ASSUME SoundInv
  PROVE  /\ TypeInv /\ TypeOK /\ Shape /\ Unit /\ Placed /\ Removed /\ Copies
         /\ Faithful /\ Sound
         /\ file \in Dirs /\ bak \in Dirs /\ arg \in Contents
         /\ todo \subseteq Names /\ backed \subseteq Names
         /\ written \subseteq Names
BY Basics DEF SoundInv, FaithfulInv, KeptInv, CopiesInv, PlacedInv, UnitInv,
   TypeInv

LEMMA TracedStep == ASSUME SoundInv, Traced, [Next]_vars PROVE Traced'
<1>0. /\ Shape /\ Copies /\ Faithful
      /\ file \in Dirs /\ bak \in Dirs /\ backed \subseteq Names
      /\ todo \subseteq Names /\ written \subseteq Names
  BY SoundParts
<1> USE DEF Traced, Late, UndoSteps, DisableSteps
<1>1. ASSUME (\E s \in Snaps : Enable(s)) \/ Recover PROVE Traced'
  BY <1>1 DEF Enable, Recover, RecoverOne, Recovered
<1>2. CASE Disable
  BY <1>2 DEF Disable
<1>3. CASE Detect
  BY <1>0, <1>3 DEF Detect, Copies
<1>4. CASE BackUpOne
  <2>1. pc = "backup" /\ \A n \in Names : Trusted(file[n]) =>
                                            file[n] = before.file[n]
    BY <1>0, <1>4, NotTrusted DEF BackUpOne, Faithful, Moved
  <2> QED BY <1>0, <1>4, <2>1, Entry, NotTrusted DEF BackUpOne
<1>5. CASE BackedUp \/ EnableUnit \/ UndoneWrites \/ Restored
  BY <1>5 DEF BackedUp, EnableUnit, UndoneWrites, Restored
<1>6. CASE WriteConfig
  BY <1>0, <1>6, Entry, NamesOfSnaps DEF WriteConfig, Write
<1>7. CASE WriteFeed
  <2>1. Revision[arg] \in Names
    BY <1>0, <1>7, NamesOfSnaps DEF WriteFeed, Write, Shape, EnableSteps
  <2> QED BY <1>0, <1>7, <2>1, Entry DEF WriteFeed, Write
<1>8. CASE Drop \/ Compensate \/ Swept \/ Exit \/ Kill
  BY <1>8 DEF Drop, DropOne, Dropped, Compensate, Swept, Exit, Kill, Vanish
<1>9. CASE UndoWrite
  BY <1>0, <1>9, Entry, NotTrusted DEF UndoWrite
<1>10. CASE RestoreOne
  BY <1>0, <1>10, Entry, NotTrusted DEF RestoreOne, Copies
<1>11. CASE DetectForDisable \/ DisableUnit
  BY <1>11 DEF DetectForDisable, DisableUnit
<1>12. CASE Sweep
  BY <1>0, <1>12, Entry, NotTrusted DEF Sweep
<1>13. CASE UNCHANGED vars
  BY <1>13 DEF vars
<1> QED
  BY <1>1, <1>2, <1>3, <1>4, <1>5, <1>6, <1>7, <1>8, <1>9, <1>10, <1>11,
     <1>12, <1>13
     DEF Next, Operate, BackUp, Rollback

LEMMA WhollyStep == ASSUME SoundInv, Wholly, [Next]_vars PROVE Wholly'
<1>0. Shape /\ Placed /\ Removed /\ Faithful
  BY SoundParts
<1> USE DEF Wholly, Refusable, Late, UndoSteps
<1>a. ASSUME UNCHANGED file, Entire(file) PROVE Entire(file)'
  BY <1>a DEF Entire, Content, TrustedIn, Whole
<1>b. ASSUME UNCHANGED before, Entire(before.file) PROVE Entire(before.file)'
  BY <1>b DEF Entire, Content, TrustedIn, Whole
<1>c. ASSUME before'.file = file, Entire(file) PROVE Entire(before.file)'
  BY <1>c DEF Entire, Content, TrustedIn, Whole
<1>1. ASSUME (\E s \in Snaps : Enable(s)) \/ Recovered PROVE Wholly'
  BY <1>1, <1>a DEF Enable, Recovered
<1>2. CASE Disable \/ Detect
  <2>1. /\ pc \in {"idle", "detect"}
        /\ pc' \in {"ddetect", "backup", "refused"}
        /\ before'.file = file /\ UNCHANGED intact
    BY <1>2 DEF Disable, Detect
  <2> QED BY <1>c, <2>1
<1>3. CASE RecoverOne
  BY <1>3, NothingToRecover
<1>4. CASE BackUp \/ WriteConfig \/ WriteFeed \/ EnableUnit \/ Rollback
  <2>1. /\ pc \in Late /\ pc' \in Late \cup {"drop", "refused"}
        /\ UNCHANGED <<before, intact>>
    BY <1>4 DEF BackUp, BackUpOne, BackedUp, WriteConfig, WriteFeed, Write,
       EnableUnit, Rollback, UndoWrite, UndoneWrites, RestoreOne, Restored,
       Compensate
  <2> QED BY <1>b, <2>1
<1>5. CASE Drop
  BY <1>5 DEF Drop, DropOne, Dropped
<1>6. CASE DetectForDisable \/ DisableUnit \/ Sweep \/ Swept
  <2>1. /\ pc \in {"ddetect", "disable", "sweep"}
        /\ pc' \in {"disable", "sweep", "unpersisted", "refused"}
        /\ UNCHANGED <<before, intact>>
    BY <1>6 DEF DetectForDisable, DisableUnit, Sweep, Swept
  <2> QED BY <1>b, <2>1
<1>7. CASE Exit
  <2>1. pc' = "idle" /\ UNCHANGED file
    BY <1>7 DEF Exit, Vanish
  <2>2. SUFFICES ASSUME intact' PROVE Entire(file)
    BY <1>a, <2>1
  <2>3. CASE pc = "persisted"
    <3>1. arg \in Snaps /\ Whole(file, arg)
      BY <1>0, <2>3, NamesOfSnaps DEF Shape, Placed, Whole
    <3> QED BY <3>1, ContentIs, ConstantsAssumption DEF Entire
  <2>4. CASE pc = "unpersisted"
    <3>1. \A n \in Names : ~Trusted(file[n])
      BY <1>0, <2>4 DEF Removed
    <3> QED BY <3>1, ContentIs, ConstantsAssumption DEF Entire
  <2>5. CASE pc = "refused"
    <3>1. Entire(before.file) /\ \A n \in Names : Same(n)
      BY <1>0, <1>7, <2>2, <2>5 DEF Exit, Faithful
    <3> QED BY <3>1, ContentAlike DEF Entire, Same
  <2> QED BY <1>7, <2>3, <2>4, <2>5 DEF Exit, Replies
<1>8. CASE Kill
  BY <1>8 DEF Kill
<1>9. CASE UNCHANGED vars
  BY <1>9, <1>a, <1>b DEF vars
<1> QED
  BY <1>1, <1>2, <1>3, <1>4, <1>5, <1>6, <1>7, <1>8, <1>9
     DEF Next, Operate, Recover

LEMMA MeddledStep == ASSUME SoundInv, Meddled, [Next]_vars PROVE Meddled'
<1>0. TypeOK /\ Shape /\ Unit
  BY SoundParts
<1> USE DEF Meddled, Late, UndoSteps, DisableSteps
<1>1. ASSUME (\E s \in Snaps : Enable(s)) \/ Disable PROVE Meddled'
  BY <1>0, <1>1 DEF Enable, Disable, Shape
<1>2. CASE Recover \/ Drop
  BY <1>2 DEF Recover, RecoverOne, Recovered, Drop, DropOne, Dropped
<1>3. CASE Detect
  BY <1>3 DEF Detect
<1>4. CASE BackUp \/ WriteConfig \/ WriteFeed
  BY <1>4 DEF BackUp, BackUpOne, BackedUp, WriteConfig, WriteFeed, Write
<1>5. CASE EnableUnit
  BY <1>5 DEF EnableUnit
<1>6. CASE Rollback
  BY <1>6 DEF Rollback, UndoWrite, UndoneWrites, RestoreOne, Restored,
     Compensate
<1>7. CASE DetectForDisable
  BY <1>7 DEF DetectForDisable
<1>8. CASE DisableUnit \/ Sweep \/ Swept
  <2>1. /\ pc \in DisableSteps /\ UNCHANGED ran
        /\ ~here' => ~here \/ Can("misread")
        /\ pc' \in {"sweep", "unpersisted", "refused"}
    BY <1>8 DEF DisableUnit, Sweep, Swept
  <2> QED BY <2>1
<1>9. CASE Exit \/ Kill
  BY <1>9 DEF Exit, Kill, Vanish
<1>10. CASE UNCHANGED vars
  BY <1>10 DEF vars
<1> QED
  BY <1>1, <1>2, <1>3, <1>4, <1>5, <1>6, <1>7, <1>8, <1>9, <1>10
     DEF Next, Operate

LEMMA Stores == Spec => []StoreInv
<1>1. Init => StoreInv
  <2> SUFFICES ASSUME Init PROVE StoreInv
    OBVIOUS
  <2>1. pc = "idle" /\ here
    BY DEF Init, Idle
  <2>2. Entire(file)
    BY Beginning, ContentIs, ConstantsAssumption DEF Entire
  <2> QED
    BY <2>1, <2>2, SoundInitially
       DEF StoreInv, Traced, Wholly, Meddled, Refusable, Late, UndoSteps,
           DisableSteps
<1>2. StoreInv /\ [Next]_vars => StoreInv'
  BY SoundInvStep, TracedStep, WhollyStep, MeddledStep DEF StoreInv
<1> QED BY <1>1, <1>2, PTL DEF Spec

(* How Snapshot sees each step of an operation.                            *)
View ==
  /\ pc \in Late =>
       /\ Stored = Content(before.file) /\ UnitOn = before.enabled
       /\ (Sure <=> intact) /\ Phase = "persist"
  /\ pc \in {"recover", "detect"} =>
       /\ Stored = Content(file) /\ UnitOn = enabled
       /\ (Sure <=> intact) /\ Phase = "persist"
  /\ pc = "drop" =>
       /\ Stored = arg /\ UnitOn = enabled
       /\ (Sure <=> intact) /\ Phase = "persisted"
  /\ pc \in {"ddetect", "disable"} =>
       /\ Stored = Content(file) /\ UnitOn = enabled
       /\ (Sure <=> intact) /\ Phase = "unpersist"
  /\ pc = "sweep" =>
       /\ Stored = Content(before.file) /\ UnitOn = enabled
       /\ (Sure <=> intact) /\ Phase = "unpersist"
  /\ pc \in {"idle", "persisted", "unpersisted"} =>
       /\ Stored = Content(file) /\ UnitOn = enabled
       /\ (Sure <=> intact) /\ Phase = pc
  /\ pc = "refused" =>
       /\ Stored = Content(file) /\ UnitOn = enabled
       /\ (Sure <=> intact /\ ~(failed \/ Undetermined))
       /\ Phase = IF failed THEN "broken" ELSE "refused"

LEMMA Views == View /\ View'
<1>1. View
  <2> USE DEF Uncommitted, Pursued, Late, EnableSteps, UndoSteps,
              DisableSteps
  <2>1. /\ pc \in Late \cup {"sweep"} => Stored = Content(before.file)
        /\ pc = "drop" => Stored = arg
        /\ pc \notin Late \cup {"sweep", "drop"} => Stored = Content(file)
    BY DEF Stored
  <2>2. UnitOn = IF pc \in Late THEN before.enabled ELSE enabled
    BY DEF UnitOn
  <2>3. /\ pc # "refused" => (Sure <=> intact)
        /\ pc = "refused" => (Sure <=> intact /\ ~(failed \/ Undetermined))
    BY DEF Sure
  <2>4. /\ pc \in {"recover", "detect"} \cup Late => Phase = "persist"
        /\ pc \in {"ddetect", "disable", "sweep"} => Phase = "unpersist"
        /\ pc = "drop" => Phase = "persisted"
        /\ pc \in {"idle", "persisted", "unpersisted"} => Phase = pc
        /\ pc = "refused" => Phase = IF failed THEN "broken" ELSE "refused"
    BY DEF Phase
  <2> QED BY <2>1, <2>2, <2>3, <2>4 DEF View
<1> QED BY <1>1, PTL

(* A step of Snapshot, or none.                                            *)
Mapped == [Promise!Next]_(Promise!vars)

(* The snapshots that another owner's feed comes before.                   *)
Hidden == {s \in Snaps : Shadowed(file, s)}

LEMMA HiddenStep ==
  ASSUME CopiesInv, [Next]_vars
  PROVE  /\ Hidden' \subseteq Hidden
         /\ pc \notin Writes => UNCHANGED Hidden
<1>1. \A n \in Feeds :
        /\ file'[n] = Foreign => file[n] = Foreign
        /\ file[n] = Foreign /\ pc \notin Writes => file'[n] = Foreign
  BY ForeignStep, NamesOfSnaps
<1>2. \A s \in Snaps : Shadowed(file, s)' => Shadowed(file, s)
  BY <1>1 DEF Shadowed
<1>3. pc \notin Writes =>
        \A s \in Snaps : Shadowed(file, s) => Shadowed(file, s)'
  BY <1>1 DEF Shadowed
<1> QED BY <1>2, <1>3 DEF Hidden

LEMMA Still ==
  ASSUME UNCHANGED <<Stored, Hidden, UnitOn, managed, Sure, Phase, arg>>
  PROVE  Mapped
BY DEF Mapped, Promise!vars, Hidden

(* Nobody vouches more or less for the store than before.                  *)
LEMMA SureSame == ASSUME Sure' <=> Sure PROVE UNCHANGED Sure
BY Zenon DEF Sure

LEMMA SureGone == ASSUME ~Sure' PROVE Sure' = FALSE
BY Zenon DEF Sure

(* Until the commit a step changes nothing that Snapshot sees, but that    *)
(* another owner's feed may be written over.                               *)
LEMMA StillBusy ==
  ASSUME pc \in Late, pc' \in Late, UNCHANGED <<before, managed, intact, arg>>,
         Hidden' \subseteq Hidden
  PROVE  Mapped
<1>1. /\ UNCHANGED <<Stored, UnitOn, Phase>> /\ (Sure' <=> Sure)
      /\ Phase = "persist"
  <2>1. Stored = Content(before.file) /\ Stored' = Content(before.file)'
    BY Views DEF View
  <2>2. Content(before.file)' = Content(before.file)
    BY DEF Content, TrustedIn, Whole
  <2> QED BY <2>1, <2>2, Views DEF View
<1>2. Promise!Expose
  BY <1>1, SureSame DEF Promise!Expose, Hidden
<1> QED BY <1>2 DEF Mapped, Promise!Next

LEMMA MapBegin ==
  ASSUME StoreInv, UNCHANGED Hidden, (\E s \in Snaps : Enable(s)) \/ Disable
  PROVE  Mapped
<1>0. arg = None
  BY SoundParts DEF StoreInv, Shape, Enable, Disable
<1>1. /\ pc = "idle" /\ pc' \in {"recover", "ddetect"}
      /\ UNCHANGED <<file, managed, enabled, intact>>
      /\ \/ pc' = "recover" /\ arg' \in Snaps
         \/ pc' = "ddetect" /\ UNCHANGED arg
  BY DEF Enable, Disable
<1>2. /\ UNCHANGED <<Stored, UnitOn>> /\ (Sure' <=> Sure)
      /\ Phase = "idle"
      /\ Phase' = IF pc' = "recover" THEN "persist" ELSE "unpersist"
  <2>1. Content(file)' = Content(file)
    BY <1>1 DEF Content, TrustedIn, Whole
  <2> QED BY <1>1, <2>1, Views DEF View
<1>3. Promise!Ask
  BY <1>1, <1>2, SureSame DEF Promise!Ask, Hidden
<1> QED BY <1>3 DEF Mapped, Promise!Next

LEMMA MapRecover ==
  ASSUME StoreInv, UNCHANGED Hidden, Recover PROVE Mapped
<1>1. CASE Recovered
  <2>1. /\ pc = "recover" /\ pc' = "detect"
        /\ UNCHANGED <<file, managed, enabled, intact, arg>>
    BY <1>1 DEF Recovered
  <2>2. Content(file)' = Content(file)
    BY <2>1 DEF Content, TrustedIn, Whole
  <2>3. UNCHANGED <<Stored, UnitOn, Phase>> /\ (Sure' <=> Sure)
    BY <2>1, <2>2, Views DEF View
  <2> QED BY <2>1, <2>3, SureSame, Still
<1>2. CASE RecoverOne
  <2>1. /\ pc = "recover" /\ ~intact /\ ~intact'
        /\ UNCHANGED <<managed, enabled, arg>>
        /\ pc' = "recover" \/ (pc' = "refused" /\ failed')
    BY <1>2, NothingToRecover DEF StoreInv, RecoverOne
  <2>2. ~Sure /\ ~Sure' /\ Phase = "persist" /\ UNCHANGED UnitOn
    BY <2>1, Views DEF View
  <2>3. Stored' \in Promise!Stores
    <3>1. Stored' = Content(file')
      BY <2>1, Views DEF View
    <3> QED BY <3>1, ContentIs DEF Promise!Stores
  <2>4. CASE pc' = "recover"
    <3>1. Phase' = "persist"
      BY <2>4, Views DEF View
    <3>2. Promise!Tidy
      BY <2>1, <2>2, <2>3, <3>1, SureSame DEF Promise!Tidy, Hidden
    <3> QED BY <3>2 DEF Mapped, Promise!Next
  <2>5. CASE pc' = "refused" /\ failed'
    <3>1. Phase' = "broken"
      BY <2>5, Views DEF View
    <3>2. Promise!Break
      BY <2>1, <2>2, <2>3, <3>1, SureGone
         DEF Promise!Break, Promise!Busy, Promise!Rubble, Hidden
    <3> QED BY <3>2 DEF Mapped, Promise!Next
  <2> QED BY <2>1, <2>4, <2>5
<1> QED BY <1>1, <1>2 DEF Recover

LEMMA MapDetect == ASSUME StoreInv, UNCHANGED Hidden, Detect PROVE Mapped
<1>0. ~ran /\ ~failed
  BY SoundParts DEF StoreInv, Shape, Detect, UndoSteps
<1>1. /\ pc = "detect" /\ pc' \in {"backup", "refused"}
      /\ UNCHANGED <<file, managed, enabled, intact, arg, ran, failed>>
      /\ before'.file = file /\ before'.enabled = enabled
  BY DEF Detect
<1>2. UNCHANGED <<Stored, UnitOn>> /\ (Sure' <=> Sure) /\ Phase = "persist"
  <2>1. Content(file)' = Content(file) /\ Content(before.file)' = Content(file)
    BY <1>1 DEF Content, TrustedIn, Whole
  <2>2. pc' \in Late \cup {"refused"} /\ ~Undetermined'
    BY <1>0, <1>1 DEF Late, Undetermined
  <2> QED BY <1>0, <1>1, <2>1, <2>2, Views DEF View
<1>3. CASE pc' = "backup"
  BY <1>1, <1>2, <1>3, SureSame, Still, Views DEF View, Late
<1>4. CASE pc' = "refused"
  <2>1. Phase' = "refused"
    BY <1>0, <1>1, <1>4, Views DEF View
  <2>2. Promise!Refuse
    BY <1>1, <1>2, <2>1, SureSame
       DEF Promise!Refuse, Promise!Busy, Hidden
  <2> QED BY <2>2 DEF Mapped, Promise!Next
<1> QED BY <1>1, <1>3, <1>4

(* Where all of a snapshot and no other feed is, it is what is stored.     *)
LEMMA WholeAtCommit ==
  ASSUME StoreInv, pc \in {"enable", "drop", "persisted"}
  PROVE  arg \in Snaps /\ Content(file) = arg
<1>1. arg \in Snaps
  BY SoundParts DEF StoreInv, Shape, EnableSteps
<1>2. Revision[arg] \in Nat
  BY <1>1, ConstantsAssumption
<1>3. Whole(file, arg)
  BY SoundParts, <1>2 DEF StoreInv, Placed, Whole
<1> QED BY <1>1, <1>3, ContentIs

(* What an operation that stops half way leaves behind.                    *)
LEMMA RubbleLeft ==
  ASSUME StoreInv, pc \in {"recover", "detect"} \cup Late \cup DisableSteps
  PROVE  Content(file) \in Promise!Rubble
<1>1. CASE ~intact
  <2>1. ~Sure
    BY <1>1, Views DEF View, DisableSteps
  <2> QED BY <2>1, ContentIs DEF Promise!Rubble, Promise!Stores
<1>2. CASE intact /\ pc \in Late \cup {"sweep"}
  <2>1. Stored = Content(before.file) /\ Sure
    BY <1>2, Views DEF View
  <2>2. Content(file) \in {Content(before.file), arg, None, Foreign}
    BY <1>2, ContentMixed
       DEF StoreInv, Traced, Wholly, Refusable, DisableSteps
  <2> QED BY <2>1, <2>2 DEF Promise!Rubble
<1>3. CASE intact /\ pc \in {"recover", "detect", "ddetect", "disable"}
  <2>1. Stored = Content(file) /\ Sure
    BY <1>3, Views DEF View
  <2> QED BY <2>1 DEF Promise!Rubble
<1> QED BY <1>1, <1>2, <1>3 DEF DisableSteps

LEMMA MapCommit ==
  ASSUME StoreInv, UNCHANGED Hidden, EnableUnit \/ Drop PROVE Mapped
<1>0. TypeOK /\ Unit
  BY SoundParts DEF StoreInv
<1>1. CASE EnableUnit /\ pc' = "undo"
  <2>1. Hidden' \subseteq Hidden
    OBVIOUS
  <2>2. /\ pc \in Late /\ pc' \in Late
        /\ UNCHANGED <<before, managed, intact, arg>>
    BY <1>1 DEF EnableUnit, Late, UndoSteps
  <2> QED BY <2>1, <2>2, StillBusy
<1>2. CASE EnableUnit /\ pc' = "drop"
  <2>1. /\ pc = "enable" /\ UNCHANGED <<managed, arg, intact>>
        /\ \/ nixos /\ UNCHANGED enabled
           \/ ~nixos /\ here /\ enabled' = TRUE
    BY <1>2 DEF EnableUnit
  <2>2. /\ Phase = "persist" /\ (Sure' <=> Sure)
        /\ UnitOn = before.enabled
    BY <1>2, <2>1, Views DEF View, Late
  <2>3. Phase' = "persisted" /\ Stored' = arg /\ UnitOn' = enabled'
    BY <1>2, <2>1, Views DEF View
  <2>4. \/ managed /\ UNCHANGED UnitOn
        \/ (~managed \/ Can("misread")) /\ UnitOn' = TRUE
    <3>1. CASE nixos /\ UNCHANGED enabled
      <4>1. managed /\ enabled = before.enabled
        BY <1>0, <2>1, <3>1 DEF Unit, Late
      <4> QED BY <2>2, <2>3, <3>1, <4>1
    <3>2. CASE ~nixos /\ here /\ enabled' = TRUE
      <4>1. ~managed \/ Can("misread")
        BY <1>0, <2>1, <3>2 DEF Unit, Late
      <4> QED BY <2>3, <3>2, <4>1
    <3> QED BY <2>1, <3>1, <3>2
  <2>5. Promise!Commit
    BY <2>1, <2>2, <2>3, <2>4, SureSame
       DEF Promise!Commit, Promise!Ours, Hidden
  <2> QED BY <2>5 DEF Mapped, Promise!Next
<1>3. CASE Drop
  <2>1. /\ pc = "drop" /\ pc' \in {"drop", "persisted"}
        /\ UNCHANGED <<file, managed, enabled, intact, arg>>
    BY <1>3 DEF Drop, DropOne, Dropped
  <2>2. Content(file)' = arg
    <3>1. Content(file) = arg
      BY <2>1, WholeAtCommit
    <3> QED BY <2>1, <3>1 DEF Content, TrustedIn, Whole
  <2>3. UNCHANGED <<Stored, UnitOn, Phase>> /\ (Sure' <=> Sure)
    BY <2>1, <2>2, Views DEF View
  <2> QED BY <2>1, <2>3, SureSame, Still
<1>4. EnableUnit => pc' \in {"drop", "undo"}
  BY DEF EnableUnit
<1> QED BY <1>1, <1>2, <1>3, <1>4

LEMMA MapCompensate ==
  ASSUME StoreInv, UNCHANGED Hidden, Compensate PROVE Mapped
<1>0. /\ Unit /\ Faithful /\ TypeOK /\ Shape /\ Meddled
  BY SoundParts DEF StoreInv
<1>1. /\ pc = "compensate" /\ pc' = "refused" /\ pc \in Late
      /\ UNCHANGED <<file, managed, intact, arg, ran, here, prior>>
      /\ failed => failed'
  BY DEF Compensate, Late, UndoSteps
<1>2. /\ Phase = "persist" /\ Phase' = IF failed' THEN "broken" ELSE "refused"
      /\ Stored = Content(before.file) /\ Stored' = Content(file)
      /\ UnitOn = before.enabled /\ UnitOn' = enabled'
      /\ Sure <=> intact
      /\ Sure' <=> intact /\ ~failed' /\ ~Undetermined
  <2>1. Content(file)' = Content(file)
    BY <1>1 DEF Content, TrustedIn, Whole
  <2>2. Undetermined' <=> Undetermined
    BY <1>1 DEF Undetermined
  <2> QED BY <1>1, <2>1, <2>2, Views DEF View
<1>3. before.enabled \in BOOLEAN
  BY <1>0, <1>1 DEF Shape, Pasts
<1>4. UNCHANGED UnitOn \/ ((~managed \/ Can("misread")) /\ UnitOn' = TRUE)
  <2>1. CASE ran /\ prior = "off" /\ enabled' = FALSE
    <3>1. ~before.enabled
      BY <1>0, <1>1, <2>1 DEF Unit
    <3> QED BY <1>2, <1>3, <2>1, <3>1
  <2>2. CASE UNCHANGED enabled
    <3>1. managed /\ ~Can("misread") => enabled = before.enabled
      BY <1>0, <1>1 DEF Unit
    <3>2. before.enabled => enabled
      BY <1>0, <1>1 DEF Meddled
    <3> QED BY <1>0, <1>2, <1>3, <2>2, <3>1, <3>2 DEF TypeOK
  <2> QED BY <2>1, <2>2 DEF Compensate
<1>5. CASE failed'
  <2>1. Content(file) \in Promise!Rubble
    BY <1>1, RubbleLeft
  <2>2. Promise!Break
    BY <1>1, <1>2, <1>4, <1>5, <2>1, SureGone
       DEF Promise!Break, Promise!Busy, Promise!Touched, Promise!Ours, Hidden
  <2> QED BY <2>2 DEF Mapped, Promise!Next
<1>6. CASE ~failed'
  <2>1. UNCHANGED Stored
    <3>1. \A n \in Names : Same(n)
      BY <1>0, <1>1, <1>6 DEF Faithful
    <3> QED BY <1>2, <3>1, ContentAlike DEF Same
  <2>2. CASE Undetermined
    <3>1. Promise!Refuse
      BY <1>1, <1>2, <1>4, <1>6, <2>1, <2>2, SureGone
         DEF Promise!Refuse, Promise!Busy, Promise!Touched, Promise!Ours,
             Hidden
    <3> QED BY <3>1 DEF Mapped, Promise!Next
  <2>3. CASE ~Undetermined
    <3>1. UNCHANGED UnitOn
      <4>1. CASE ran /\ prior = "off"
        <5>1. ~before.enabled /\ enabled' = FALSE
          BY <1>0, <1>1, <1>6, <4>1 DEF Unit, Compensate
        <5> QED BY <1>2, <1>3, <5>1
      <4>2. CASE ~ran \/ prior # "off"
        <5>1. UNCHANGED enabled
          BY <4>2 DEF Compensate
        <5>2. enabled = before.enabled
          BY <1>0, <1>1, <1>3, <2>3, <4>2 DEF Unit, Undetermined, TypeOK
        <5> QED BY <1>2, <5>1, <5>2
      <4> QED BY <4>1, <4>2
    <3>2. Promise!Refuse
      BY <1>1, <1>2, <1>6, <2>1, <2>3, <3>1, SureSame
         DEF Promise!Refuse, Promise!Busy, Hidden
    <3> QED BY <3>2 DEF Mapped, Promise!Next
  <2> QED BY <2>2, <2>3
<1> QED BY <1>5, <1>6

LEMMA MapDisable ==
  ASSUME StoreInv, UNCHANGED Hidden, DetectForDisable \/ DisableUnit
  PROVE  Mapped
<1>0. /\ Unit /\ Faithful /\ Shape /\ TypeOK /\ Meddled
  BY SoundParts DEF StoreInv
<1>1. /\ pc \in {"ddetect", "disable"}
      /\ pc' \in {"disable", "sweep", "refused"}
      /\ UNCHANGED <<file, before, managed, intact, arg, ran, failed>>
      /\ \/ UNCHANGED enabled
         \/ (~managed \/ Can("misread")) /\ enabled' = FALSE
  <2>1. CASE DetectForDisable
    BY <2>1 DEF DetectForDisable
  <2>2. CASE DisableUnit
    <3>1. \/ UNCHANGED enabled
          \/ ~nixos /\ here /\ enabled' = FALSE
      <4>1. enabled \in BOOLEAN
        BY <1>0 DEF TypeOK
      <4> QED BY <2>2, <4>1 DEF DisableUnit
    <3>2. pc = "disable" /\ (~nixos /\ here => ~managed \/ Can("misread"))
      BY <1>0, <2>2 DEF Unit, DisableUnit
    <3> QED BY <2>2, <3>1, <3>2 DEF DisableUnit
  <2> QED BY <2>1, <2>2
<1>2. ~ran' /\ ~failed' /\ file = before.file
  BY <1>0, <1>1 DEF Meddled, Shape, Faithful, DisableSteps, UndoSteps
<1>3. /\ Phase = "unpersist"
      /\ Phase' = IF pc' = "refused" THEN "refused" ELSE "unpersist"
      /\ UNCHANGED Stored
      /\ UnitOn = enabled /\ UnitOn' = enabled'
      /\ Sure' <=> Sure
  <2>1. Content(file)' = Content(file) /\ Content(before.file)' = Content(file)
    BY <1>1, <1>2 DEF Content, TrustedIn, Whole
  <2> QED BY <1>1, <1>2, <2>1, Views DEF View, Undetermined
<1>4. UNCHANGED Sure /\ Sure \in BOOLEAN
  BY <1>3, SureSame, Zenon DEF Sure
<1>5. CASE pc' = "refused"
  <2>1. Promise!Refuse
    BY <1>1, <1>3, <1>4, <1>5
       DEF Promise!Refuse, Promise!Busy, Promise!Touched, Promise!Ours, Hidden
  <2> QED BY <2>1 DEF Mapped, Promise!Next
<1>6. CASE pc' # "refused" /\ UNCHANGED enabled
  BY <1>1, <1>3, <1>4, <1>6, Still
<1>7. CASE /\ pc' # "refused" /\ enabled' = FALSE
           /\ ~managed \/ Can("misread")
  <2>1. Promise!TurnOff
    BY <1>1, <1>3, <1>4, <1>7 DEF Promise!TurnOff, Promise!Ours, Hidden
  <2> QED BY <2>1 DEF Mapped, Promise!Next
<1> QED BY <1>1, <1>5, <1>6, <1>7

LEMMA MapSweep ==
  ASSUME StoreInv, UNCHANGED Hidden, Sweep \/ Swept PROVE Mapped
<1>0. /\ Unit /\ Removed /\ Meddled
  BY SoundParts DEF StoreInv
<1>1. /\ pc = "sweep" /\ pc' \in {"sweep", "unpersisted", "refused"}
      /\ UNCHANGED <<before, managed, enabled, intact, arg>>
  BY DEF Sweep, Swept
<1>2. /\ Phase = "unpersist" /\ Stored = Content(before.file)
      /\ UNCHANGED UnitOn /\ UnitOn = enabled
      /\ Sure <=> intact
  BY <1>1, Views DEF View
<1>3. CASE Sweep
  <2>1. pc' = "sweep"
    BY <1>3 DEF Sweep
  <2>2. Content(before.file)' = Content(before.file)
    BY <1>1 DEF Content, TrustedIn, Whole
  <2>3. UNCHANGED <<Stored, Phase>> /\ (Sure' <=> Sure)
    BY <1>1, <1>2, <2>1, <2>2, Views DEF View
  <2> QED BY <1>1, <1>2, <2>3, SureSame, Still
<1>4. CASE Swept /\ failed
  <2>1. pc' = "refused" /\ failed' /\ UNCHANGED file
    BY <1>4 DEF Swept
  <2>2. Phase' = "broken" /\ Stored' = Content(file') /\ ~Sure'
    BY <2>1, Views DEF View
  <2>3. Content(file') \in Promise!Rubble
    BY <1>1, <2>1, RubbleLeft DEF DisableSteps
  <2>4. Promise!Break
    BY <1>1, <1>2, <2>2, <2>3, SureGone
       DEF Promise!Break, Promise!Busy, Hidden
  <2> QED BY <2>4 DEF Mapped, Promise!Next
<1>5. CASE Swept /\ ~failed
  <2>1. pc' = "unpersisted" /\ UNCHANGED file /\ todo = {}
    BY <1>5 DEF Swept
  <2>2. Content(file') = None
    BY <1>0, <1>1, <1>5, <2>1, ContentIs DEF Removed
  <2>3. Phase' = "unpersisted" /\ Stored' = None /\ (Sure' <=> Sure)
    BY <1>1, <1>2, <2>1, <2>2, Views DEF View
  <2>4. enabled => managed \/ Can("absent") \/ Can("misread")
    BY <1>0, <1>1 DEF Unit, Meddled
  <2>5. Promise!Remove
    BY <1>1, <1>2, <2>3, <2>4, SureSame DEF Promise!Remove, Hidden
  <2> QED BY <2>5 DEF Mapped, Promise!Next
<1> QED BY <1>3, <1>4, <1>5

LEMMA MapExit == ASSUME StoreInv, UNCHANGED Hidden, Exit PROVE Mapped
<1>1. /\ pc \in Replies /\ pc' = "idle" /\ arg' = None
      /\ UNCHANGED <<file, managed, enabled>>
  BY DEF Exit, Vanish
<1>2. /\ Phase \in Promise!Replies /\ Phase' = "idle"
      /\ UNCHANGED <<Stored, UnitOn>> /\ UnitOn = enabled
      /\ Phase = "persisted" <=> pc = "persisted"
      /\ Phase = "unpersisted" <=> pc = "unpersisted"
      /\ Sure' <=> intact'
  <2>1. Content(file)' = Content(file)
    BY <1>1 DEF Content, TrustedIn, Whole
  <2> QED
    BY <1>1, <2>1, Views DEF View, Replies, Promise!Replies
<1>3. Sure \in BOOLEAN /\ Sure' \in BOOLEAN
  BY Zenon DEF Sure
<1>4. pc = "unpersisted" => Sure' = ~UnitOn
  <2>1. pc = "unpersisted" => intact' = ~enabled
    BY DEF Exit
  <2> QED BY <1>2, <1>3, <2>1
<1>5. pc = "refused" => Sure' = Sure
  <2>1. pc = "refused" => (intact' <=> intact /\ ~failed /\ ~Undetermined)
    BY DEF Exit
  <2>2. pc = "refused" => (Sure <=> intact /\ ~(failed \/ Undetermined))
    BY Views DEF View
  <2> QED BY <1>2, <2>1, <2>2, SureSame
<1>6. Promise!Leave
  BY <1>1, <1>2, <1>3, <1>4, <1>5 DEF Promise!Leave, Replies, Hidden
<1> QED BY <1>6 DEF Mapped, Promise!Next

LEMMA MapKill == ASSUME StoreInv, UNCHANGED Hidden, Kill PROVE Mapped
<1>0. /\ TypeOK /\ Shape /\ Unit /\ Meddled
  BY SoundParts DEF StoreInv
<1>1. /\ pc \in Steps /\ pc' = "idle" /\ arg' = None /\ ~intact'
      /\ UNCHANGED <<file, managed, enabled>>
  BY DEF Kill, Vanish
<1>2. /\ Phase' = "idle" /\ Stored' = Content(file) /\ UnitOn' = enabled
      /\ ~Sure'
  <2>1. Content(file)' = Content(file)
    BY <1>1 DEF Content, TrustedIn, Whole
  <2> QED BY <1>1, <2>1, Views DEF View
<1>3. CASE pc \in {"recover", "detect"} \cup Late \cup DisableSteps
  <2>1. Phase \in Promise!Busy
    BY <1>3, Views DEF View, DisableSteps, Promise!Busy
  <2>2. Content(file) \in Promise!Rubble
    BY <1>3, RubbleLeft
  <2>3. UNCHANGED UnitOn \/ Promise!Touched
    <3>1. CASE pc \in Late
      <4>1. UnitOn = before.enabled /\ Phase = "persist"
        BY <3>1, Views DEF View
      <4>2. before.enabled \in BOOLEAN /\ enabled \in BOOLEAN
        BY <1>0, <3>1 DEF Shape, Pasts, TypeOK
      <4>3. before.enabled => enabled
        BY <1>0, <3>1 DEF Meddled
      <4>4. managed /\ ~Can("misread") => enabled = before.enabled
        BY <1>0, <3>1 DEF Unit
      <4> QED
        BY <1>2, <4>1, <4>2, <4>3, <4>4 DEF Promise!Touched, Promise!Ours
    <3>2. CASE pc \notin Late
      BY <1>2, <1>3, <3>2, Views DEF View, DisableSteps
    <3> QED BY <3>1, <3>2
  <2>4. Promise!Die
    BY <1>1, <1>2, <2>1, <2>2, <2>3, SureGone
       DEF Promise!Die, Promise!Busy, Hidden
  <2> QED BY <2>4 DEF Mapped, Promise!Next
<1>4. CASE pc \in {"drop"} \cup Replies
  <2>1. Phase \notin {"idle"} \cup Promise!Busy
    BY <1>4, Views DEF View, Replies, Promise!Busy
  <2>2. UNCHANGED <<Stored, UnitOn>>
    <3>1. CASE pc = "drop"
      BY <1>2, <3>1, WholeAtCommit, Views DEF View
    <3>2. CASE pc \in Replies
      BY <1>2, <3>2, Views DEF View, Replies
    <3> QED BY <1>4, <3>1, <3>2
  <2>3. Promise!Die
    BY <1>1, <1>2, <2>1, <2>2, SureGone DEF Promise!Die, Hidden
  <2> QED BY <2>3 DEF Mapped, Promise!Next
<1> QED
  BY <1>1, <1>3, <1>4 DEF Steps, EnableSteps, UndoSteps, DisableSteps, Late

LEMMA MapStep == ASSUME StoreInv, [Next]_vars PROVE Mapped
<1>0. CopiesInv
  BY DEF StoreInv, SoundInv, FaithfulInv, KeptInv
<1>1. CASE BackUp \/ WriteConfig \/ WriteFeed \/ UndoWrite \/ UndoneWrites
             \/ RestoreOne \/ Restored
  <2>1. /\ pc \in Late /\ pc' \in Late
        /\ UNCHANGED <<before, managed, intact, arg>>
    BY <1>1 DEF BackUp, BackUpOne, BackedUp, WriteConfig, WriteFeed, Write,
       UndoWrite, UndoneWrites, RestoreOne, Restored, Late, UndoSteps
  <2> QED BY <1>0, <2>1, HiddenStep, StillBusy
<1>2. CASE UNCHANGED vars
  <2>1. UNCHANGED <<Stored, Hidden, UnitOn, managed, Sure, Phase, arg>>
    BY <1>2 DEF vars, Stored, Content, TrustedIn, Whole, UnitOn, Sure,
       Undetermined, Phase, Hidden, Shadowed
  <2> QED BY <2>1, Still
<1>3. CASE \/ \E s \in Snaps : Enable(s)
           \/ Disable \/ Recover \/ Detect \/ EnableUnit \/ Drop
           \/ Compensate \/ DetectForDisable \/ DisableUnit \/ Sweep
           \/ Swept \/ Exit
  <2>1. pc \notin Writes
    BY <1>3 DEF Enable, Disable, Recover, RecoverOne, Recovered, Detect,
       EnableUnit, Drop, DropOne, Dropped, Compensate, DetectForDisable,
       DisableUnit, Sweep, Swept, Exit, Replies, Writes
  <2>2. UNCHANGED Hidden
    BY <1>0, <2>1, HiddenStep
  <2> QED
    BY <1>3, <2>2, MapBegin, MapRecover, MapDetect, MapCommit, MapCompensate,
       MapDisable, MapSweep, MapExit
<1>4. CASE Kill
  <2>1. UNCHANGED Hidden
    BY <1>4 DEF Kill, Hidden, Shadowed
  <2> QED BY <1>4, <2>1, MapKill
<1> QED BY <1>1, <1>2, <1>3, <1>4 DEF Next, Operate, Rollback

LEMMA MapInitially == Init => Promise!Init
<1> SUFFICES ASSUME Init PROVE Promise!Init
  OBVIOUS
<1>1. pc = "idle" /\ arg = None /\ intact /\ enabled = FALSE
        /\ managed \in BOOLEAN
  BY DEF Init, Idle
<1>2. Content(file) = None
  BY Beginning, ContentIs
<1>3. Stored = None /\ UnitOn = FALSE /\ Sure /\ Phase = "idle"
  BY <1>1, <1>2, Views DEF View
<1>4. Sure = TRUE
  BY <1>3, Zenon DEF Sure
<1> QED BY <1>1, <1>3, <1>4 DEF Promise!Init, Hidden

(* Every run of the applier's calls on /etc/regionlock and on the unit,    *)
(* failing and killed anywhere, is a run of Snapshot.                      *)
THEOREM ReplacesWholeHolds == Spec => ReplacesWhole
<1>1. StoreInv /\ [Next]_vars => [Promise!Next]_(Promise!vars)
  BY MapStep DEF Mapped
<1> QED
  BY MapInitially, Stores, <1>1, PTL DEF Spec, ReplacesWhole, Promise!Spec

----------------------------------------------------------------------------
(* Progress, but for fairness: the steps that an operation has before it,  *)
(* and in each loop the entries that it has not yet visited.               *)
Togo(step) ==
  CASE step = "recover"              -> 10
    [] step = "detect"               -> 9
    [] step = "backup"               -> 8
    [] step = "config"               -> 7
    [] step = "feed"                 -> 6
    [] step \in {"enable", "ddetect"} -> 5
    [] step \in {"undo", "disable"}   -> 4
    [] step = "restore"              -> 3
    [] step \in {"compensate", "drop", "sweep"} -> 2
    [] step \in Replies              -> 1
    [] OTHER                         -> 0

Unvisited ==
  CASE pc = "backup" -> Cardinality(todo)
    [] pc = "undo"   -> Cardinality(written)
    [] pc = "sweep"  -> Cardinality(todo) + Cardinality(backed)
    [] pc \in {"recover", "restore", "drop"} -> Cardinality(backed)
    [] OTHER         -> 0

Nearer ==
  \/ Togo(pc') < Togo(pc)
  \/ pc' = pc /\ Unvisited' < Unvisited

(* Each process writes two files at most, so there are finitely many.      *)
Finite ==
  /\ IsFiniteSet(TrustedIn(file)) /\ IsFiniteSet(TrustedIn(bak))
  /\ IsFiniteSet(todo) /\ IsFiniteSet(backed) /\ IsFiniteSet(written)

LEMMA FiniteEntry ==
  ASSUME NEW dir \in Dirs, IsFiniteSet(TrustedIn(dir)), NEW n \in Names
  PROVE  /\ IsFiniteSet(TrustedIn(Without(dir, n)))
         /\ \A content : IsFiniteSet(TrustedIn(With(dir, n, content)))
<1>1. TrustedIn(Without(dir, n)) \subseteq TrustedIn(dir)
  BY Entry, NotTrusted DEF TrustedIn
<1>2. \A content :
        TrustedIn(With(dir, n, content)) \subseteq TrustedIn(dir) \cup {n}
  BY Entry DEF TrustedIn
<1>3. IsFiniteSet(TrustedIn(dir) \cup {n})
  BY FS_AddElement
<1> QED BY <1>1, <1>2, <1>3, FS_Subset

LEMMA FiniteStep == ASSUME TypeInv, Finite, [Next]_vars PROVE Finite'
<1>0. /\ file \in Dirs /\ bak \in Dirs
      /\ todo \subseteq Names /\ backed \subseteq Names
      /\ Config \in Names /\ (arg \in Snaps => Revision[arg] \in Names)
  BY Basics, NamesOfSnaps
<1>1. \A n \in Names :
        /\ IsFiniteSet(TrustedIn(Without(file, n)))
        /\ IsFiniteSet(TrustedIn(Without(bak, n)))
        /\ \A c : /\ IsFiniteSet(TrustedIn(With(file, n, c)))
                  /\ IsFiniteSet(TrustedIn(With(bak, n, c)))
  BY <1>0, FiniteEntry DEF Finite
<1>2. \A n : /\ IsFiniteSet(todo \ {n}) /\ IsFiniteSet(backed \ {n})
             /\ IsFiniteSet(written \ {n})
             /\ IsFiniteSet(backed \cup {n}) /\ IsFiniteSet(written \cup {n})
  BY FS_AddElement, FS_RemoveElement DEF Finite
<1>a. ASSUME IsFiniteSet(TrustedIn(file')), IsFiniteSet(TrustedIn(bak')),
             IsFiniteSet(todo'), IsFiniteSet(backed'), IsFiniteSet(written')
      PROVE  Finite'
  BY <1>a DEF Finite, TrustedIn
<1>b. /\ IsFiniteSet(TrustedIn(file)) /\ IsFiniteSet(TrustedIn(bak))
      /\ IsFiniteSet(todo) /\ IsFiniteSet(backed) /\ IsFiniteSet(written)
  BY DEF Finite
<1>3. CASE RecoverOne
  <2>1. PICK n \in backed :
          /\ backed' \in {backed, backed \ {n}}
          /\ file' \in {file, With(file, n, bak[n])}
          /\ bak' \in {bak, Without(bak, n)}
          /\ todo' = todo /\ written' = written
    BY <1>3 DEF RecoverOne
  <2>2. IsFiniteSet(TrustedIn(file')) /\ IsFiniteSet(TrustedIn(bak'))
    BY <1>0, <1>1, <1>b, <2>1
  <2>3. IsFiniteSet(backed') /\ IsFiniteSet(todo') /\ IsFiniteSet(written')
    BY <1>2, <1>b, <2>1
  <2> QED BY <1>a, <2>2, <2>3
<1>4. CASE BackUpOne
  <2>1. PICK n \in todo :
          /\ todo' \in {todo, todo \ {n}}
          /\ backed' \in {backed, backed \cup {n}}
          /\ file' \in {file, Without(file, n)}
          /\ bak' \in {bak, With(bak, n, file[n])}
          /\ written' = written
    BY <1>4 DEF BackUpOne
  <2>2. IsFiniteSet(TrustedIn(file')) /\ IsFiniteSet(TrustedIn(bak'))
    BY <1>0, <1>1, <1>b, <2>1
  <2>3. IsFiniteSet(backed') /\ IsFiniteSet(todo') /\ IsFiniteSet(written')
    BY <1>2, <1>b, <2>1
  <2> QED BY <1>a, <2>2, <2>3
<1>5. CASE WriteConfig \/ WriteFeed
  BY <1>0, <1>1, <1>2, <1>5
     DEF Finite, WriteConfig, WriteFeed, Write, TrustedIn, TypeInv, Shape,
         EnableSteps
<1>6. CASE DropOne \/ RestoreOne \/ Sweep
  <2>1. PICK n \in todo \cup backed :
          /\ todo' \in {todo, todo \ {n}}
          /\ backed' \in {backed, backed \ {n}}
          /\ file' \in {file, Without(file, n), With(file, n, bak[n])}
          /\ bak' \in {bak, Without(bak, n)}
          /\ written' = written
    <3>1. CASE DropOne
      BY <3>1 DEF DropOne
    <3>2. CASE RestoreOne
      BY <3>2 DEF RestoreOne
    <3>3. CASE Sweep
      BY <3>3 DEF Sweep
    <3> QED BY <1>6, <3>1, <3>2, <3>3
  <2>2. IsFiniteSet(TrustedIn(file')) /\ IsFiniteSet(TrustedIn(bak'))
    BY <1>0, <1>1, <1>b, <2>1
  <2>3. IsFiniteSet(backed') /\ IsFiniteSet(todo') /\ IsFiniteSet(written')
    BY <1>2, <1>b, <2>1
  <2> QED BY <1>a, <2>2, <2>3
<1>7. CASE UndoWrite
  BY <1>0, <1>1, <1>2, <1>7, Basics DEF Finite, UndoWrite, TrustedIn
<1>8. CASE Exit \/ Kill
  <2>1. IsFiniteSet({})
    BY FS_EmptySet
  <2> QED BY <1>8, <2>1 DEF Finite, Exit, Kill, Vanish, TrustedIn
<1>9. CASE \/ UNCHANGED vars \/ Disable \/ Recovered \/ Detect \/ BackedUp
           \/ EnableUnit \/ Dropped \/ UndoneWrites \/ Restored \/ Compensate
           \/ DetectForDisable \/ DisableUnit \/ Swept
           \/ \E s \in Snaps : Enable(s)
  BY <1>9
     DEF vars, Disable, Recovered, Detect, BackedUp, EnableUnit, Dropped,
         UndoneWrites, Restored, Compensate, DetectForDisable, DisableUnit,
         Swept, Enable, Finite, TrustedIn
<1> QED
  BY <1>3, <1>4, <1>5, <1>6, <1>7, <1>8, <1>9
     DEF Next, Operate, Recover, BackUp, Drop, Rollback

LEMMA FiniteInitially == Init => Finite
<1> SUFFICES ASSUME Init PROVE Finite
  OBVIOUS
<1>1. TrustedIn(file) = {} /\ TrustedIn(bak) = {}
  BY Beginning DEF TrustedIn
<1> QED BY <1>1, FS_EmptySet DEF Init, Idle, Finite

LEMMA OneLess ==
  ASSUME NEW S, IsFiniteSet(S), NEW n \in S
  PROVE  /\ Cardinality(S) \in Nat /\ Cardinality(S \ {n}) \in Nat
         /\ Cardinality(S \ {n}) < Cardinality(S)
<1>1. IsFiniteSet(S \ {n}) /\ Cardinality(S \ {n}) = Cardinality(S) - 1
  BY FS_RemoveElement
<1> QED BY <1>1, FS_CardinalityType

LEMMA TogoOrder ==
  /\ Togo("recover") = 10 /\ Togo("detect") = 9 /\ Togo("backup") = 8
  /\ Togo("config") = 7 /\ Togo("feed") = 6
  /\ \A step \in {"enable", "ddetect"} : Togo(step) = 5
  /\ \A step \in {"undo", "disable"} : Togo(step) = 4
  /\ Togo("restore") = 3
  /\ \A step \in {"compensate", "drop", "sweep"} : Togo(step) = 2
  /\ \A step \in Replies : Togo(step) = 1
  /\ Togo("idle") = 0
BY DEF Togo, Replies

LEMMA VisitsNearer ==
  ASSUME Finite,
         \/ RecoverOne \/ BackUpOne \/ DropOne \/ UndoWrite \/ RestoreOne
         \/ Sweep
  PROVE  Nearer
<1>0. /\ \A n \in todo : Cardinality(todo \ {n}) < Cardinality(todo)
      /\ \A n \in backed : Cardinality(backed \ {n}) < Cardinality(backed)
      /\ \A n \in written :
           Cardinality(written \ {n}) < Cardinality(written)
      /\ Cardinality(todo) \in Nat /\ Cardinality(backed) \in Nat
      /\ \A n \in todo : Cardinality(todo \ {n}) \in Nat
      /\ \A n \in backed : Cardinality(backed \ {n}) \in Nat
  BY OneLess, FS_CardinalityType DEF Finite
<1>1. CASE RecoverOne
  BY <1>0, <1>1, TogoOrder DEF RecoverOne, Nearer, Unvisited, Replies
<1>2. CASE BackUpOne
  BY <1>0, <1>2, TogoOrder DEF BackUpOne, Nearer, Unvisited
<1>3. CASE DropOne
  BY <1>0, <1>3 DEF DropOne, Nearer, Unvisited
<1>4. CASE UndoWrite
  BY <1>0, <1>4 DEF UndoWrite, Nearer, Unvisited
<1>5. CASE RestoreOne
  BY <1>0, <1>5 DEF RestoreOne, Nearer, Unvisited
<1>6. CASE Sweep
  BY <1>0, <1>6 DEF Sweep, Nearer, Unvisited
<1> QED BY <1>1, <1>2, <1>3, <1>4, <1>5, <1>6

(* No operation goes back, or round in a loop for ever: whichever calls    *)
(* fail, each step of it is one towards its end, or visits one of finitely *)
(* many entries that it does not visit in this loop again.  A removal or a *)
(* rename that fails is not tried twice.                                   *)
THEOREM OperationNears == Spec => [][pc # "idle" => Nearer]_vars
<1>1. TypeInv /\ Finite /\ [Next]_vars => [pc # "idle" => Nearer]_vars
  <2> SUFFICES ASSUME TypeInv, Finite, Next, pc # "idle" PROVE Nearer
    OBVIOUS
  <2>1. CASE \/ RecoverOne \/ BackUpOne \/ DropOne \/ UndoWrite
             \/ RestoreOne \/ Sweep
    BY <2>1, VisitsNearer
  <2>2. CASE Exit \/ Kill
    <3>1. pc' = "idle" /\ Togo(pc) > 0
      BY <2>2 DEF Exit, Kill, Vanish, Togo, Steps, EnableSteps, UndoSteps,
                  DisableSteps, Replies
    <3> QED BY <3>1, TogoOrder DEF Nearer
  <2>3. CASE \/ Recovered \/ Detect \/ BackedUp \/ WriteConfig \/ WriteFeed
             \/ EnableUnit \/ Dropped
    <3>1. CASE Recovered
      BY <3>1, TogoOrder DEF Recovered, Nearer
    <3>2. CASE Detect
      <4>1. pc = "detect" /\ pc' \in {"backup", "refused"}
        BY <3>2 DEF Detect
      <4> QED BY <4>1, TogoOrder DEF Replies, Nearer
    <3>3. CASE BackedUp
      BY <3>3, TogoOrder DEF BackedUp, Nearer
    <3>4. CASE WriteConfig
      BY <3>4, TogoOrder DEF WriteConfig, Write, Nearer
    <3>5. CASE WriteFeed
      BY <3>5, TogoOrder DEF WriteFeed, Write, Nearer
    <3>6. CASE EnableUnit
      <4>1. pc = "enable" /\ pc' \in {"drop", "undo"}
        BY <3>6 DEF EnableUnit
      <4> QED BY <4>1, TogoOrder DEF Replies, Nearer
    <3>7. CASE Dropped
      BY <3>7, TogoOrder DEF Dropped, Replies, Nearer
    <3> QED BY <2>3, <3>1, <3>2, <3>3, <3>4, <3>5, <3>6, <3>7
  <2>4. CASE \/ UndoneWrites \/ Restored \/ Compensate \/ DetectForDisable
             \/ DisableUnit \/ Swept
    <3>1. CASE UndoneWrites
      BY <3>1, TogoOrder DEF UndoneWrites, Nearer
    <3>2. CASE Restored
      BY <3>2, TogoOrder DEF Restored, Nearer
    <3>3. CASE Compensate
      BY <3>3, TogoOrder DEF Compensate, Replies, Nearer
    <3>4. CASE DetectForDisable
      <4>1. pc = "ddetect" /\ pc' \in {"disable", "refused"}
        BY <3>4 DEF DetectForDisable
      <4> QED BY <4>1, TogoOrder DEF Replies, Nearer
    <3>5. CASE DisableUnit
      <4>1. pc = "disable" /\ pc' \in {"sweep", "refused"}
        BY <3>5 DEF DisableUnit
      <4> QED BY <4>1, TogoOrder DEF Replies, Nearer
    <3>6. CASE Swept
      BY <3>6, TogoOrder DEF Swept, Replies, Nearer
    <3> QED BY <2>4, <3>1, <3>2, <3>3, <3>4, <3>5, <3>6
  <2>5. ~Disable /\ \A s : ~Enable(s)
    BY DEF Disable, Enable
  <2> QED
    BY <2>1, <2>2, <2>3, <2>4, <2>5
       DEF Next, Operate, Recover, BackUp, Drop, Rollback
<1>2. Init => TypeInv /\ Finite
  BY TypeInitially, FiniteInitially
<1>3. TypeInv /\ Finite /\ [Next]_vars => (TypeInv /\ Finite)'
  BY TypeStep, FiniteStep
<1> QED BY <1>1, <1>2, <1>3, PTL DEF Spec
=============================================================================
