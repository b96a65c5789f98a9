------------------------------ MODULE BootProofs ------------------------------
(***************************************************************************)
(* Proofs about Boot, for any blocklists, feeds, hazards and any number of *)
(* reboots.  What is proved of Persist is not proved again: but for the    *)
(* link that the NixOS activation puts back, /etc/regionlock changes as    *)
(* module Persist says, so its invariants hold here as well.               *)
(***************************************************************************)
EXTENDS Boot, PlanProofs, SequenceTheorems

Proved == INSTANCE PersistProofs WITH
            Revision <- [s \in Snaps |-> s.rev],
            Strange  <- [file : {Bare, [Bare EXCEPT ![0] = Link]},
                         bak : {Bare}],
            Hazards  <- Hazards \ {"offline"}

LEMMA FeedsOf ==
  /\ Len(Feed) \in Nat /\ 1 \in 1 .. Len(Feed)
  /\ \A r \in 1 .. Len(Feed) : Feed[r] \in Feeds
<1>1. Feed \in Seq(Feeds) /\ Feed # <<>>
  BY BootAssumption
<1>2. Len(Feed) \in Nat /\ Len(Feed) # 0
  BY <1>1, EmptySeq, LenProperties
<1>3. \A r \in 1 .. Len(Feed) : Feed[r] \in Feeds
  BY <1>1, ElementOfSeq
<1> QED BY <1>2, <1>3

LEMMA EtcConstants == Proved!ConstantsAssumption
<1>1. [s \in Snaps |-> s.rev] \in [Snaps -> Nat \ {0}]
  BY FeedsOf DEF Snaps
<1>2. Hazards \ {"offline"} \subseteq Proved!HazardKinds
  BY BootAssumption DEF Etc!HazardKinds, Proved!HazardKinds
<1>3. Proved!Names = {0} \cup {s.rev : s \in Snaps}
  BY DEF Proved!Names, Proved!Config, Proved!Feeds
<1>4. {Bare, [Bare EXCEPT ![0] = Link]} \subseteq Proved!Aliens
  BY <1>3 DEF Bare, Proved!Aliens
<1> QED BY <1>1, <1>2, <1>4, BootAssumption DEF Proved!ConstantsAssumption

(* A name is 0 or a revision.                                              *)
LEMMA EtcNames ==
  /\ Proved!Config = 0 /\ Proved!Names = {0} \cup Proved!Feeds
  /\ Proved!Feeds \subseteq 1 .. Len(Feed)
  /\ \A s \in Snaps : s.rev \in Proved!Feeds
  /\ Etc!Config = 0 /\ Etc!Names = Proved!Names /\ Etc!Feeds = Proved!Feeds
BY FeedsOf DEF Snaps, Proved!Config, Proved!Names, Proved!Feeds,
   Etc!Config, Etc!Names, Etc!Feeds

----------------------------------------------------------------------------
(* Processes and the applier they run.                                     *)

(* Everything but a command's call of the applier and its end.             *)
Elsewhere ==
  \/ \E u \in Units : LoadConfig(u) \/ LoadFeed(u)
  \/ StartUnit \/ ApplyUnit \/ StopUnit \/ Decline \/ Publish

LEMMA ElsewhereStep == ASSUME Elsewhere PROVE UNCHANGED <<etc, last>>
BY DEF Elsewhere, LoadConfig, LoadFeed, StartUnit, ApplyUnit, StopUnit,
       Decline, Publish

(* A step of the applier under a command is one of Persist's.              *)
LEMMA WorkIsPersists == ASSUME WorkEtc PROVE Proved!Operate
<1> USE DEF Etc!Goto, Proved!Goto, Etc!Can, Proved!Can,
            Etc!unit, Proved!unit, Etc!probe, Proved!probe,
            Etc!locals, Proved!locals, Etc!past, Proved!past,
            Etc!Trusted, Proved!Trusted, Etc!TrustedIn, Proved!TrustedIn,
            Etc!Names, Proved!Names, Etc!Feeds, Proved!Feeds,
            Etc!Config, Proved!Config,
            Etc!Without, Proved!Without, Etc!With, Proved!With
<1>1. Etc!Recover => Proved!Recover
  BY DEF Etc!Recover, Proved!Recover, Etc!RecoverOne, Proved!RecoverOne,
         Etc!Recovered, Proved!Recovered
<1>2. Etc!Detect => Proved!Detect
  BY DEF Etc!Detect, Proved!Detect, Etc!PriorStates, Proved!PriorStates,
         Etc!Verdicts, Proved!Verdicts
<1>3. Etc!BackUp => Proved!BackUp
  BY DEF Etc!BackUp, Proved!BackUp, Etc!BackUpOne, Proved!BackUpOne,
         Etc!BackedUp, Proved!BackedUp
<1>4. /\ Etc!WriteConfig => Proved!WriteConfig
      /\ Etc!WriteFeed => Proved!WriteFeed
  BY DEF Etc!WriteConfig, Proved!WriteConfig, Etc!WriteFeed,
         Proved!WriteFeed, Etc!Write, Proved!Write
<1>5. Etc!EnableUnit => Proved!EnableUnit
  BY DEF Etc!EnableUnit, Proved!EnableUnit
<1>6. Etc!Drop => Proved!Drop
  BY DEF Etc!Drop, Proved!Drop, Etc!DropOne, Proved!DropOne,
         Etc!Dropped, Proved!Dropped
<1>7. Etc!Rollback => Proved!Rollback
  BY DEF Etc!Rollback, Proved!Rollback, Etc!UndoWrite, Proved!UndoWrite,
         Etc!UndoneWrites, Proved!UndoneWrites,
         Etc!RestoreOne, Proved!RestoreOne, Etc!Restored, Proved!Restored,
         Etc!Compensate, Proved!Compensate
<1>8. Etc!DetectForDisable => Proved!DetectForDisable
  BY DEF Etc!DetectForDisable, Proved!DetectForDisable, Etc!Verdicts,
         Proved!Verdicts
<1>9. Etc!DisableUnit => Proved!DisableUnit
  BY DEF Etc!DisableUnit, Proved!DisableUnit
<1>10. Etc!Sweep => Proved!Sweep
  BY DEF Etc!Sweep, Proved!Sweep
<1>11. Etc!Swept => Proved!Swept
  BY DEF Etc!Swept, Proved!Swept
<1> QED
  BY <1>1, <1>2, <1>3, <1>4, <1>5, <1>6, <1>7, <1>8, <1>9, <1>10, <1>11
     DEF WorkEtc, Proved!Operate

LEMMA CallIsPersists ==
  /\ \A s : Etc!Enable(s) => Proved!Enable(s)
  /\ Etc!Disable => Proved!Disable
  /\ Etc!Exit => Proved!Exit
  /\ Etc!Kill => Proved!Kill
BY DEF Etc!Goto, Proved!Goto, Etc!Can, Proved!Can,
       Etc!unit, Proved!unit, Etc!probe, Proved!probe,
       Etc!locals, Proved!locals, Etc!past, Proved!past,
       Etc!Trusted, Proved!Trusted, Etc!TrustedIn, Proved!TrustedIn,
       Etc!Names, Proved!Names, Etc!Feeds, Proved!Feeds,
       Etc!Config, Proved!Config,
       Etc!Enable, Proved!Enable, Etc!Disable, Proved!Disable,
       Etc!Exit, Proved!Exit, Etc!Kill, Proved!Kill,
       Etc!Undetermined, Proved!Undetermined,
       Etc!Vanish, Proved!Vanish, Etc!Replies, Proved!Replies,
       Etc!Steps, Proved!Steps, Etc!EnableSteps, Proved!EnableSteps,
       Etc!UndoSteps, Proved!UndoSteps, Etc!DisableSteps,
       Proved!DisableSteps

(* The NixOS activation's link, the only change that is not an applier's.  *)
Relinked ==
  /\ managed /\ Free
  /\ file' = [file EXCEPT ![Etc!Config] = Link]
  /\ UNCHANGED <<bak, managed, enabled, pc, arg, todo, backed, written, here,
                 nixos, prior, ran, failed, before, kept, intact>>

----------------------------------------------------------------------------
(* Types.  What a unit hands to an applier has a feed.                     *)
Ours ==
  /\ table \in (Rulesets \ {NoPops}) \cup {None}
  /\ stray \in Strays
  /\ cache \in 0 .. Len(Feed)
  /\ net \in 1 .. Len(Feed) /\ due \in BOOLEAN
  /\ step \in [Actors -> Steps]
  /\ own \in [Units -> SUBSET Codes]
  /\ rev \in [Units -> 0 .. Len(Feed)]
  /\ online \in BOOLEAN /\ alone \in [Units -> BOOLEAN]
  /\ last \in Snaps \cup {None}
  /\ \A u \in Units : step[u] = "call" => rev[u] \in 1 .. Len(Feed)

TypeInv == Ours /\ Proved!TypeInv

LEMMA TypesMean == TypeInv => TypeOK
BY DEF TypeInv, Ours, TypeOK, Proved!TypeInv, Proved!TypeOK, Etc!TypeOK,
       Proved!Dirs, Etc!Dirs, Proved!Contents, Etc!Contents,
       Proved!Names, Etc!Names, Proved!Feeds, Etc!Feeds,
       Proved!Config, Etc!Config, Proved!Steps, Etc!Steps,
       Proved!EnableSteps, Etc!EnableSteps, Proved!UndoSteps,
       Etc!UndoSteps, Proved!DisableSteps, Etc!DisableSteps,
       Proved!Replies, Etc!Replies

(* What /etc/regionlock goes through.                                      *)
LEMMA EtcStep ==
  ASSUME TypeInv, [Next]_vars
  PROVE  Relinked \/ [Proved!Next]_(Proved!vars)
<1> USE DEF Proved!vars
<1>1. CASE Elsewhere \/ UNCHANGED vars
  BY <1>1, ElsewhereStep DEF vars, etc
<1>2. ASSUME NEW a \in Actors, Call(a) PROVE Proved!Next
  <2>1. CASE a = "timer"
    <3>1. [desired |-> own[a], rev |-> rev[a]] \in Snaps
      BY <1>2, <2>1 DEF Call, Sends, TypeInv, Ours, Units, Snaps
    <3> QED
      BY <1>2, <2>1, <3>1, CallIsPersists DEF Call, Sends, Proved!Next
  <2>2. CASE a = "user"
    BY <1>2, <2>2, CallIsPersists DEF Call, Sends, Proved!Next
  <2> QED BY <1>2, <2>1, <2>2 DEF Call, Sends
<1>3. ASSUME NEW a \in Actors, Return(a) \/ Lost(a) PROVE Proved!Next
  BY <1>3, CallIsPersists
     DEF Return, Lost, Killed, Proved!Next, Proved!Operate
<1>4. CASE Work
  BY <1>4, WorkIsPersists DEF Work, Proved!Next
<1>5. CASE Reboot
  BY <1>5, CallIsPersists
     DEF Reboot, Halt, Killed, Relinked, etc, Proved!Next
<1> QED BY <1>1, <1>2, <1>3, <1>4, <1>5 DEF Next, Elsewhere

LEMMA EtcTypes == ASSUME TypeInv, [Next]_vars PROVE Proved!TypeInv'
<1>1. CASE [Proved!Next]_(Proved!vars)
  BY <1>1, EtcConstants, Proved!TypeStep DEF TypeInv
<1>2. CASE Relinked
  <2>1. Proved!TypeInv
    BY DEF TypeInv
  <2>2. file' \in Proved!Dirs
    BY <1>2, <2>1, EtcNames DEF Relinked, Proved!TypeInv, Proved!TypeOK,
       Proved!Dirs, Proved!Contents
  <2>3. Proved!TypeOK'
    BY <1>2, <2>1, <2>2 DEF Relinked, Proved!TypeInv, Proved!TypeOK
  <2>4. Proved!Shape'
    BY <1>2, <2>1 DEF Relinked, Proved!TypeInv, Proved!Shape
  <2> QED BY <2>3, <2>4 DEF Proved!TypeInv
<1> QED BY <1>1, <1>2, EtcStep

LEMMA EtcRevisions ==
  ASSUME NEW S \in SUBSET Etc!Feeds, S # {}
  PROVE  Max(S) \in S /\ Max(S) \in 1 .. Len(Feed)
           /\ \A r \in S : Max(S) >= r
<1>1. S \in SUBSET (1 .. Len(Feed))
  BY EtcNames
<1> QED BY <1>1, FeedsOf, MaxIsLargest

LEMMA InstalledType ==
  ASSUME TypeInv, NEW u \in Units, step[u] = "call"
  PROVE  Installed(u) \in (Rulesets \ {NoPops}) \cup {None}
<1>1. Feed[rev[u]] \in Feeds
  BY FeedsOf DEF TypeInv, Ours
<1> QED BY <1>1, BuildIsRuleset DEF Installed

LEMMA LoadTypes ==
  ASSUME TypeInv, NEW u \in Units, LoadConfig(u) \/ LoadFeed(u)
  PROVE  Ours'
<1> USE DEF TypeInv, Ours
<1>1. CASE LoadConfig(u)
  <2>1. EtcBlocklist \in SUBSET Codes
    <3>1. \A s \in Snaps : s.desired \in SUBSET Codes
      BY DEF Snaps
    <3> QED BY <3>1, BootAssumption DEF EtcBlocklist
  <2>2. Resolved \in SUBSET Codes
    BY <2>1, BootAssumption DEF Resolved
  <2>3. own' \in [Units -> SUBSET Codes]
    BY <1>1, <2>1, <2>2 DEF LoadConfig, Starts
  <2>4. alone' \in [Units -> BOOLEAN]
    BY <1>1 DEF LoadConfig, Free, Proved!TypeInv, Proved!TypeOK
  <2>5. /\ step' \in [Actors -> Steps]
        /\ \A v \in Units : step'[v] = "call" => step[v] = "call"
    BY <1>1 DEF LoadConfig, Goto, Steps, Actors, Units
  <2> QED BY <1>1, <2>3, <2>4, <2>5 DEF LoadConfig, home
<1>2. CASE LoadFeed(u)
  <2>1. CASE End(u, "idle") /\ UNCHANGED cache
    <3>1. /\ step' \in [Actors -> Steps]
          /\ \A v \in Units : step'[v] = "call" => v # u /\ step[v] = "call"
      BY <2>1 DEF End, Goto, Steps, Actors, Units
    <3>2. /\ own' \in [Units -> SUBSET Codes]
          /\ rev' \in [Units -> 0 .. Len(Feed)]
          /\ \A v \in Units \ {u} : rev'[v] = rev[v]
      BY <2>1, FeedsOf DEF End, Forget
    <3>3. online' \in BOOLEAN /\ alone' \in [Units -> BOOLEAN]
      BY <2>1, Zenon DEF End
    <3> QED BY <1>2, <2>1, <3>1, <3>2, <3>3 DEF LoadFeed
  <2>2. ASSUME NEW up \in BOOLEAN, Finds(u, up), Goto(u, "call"),
               online' = (IF u = "timer" THEN up ELSE online),
               UNCHANGED <<own, alone>>
        PROVE  Ours'
    <3>1. PICK r \in 1 .. Len(Feed) : Found(u, r)
      <4>1. CASE FromEtc(u)
        BY <4>1, EtcRevisions DEF FromEtc
      <4>2. CASE FromCache(u) \/ FromNet(u)
        BY <4>2 DEF FromCache, FromNet
      <4> QED BY <2>2, <4>1, <4>2 DEF Finds, Acquires, Loads
    <3>2. cache' \in 0 .. Len(Feed)
      BY <2>2 DEF Finds, FromEtc, FromCache, FromNet, Acquires, Loads
    <3>3. /\ step' \in [Actors -> Steps]
          /\ \A v \in Units : step'[v] = "call" => v = u \/ step[v] = "call"
      BY <2>2 DEF Goto, Steps, Actors, Units
    <3>4. /\ rev' \in [Units -> 0 .. Len(Feed)] /\ rev'[u] = r
          /\ \A v \in Units \ {u} : rev'[v] = rev[v]
      BY <3>1, FeedsOf DEF Found
    <3> QED BY <1>2, <2>2, <3>2, <3>3, <3>4 DEF LoadFeed
  <2> QED BY <1>2, <2>1, <2>2 DEF LoadFeed
<1> QED BY <1>1, <1>2

(* Ending and calling, which most steps do.                                *)
LEMMA EndTypes ==
  ASSUME TypeInv, NEW a \in Actors, NEW s \in Steps \ {"call"}, End(a, s)
  PROVE  /\ step' \in [Actors -> Steps]
         /\ own' \in [Units -> SUBSET Codes]
         /\ rev' \in [Units -> 0 .. Len(Feed)]
         /\ online' \in BOOLEAN /\ alone' \in [Units -> BOOLEAN]
         /\ \A u \in Units : step'[u] = "call" => rev'[u] \in 1 .. Len(Feed)
<1> USE DEF TypeInv, Ours
<1>1. /\ step' \in [Actors -> Steps]
      /\ \A v \in Units : step'[v] = "call" => v # a /\ step[v] = "call"
  BY DEF End, Goto, Actors
<1>2. /\ own' \in [Units -> SUBSET Codes]
      /\ rev' \in [Units -> 0 .. Len(Feed)]
      /\ \A v \in Units \ {a} : rev'[v] = rev[v]
  BY FeedsOf DEF End, Forget
<1>3. online' \in BOOLEAN
  BY Zenon DEF End
<1>4. alone' \in [Units -> BOOLEAN]
  BY Zenon DEF End
<1> QED BY <1>1, <1>2, <1>3, <1>4

LEMMA OursStep == ASSUME TypeInv, [Next]_vars PROVE Ours'
<1> USE DEF TypeInv, Ours
<1>1. ASSUME NEW u \in Units, LoadConfig(u) \/ LoadFeed(u) PROVE Ours'
  BY <1>1, LoadTypes
<1>2. CASE StartUnit
  <2>1. /\ step' \in [Actors -> Steps]
        /\ \A v \in Units : step'[v] = "call" => step[v] = "call"
    BY <1>2 DEF StartUnit, Goto, Steps, Actors, Units
  <2> QED BY <1>2, <2>1 DEF StartUnit, home
<1>3. CASE ApplyUnit
  <2>1. /\ table' \in (Rulesets \ {NoPops}) \cup {None}
        /\ \E s \in Steps \ {"call"} : End("unit", s)
    BY <1>3, InstalledType DEF ApplyUnit, Steps, Units
  <2> QED BY <1>3, <2>1, EndTypes DEF ApplyUnit, home, Actors, Units
<1>4. CASE StopUnit
  <2>1. /\ table' \in (Rulesets \ {NoPops}) \cup {None}
        /\ \E s \in Steps \ {"call"} : End("unit", s)
    BY <1>4 DEF StopUnit, Steps, Units
  <2> QED BY <1>4, <2>1, EndTypes DEF StopUnit, home, Actors, Units
<1>5. ASSUME NEW a \in Actors, Call(a) PROVE Ours'
  <2>1. /\ step' \in [Actors -> Steps]
        /\ \A v \in Units : step'[v] = "call" => v # a /\ step[v] = "call"
    BY <1>5 DEF Call, Goto, Steps, Actors, Units
  <2>2. /\ own' \in [Units -> SUBSET Codes]
        /\ rev' \in [Units -> 0 .. Len(Feed)]
        /\ \A v \in Units \ {a} : rev'[v] = rev[v]
    BY <1>5, FeedsOf DEF Call, Forget
  <2>3. alone' \in [Units -> BOOLEAN]
    BY <1>5, Zenon DEF Call, Crowd
  <2> QED BY <1>5, <2>1, <2>2, <2>3 DEF Call, home
<1>6. CASE Decline
  <2>1. End("timer", "idle") /\ "idle" \in Steps \ {"call"}
    BY <1>6 DEF Decline, Steps
  <2> QED BY <1>6, <2>1, EndTypes DEF Decline, home, Actors, Units
<1>7. ASSUME NEW a \in Actors, Return(a) PROVE Ours'
  <2>1. arg \in Snaps \cup {None}
    BY DEF Proved!TypeInv, Proved!TypeOK
  <2>2. End(a, "idle") /\ "idle" \in Steps \ {"call"}
    BY <1>7 DEF Return, Steps
  <2>3. last' \in Snaps \cup {None}
    BY <1>7, <2>1 DEF Return
  <2> QED BY <1>7, <2>2, <2>3, EndTypes DEF Return, home
<1>8. ASSUME NEW a \in Actors, Lost(a) PROVE Ours'
  <2>1. End(a, "idle") /\ "idle" \in Steps \ {"call"}
    BY <1>8 DEF Lost, Steps
  <2> QED BY <1>8, <2>1, EndTypes DEF Lost, home
<1>9. CASE Work
  BY <1>9 DEF Work, home, processes
<1>10. CASE Publish
  BY <1>10, FeedsOf DEF Publish, home, processes
<1>11. CASE Reboot
  <2>1. due' \in BOOLEAN
    BY <1>11, Zenon DEF Reboot, Proved!TypeInv, Proved!TypeOK
  <2>2. /\ step' \in [Actors -> Steps]
        /\ \A v \in Units : step'[v] # "call"
    BY <1>11 DEF Reboot, Steps, Actors, Units
  <2>3. last' \in Snaps \cup {None}
    BY <1>11 DEF Reboot
  <2>4. /\ own' \in [Units -> SUBSET Codes]
        /\ rev' \in [Units -> 0 .. Len(Feed)]
    BY <1>11, FeedsOf DEF Reboot
  <2>5. online' \in BOOLEAN /\ alone' \in [Units -> BOOLEAN]
    BY <1>11, Zenon DEF Reboot
  <2>6. /\ table' = None /\ UNCHANGED <<stray, cache, net>>
    BY <1>11 DEF Reboot, home
  <2> QED BY <2>1, <2>2, <2>3, <2>4, <2>5, <2>6
<1>12. CASE UNCHANGED vars
  BY <1>12 DEF vars, home, processes
<1> QED
  BY <1>1, <1>2, <1>3, <1>4, <1>5, <1>6, <1>7, <1>8, <1>9, <1>10, <1>11,
     <1>12 DEF Next

LEMMA EtcInitially == Init => Proved!Init
BY DEF Init, Etc!Init, Proved!Init, Etc!Idle, Proved!Idle

LEMMA TypeInitially == Init => TypeInv
<1> SUFFICES ASSUME Init PROVE TypeInv
  OBVIOUS
<1>1. Proved!TypeInv
  BY EtcInitially, EtcConstants, Proved!TypeInitially
<1>2. due \in BOOLEAN
  BY Zenon DEF Init, Etc!Init
<1>3. /\ step \in [Actors -> Steps]
      /\ \A u \in Units : step[u] # "call"
  BY DEF Init, Steps, Actors, Units
<1>4. /\ own \in [Units -> SUBSET Codes]
      /\ rev \in [Units -> 0 .. Len(Feed)]
  BY FeedsOf DEF Init
<1>5. online \in BOOLEAN /\ alone \in [Units -> BOOLEAN]
  BY Zenon DEF Init
<1>6. Ours
  BY <1>2, <1>3, <1>4, <1>5, FeedsOf DEF Init, Ours
<1> QED BY <1>1, <1>6 DEF TypeInv

LEMMA Types == Spec => []TypeInv
<1>1. TypeInv /\ [Next]_vars => TypeInv'
  BY OursStep, EtcTypes DEF TypeInv
<1> QED BY <1>1, TypeInitially, PTL DEF Spec

(* Whatever units and users do between any number of boots, what they      *)
(* load is of a revision that was published, and the firewall holds no     *)
(* empty table.                                                            *)
THEOREM BootTypeCorrect == Spec => []TypeOK
BY Types, TypesMean, PTL

----------------------------------------------------------------------------
(* Turns.  The applier works for one process at a time, never for the boot *)
(* unit; and a unit that is alone found /etc/regionlock at rest, and whole *)
(* but for what it has its own applier do.                                 *)
Turns ==
  /\ step["unit"] # "etc"
  /\ \A a, b \in Actors : step[a] = "etc" /\ step[b] = "etc" => a = b
  /\ pc = "idle" <=> \A a \in Actors : step[a] # "etc"
  /\ managed => step["timer"] = "idle"
  /\ \A u \in Units : alone[u] =>
       /\ intact /\ step[u] \in {"feed", "call", "etc"}
       /\ step[u] = "etc" \/ pc = "idle"

(* The applier at work stays at it, with the snapshot it was given.        *)
LEMMA WorkStep ==
  ASSUME WorkEtc
  PROVE  pc # "idle" /\ pc' # "idle" /\ UNCHANGED <<arg, managed, intact>>
<1> USE DEF Etc!Goto, Etc!unit, Etc!probe, Etc!locals, Etc!past
<1>1. CASE Etc!Recover \/ Etc!Detect \/ Etc!BackUp
  BY <1>1 DEF Etc!Recover, Etc!RecoverOne, Etc!Recovered, Etc!Detect,
     Etc!BackUp, Etc!BackUpOne, Etc!BackedUp
<1>2. CASE Etc!WriteConfig \/ Etc!WriteFeed \/ Etc!EnableUnit \/ Etc!Drop
  BY <1>2 DEF Etc!WriteConfig, Etc!WriteFeed, Etc!Write, Etc!EnableUnit,
     Etc!Drop, Etc!DropOne, Etc!Dropped
<1>3. CASE Etc!Rollback
  BY <1>3 DEF Etc!Rollback, Etc!UndoWrite, Etc!UndoneWrites,
     Etc!RestoreOne, Etc!Restored, Etc!Compensate
<1>4. CASE Etc!DetectForDisable \/ Etc!DisableUnit \/ Etc!Sweep \/ Etc!Swept
  BY <1>4 DEF Etc!DetectForDisable, Etc!DisableUnit, Etc!Sweep, Etc!Swept
<1> QED BY <1>1, <1>2, <1>3, <1>4 DEF WorkEtc

LEMMA CallStep ==
  ASSUME NEW a \in Actors, Sends(a)
  PROVE  /\ a \in {"timer", "user"} /\ pc = "idle" /\ pc' # "idle"
         /\ a = "timer" => step[a] = "call"
         /\ UNCHANGED <<file, bak, managed, enabled, intact>>
BY DEF Sends, Etc!Enable, Etc!Disable, Etc!Goto, Etc!unit, Etc!past,
       Etc!locals

LEMMA ExitStep ==
  ASSUME Etc!Exit \/ Etc!Kill
  PROVE  /\ pc # "idle" /\ pc' = "idle"
         /\ UNCHANGED <<file, bak, managed, enabled>>
BY DEF Etc!Exit, Etc!Kill, Etc!Vanish, Etc!Replies, Etc!Steps,
       Etc!EnableSteps, Etc!UndoSteps, Etc!DisableSteps, Etc!unit

(* A process that ends leaves the others where they are.                   *)
LEMMA EndStep ==
  ASSUME TypeInv, NEW a \in Actors, NEW s, End(a, s)
  PROVE  /\ step' = [step EXCEPT ![a] = s] /\ step'[a] = s
         /\ \A b \in Actors \ {a} : step'[b] = step[b]
         /\ \A u \in Units : alone'[u] <=> alone[u] /\ u # a
         /\ \A u \in Units \ {a} : own'[u] = own[u] /\ rev'[u] = rev[u]
         /\ online' <=> online /\ a # "timer"
BY DEF End, Goto, Forget, TypeInv, Ours

LEMMA TurnsStep == ASSUME TypeInv, Turns, [Next]_vars PROVE Turns'
<1> USE DEF Turns, Actors, Units
<1>0. /\ step \in [Actors -> Steps]
      /\ alone \in [Units -> BOOLEAN]
  BY DEF TypeInv, Ours
<1>1. ASSUME NEW u \in Units, LoadConfig(u) PROVE Turns'
  BY <1>0, <1>1 DEF LoadConfig, Starts, Goto, Free, etc
<1>2. ASSUME NEW u \in Units, LoadFeed(u) PROVE Turns'
  <2>1. CASE End(u, "idle")
    BY <1>2, <2>1, EndStep DEF LoadFeed, etc
  <2>2. CASE Goto(u, "call") /\ UNCHANGED alone
    BY <1>0, <1>2, <2>2 DEF LoadFeed, Goto, etc
  <2> QED BY <1>2, <2>1, <2>2 DEF LoadFeed
<1>3. CASE StartUnit
  BY <1>0, <1>3 DEF StartUnit, Goto, etc
<1>4. CASE ApplyUnit \/ StopUnit \/ Decline
  <2>1. PICK u \in Units, s \in {"applied", "idle"} :
          /\ End(u, s) /\ (u = "unit" \/ s = "idle")
          /\ step[u] # "etc" /\ UNCHANGED etc
    BY <1>4 DEF ApplyUnit, StopUnit, Decline
  <2> QED BY <2>1, EndStep DEF etc
<1>5. ASSUME NEW a \in Actors, Call(a) PROVE Turns'
  <2>1. /\ step' = [step EXCEPT ![a] = "etc"]
        /\ alone' = [u \in Units |-> alone[u] /\ u = a]
    BY <1>5 DEF Call, Goto, Crowd
  <2>2. /\ a \in {"timer", "user"} /\ pc = "idle" /\ pc' # "idle"
        /\ a = "timer" => step[a] = "call"
        /\ UNCHANGED <<managed, intact>>
    BY <1>5, CallStep DEF Call
  <2> QED BY <1>0, <2>1, <2>2
<1>6. ASSUME NEW a \in Actors, Return(a) \/ Lost(a) PROVE Turns'
  <2>1. End(a, "idle") /\ (Etc!Exit \/ Etc!Kill) /\ step[a] = "etc"
    BY <1>6 DEF Return, Lost, Killed
  <2>2. \A b \in Actors \ {a} : step[b] # "etc"
    BY <2>1
  <2>3. \A u \in Units : ~alone'[u]
    BY <2>1, <2>2, ExitStep, EndStep
  <2> QED BY <2>1, <2>2, <2>3, ExitStep, EndStep
<1>7. CASE Work
  BY <1>7, WorkStep DEF Work, processes
<1>8. CASE Publish \/ UNCHANGED vars
  BY <1>8 DEF Publish, vars, processes, etc
<1>9. CASE Reboot
  <2>1. pc' = "idle"
    BY <1>9, ExitStep DEF Reboot, Halt, Killed, Free, etc
  <2>2. \A u \in Units : ~alone'[u]
    BY <1>9, Zenon DEF Reboot
  <2>3. \A a \in Actors : step'[a] = "idle"
    BY <1>9 DEF Reboot
  <2> QED BY <2>1, <2>2, <2>3
<1> QED
  BY <1>1, <1>2, <1>3, <1>4, <1>5, <1>6, <1>7, <1>8, <1>9 DEF Next

----------------------------------------------------------------------------
(* The ledger, for a unit that is not the NixOS module's.  As long as      *)
(* nothing went wrong that nobody undid, /etc/regionlock holds the last    *)
(* persisted snapshot and nothing else, or did when the operation started  *)
(* that can still be refused.                                              *)
Pure == \A n \in Proved!Names : /\ file[n] \notin {Foreign, Link}
                                /\ bak[n] \notin {Foreign, Link}

Holds(dir) ==
  IF last = None THEN \A n \in Proved!Names : ~Proved!Trusted(dir[n])
  ELSE /\ dir[0] = last /\ dir[last.rev] = last
       /\ \A n \in Proved!Feeds \ {last.rev} : ~Proved!Trusted(dir[n])

Ledger ==
  intact =>
    /\ pc \in {"idle", "recover", "detect"} => Holds(file)
    /\ pc \in Proved!Refusable => Holds(before.file)
    /\ pc = "refused" /\ ~failed => Holds(before.file)

SnapInv == Proved!SoundInv /\ Pure /\ Ledger

LEMMA SoundMeans ==
  ASSUME Proved!SoundInv
  PROVE  /\ Proved!TypeInv /\ Proved!Shape /\ Proved!Placed
         /\ Proved!Removed /\ Proved!Faithful
BY DEF Proved!SoundInv, Proved!FaithfulInv, Proved!KeptInv,
       Proved!CopiesInv, Proved!PlacedInv, Proved!UnitInv, Proved!TypeInv

(* Every entry is written by a snapshot, or moved.                         *)
LEMMA PureStep ==
  ASSUME Proved!SoundInv, Pure, [Proved!Next]_(Proved!vars)
  PROVE  Pure'
<1>0. /\ file \in Proved!Dirs /\ bak \in Proved!Dirs
      /\ backed \subseteq Proved!Names /\ todo \subseteq Proved!Names
      /\ written \subseteq Proved!Names /\ Proved!Shape
      /\ None \notin {Foreign, Link}
  BY EtcConstants, SoundMeans, Proved!Basics, BootAssumption
<1>a. ASSUME NEW dir \in Proved!Dirs, NEW n \in Proved!Names, NEW content
      PROVE  \A m \in Proved!Names :
               /\ Proved!Without(dir, n)[m] =
                    IF m = n THEN None ELSE dir[m]
               /\ Proved!With(dir, n, content)[m] =
                    IF m = n THEN content ELSE dir[m]
  BY <1>a, EtcConstants, Proved!Entry
<1> USE DEF Pure
<1>1. CASE Proved!RecoverOne
  BY <1>0, <1>1, <1>a DEF Proved!RecoverOne
<1>2. CASE Proved!BackUpOne
  BY <1>0, <1>2, <1>a DEF Proved!BackUpOne
<1>3. CASE Proved!WriteConfig \/ Proved!WriteFeed
  <2>1. PICK n \in Proved!Names :
          UNCHANGED bak
            /\ (UNCHANGED file \/ file' = Proved!With(file, n, arg))
    BY <1>0, <1>3, EtcConstants, Proved!NamesOfSnaps
       DEF Proved!WriteConfig, Proved!WriteFeed, Proved!Write, Proved!Shape,
           Proved!EnableSteps
  <2>2. arg \notin {Foreign, Link}
    BY <1>0, <1>3, BootAssumption
       DEF Proved!WriteConfig, Proved!WriteFeed, Proved!Write, Proved!Shape,
           Proved!EnableSteps
  <2> QED BY <1>0, <1>a, <2>1, <2>2
<1>4. CASE Proved!DropOne
  BY <1>0, <1>4, <1>a DEF Proved!DropOne
<1>5. CASE Proved!UndoWrite
  BY <1>0, <1>5, <1>a DEF Proved!UndoWrite
<1>6. CASE Proved!RestoreOne
  BY <1>0, <1>6, <1>a DEF Proved!RestoreOne
<1>7. CASE Proved!Sweep
  BY <1>0, <1>7, <1>a DEF Proved!Sweep
<1>8. CASE UNCHANGED <<file, bak>>
  BY <1>8
<1> QED
  BY <1>1, <1>2, <1>3, <1>4, <1>5, <1>6, <1>7, <1>8
     DEF Proved!vars, Proved!Next, Proved!Operate, Proved!Enable,
         Proved!Disable, Proved!Recover, Proved!Recovered, Proved!Detect,
         Proved!BackUp, Proved!BackedUp, Proved!EnableUnit, Proved!Drop,
         Proved!Dropped, Proved!Rollback, Proved!UndoneWrites,
         Proved!Restored, Proved!Compensate, Proved!DetectForDisable,
         Proved!DisableUnit, Proved!Swept, Proved!Exit, Proved!Kill

LEMMA LedgerWork ==
  ASSUME SnapInv, Work PROVE Ledger'
<1> USE DEF Proved!Goto, Proved!unit, Proved!probe, Proved!locals,
            Proved!past, Proved!Refusable, Proved!Late, Proved!UndoSteps
<1>1. /\ Proved!Operate /\ pc' # "idle"
      /\ UNCHANGED <<intact, last>>
  BY WorkIsPersists, WorkStep DEF Work
<1>2. SUFFICES ASSUME intact PROVE Ledger'
  BY <1>1 DEF Ledger
<1>3. Ledger
  BY DEF SnapInv
<1>a. ASSUME UNCHANGED file, Holds(file) PROVE Holds(file)'
  BY <1>a, <1>1 DEF Holds
<1>b. ASSUME UNCHANGED before, Holds(before.file) PROVE Holds(before.file)'
  BY <1>b, <1>1 DEF Holds
<1>4. CASE Proved!Recover
  <2>1. ~Proved!RecoverOne
    BY <1>2, EtcConstants, Proved!NothingToRecover DEF SnapInv
  <2>2. pc = "recover" /\ pc' = "detect" /\ UNCHANGED file
    BY <1>4, <2>1 DEF Proved!Recover, Proved!Recovered
  <2> QED BY <1>2, <1>3, <1>a, <2>2 DEF Ledger
<1>5. CASE Proved!Detect
  <2>1. /\ pc = "detect" /\ pc' \in {"backup", "refused"}
        /\ before'.file = file
    BY <1>5 DEF Proved!Detect
  <2>2. Holds(file) => Holds(before.file)'
    BY <1>1, <2>1 DEF Holds
  <2> QED BY <1>2, <1>3, <2>1, <2>2 DEF Ledger
<1>6. CASE Proved!BackUp \/ Proved!WriteConfig \/ Proved!WriteFeed
             \/ Proved!EnableUnit
  <2>1. /\ pc \in Proved!Late /\ pc' \in Proved!Late \cup {"drop"}
        /\ UNCHANGED before
    BY <1>6 DEF Proved!BackUp, Proved!BackUpOne, Proved!BackedUp,
       Proved!WriteConfig, Proved!WriteFeed, Proved!Write,
       Proved!EnableUnit
  <2> QED BY <1>2, <1>3, <1>b, <2>1 DEF Ledger
<1>7. CASE Proved!Drop
  <2>1. pc' \in {"drop", "persisted"}
    BY <1>7 DEF Proved!Drop, Proved!DropOne, Proved!Dropped
  <2> QED BY <2>1 DEF Ledger
<1>8. CASE Proved!Rollback
  <2>1. /\ pc \in Proved!Late /\ pc' \in Proved!Late \cup {"refused"}
        /\ UNCHANGED before
    BY <1>8 DEF Proved!Rollback, Proved!UndoWrite, Proved!UndoneWrites,
       Proved!RestoreOne, Proved!Restored, Proved!Compensate
  <2> QED BY <1>2, <1>3, <1>b, <2>1 DEF Ledger
<1>9. CASE Proved!DetectForDisable \/ Proved!DisableUnit
  <2>1. /\ pc \in {"ddetect", "disable"}
        /\ pc' \in {"disable", "sweep", "refused"} /\ UNCHANGED before
    BY <1>9 DEF Proved!DetectForDisable, Proved!DisableUnit
  <2> QED BY <1>2, <1>3, <1>b, <2>1 DEF Ledger
<1>10. CASE Proved!Sweep \/ Proved!Swept
  <2>1. pc' \in {"sweep", "unpersisted"} \/ (pc' = "refused" /\ failed')
    BY <1>10 DEF Proved!Sweep, Proved!Swept
  <2> QED BY <2>1 DEF Ledger
<1>11. ~Proved!Exit
  BY <1>1 DEF Proved!Exit, Proved!Vanish
<1> QED
  BY <1>1, <1>4, <1>5, <1>6, <1>7, <1>8, <1>9, <1>10, <1>11
     DEF Proved!Operate

LEMMA LedgerReturn ==
  ASSUME TypeInv, SnapInv, NEW a \in Actors, Return(a) PROVE Ledger'
<1>1. /\ pc' = "idle" /\ UNCHANGED file
      /\ pc \in {"persisted", "unpersisted", "refused"}
      /\ last' = CASE pc = "persisted"   -> arg
                   [] pc = "unpersisted" -> None
                   [] OTHER              -> last
      /\ Proved!Exit
  BY CallIsPersists
     DEF Return, Etc!Exit, Etc!Vanish, Etc!Replies
<1>2. SUFFICES ASSUME intact' PROVE Holds(file)'
  BY <1>1 DEF Ledger, Proved!Refusable, Proved!Late, Proved!UndoSteps
<1>3. /\ Proved!Shape /\ Proved!Placed /\ Proved!Removed /\ Proved!Faithful
      /\ Ledger
  BY SoundMeans DEF SnapInv
<1> USE DEF Holds
<1>4. CASE pc = "persisted"
  <2>1. /\ arg \in Snaps /\ arg # None /\ last' = arg
    BY <1>1, <1>3, <1>4, BootAssumption DEF Proved!Shape
  <2>2. /\ file[0] = arg /\ file[arg.rev] = arg
        /\ \A n \in Proved!Feeds \ {arg.rev} : ~Proved!Trusted(file[n])
    BY <1>3, <1>4, <2>1, EtcNames DEF Proved!Placed
  <2> QED BY <1>1, <2>1, <2>2 DEF Proved!Trusted
<1>5. CASE pc = "unpersisted"
  <2>1. last' = None /\ \A n \in Proved!Names : ~Proved!Trusted(file[n])
    BY <1>1, <1>3, <1>5 DEF Proved!Removed
  <2> QED BY <1>1, <2>1 DEF Proved!Trusted
<1>6. CASE pc = "refused"
  <2>1. intact /\ ~failed /\ last' = last
    BY <1>1, <1>2, <1>6 DEF Proved!Exit
  <2>2. Holds(before.file)
    BY <1>3, <1>6, <2>1 DEF Ledger
  <2>3. \A n \in Proved!Names :
          Proved!Trusted(file[n]) \/ Proved!Trusted(before.file[n]) =>
            file[n] = before.file[n]
    BY <1>3, <1>6, <2>1 DEF Proved!Faithful, Proved!Same
  <2>4. CASE last = None
    BY <1>1, <2>1, <2>2, <2>3, <2>4 DEF Proved!Trusted
  <2>5. CASE last # None
    <3>1. /\ last \in Snaps /\ last.rev \in Proved!Names
          /\ 0 \in Proved!Names /\ Proved!Feeds \subseteq Proved!Names
      BY <2>5, EtcNames DEF TypeInv, Ours
    <3>2. file[0] = last /\ file[last.rev] = last
      BY <2>2, <2>3, <2>5, <3>1 DEF Proved!Trusted
    <3>3. \A n \in Proved!Feeds \ {last.rev} : ~Proved!Trusted(file[n])
      BY <2>2, <2>3, <2>5, <3>1 DEF Proved!Trusted
    <3> QED BY <1>1, <2>1, <2>5, <3>2, <3>3 DEF Proved!Trusted
  <2> QED BY <2>4, <2>5
<1> QED BY <1>1, <1>4, <1>5, <1>6

(* Nobody installs or removes NixOS.                                       *)
LEMMA ManagedStays == ASSUME [Next]_vars PROVE UNCHANGED managed
<1>1. CASE Elsewhere \/ UNCHANGED vars
  BY <1>1, ElsewhereStep DEF vars, etc
<1>2. ASSUME NEW a \in Actors, Call(a) PROVE UNCHANGED managed
  BY <1>2, CallStep DEF Call
<1>3. ASSUME NEW a \in Actors, Return(a) \/ Lost(a) PROVE UNCHANGED managed
  BY <1>3, ExitStep DEF Return, Lost, Killed
<1>4. CASE Work
  BY <1>4, WorkStep DEF Work
<1>5. CASE Reboot
  BY <1>5, ExitStep DEF Reboot, Halt, Killed, etc
<1> QED BY <1>1, <1>2, <1>3, <1>4, <1>5 DEF Next, Elsewhere

LEMMA LedgerStep ==
  ASSUME TypeInv, ~managed, SnapInv, [Next]_vars PROVE Ledger'
<1>0. Ledger
  BY DEF SnapInv
<1>a. ASSUME UNCHANGED <<file, last>>, Holds(file) PROVE Holds(file)'
  BY <1>a DEF Holds
<1> USE DEF Proved!Refusable, Proved!Late, Proved!UndoSteps
<1>1. CASE UNCHANGED <<etc, last>>
  BY <1>0, <1>1 DEF Ledger, Holds, etc
<1>2. CASE Elsewhere \/ UNCHANGED vars
  BY <1>1, <1>2, ElsewhereStep DEF vars
<1>3. ASSUME NEW a \in Actors, Call(a) PROVE Ledger'
  <2>1. /\ pc = "idle" /\ UNCHANGED <<file, intact, last>>
        /\ \/ pc' = "recover"
           \/ pc' = "ddetect" /\ before'.file = file
    <3>1. pc = "idle" /\ UNCHANGED <<file, intact, last>>
      BY <1>3, CallStep DEF Call
    <3>2. ASSUME NEW s, Etc!Enable(s) PROVE pc' = "recover"
      BY <3>2 DEF Etc!Enable, Etc!Goto
    <3>3. ASSUME Etc!Disable PROVE pc' = "ddetect" /\ before'.file = file
      BY <3>3 DEF Etc!Disable, Etc!Goto
    <3> QED BY <1>3, <3>1, <3>2, <3>3 DEF Call, Sends
  <2>2. Holds(file) => Holds(before.file)' \/ pc' = "recover"
    BY <2>1 DEF Holds
  <2> QED BY <1>0, <1>a, <2>1, <2>2 DEF Ledger
<1>4. ASSUME NEW a \in Actors, Return(a) PROVE Ledger'
  BY <1>4, LedgerReturn
<1>5. ASSUME NEW a \in Actors, Lost(a) PROVE Ledger'
  BY <1>5 DEF Lost, Killed, Etc!Kill, Ledger
<1>6. CASE Work
  BY <1>6, LedgerWork
<1>7. CASE Reboot
  <2>1. CASE Killed
    BY <2>1 DEF Killed, Etc!Kill, Ledger
  <2>2. CASE Free /\ UNCHANGED etc
    <3>1. SUFFICES ASSUME intact' PROVE Ledger'
      BY DEF Ledger
    <3>2. UNCHANGED last
      BY <1>7, <3>1 DEF Reboot
    <3> QED BY <1>1, <2>2, <3>2
  <2> QED BY <1>7, <2>1, <2>2 DEF Reboot, Halt
<1> QED BY <1>2, <1>3, <1>4, <1>5, <1>6, <1>7 DEF Next, Elsewhere

LEMMA UnmanagedStep ==
  ASSUME TypeInv, ~managed, [Next]_vars
  PROVE  [Proved!Next]_(Proved!vars) /\ ~managed'
BY EtcStep, ManagedStays DEF Relinked

(* Where no NixOS keeps /etc/regionlock, its appliers keep the promise of  *)
(* Snapshot to the commands and units that call them, whatever starts,     *)
(* fails, is refused or is killed, and over any number of reboots: between *)
(* two boots the snapshot is replaced whole or not at all, and a reply     *)
(* says which.                                                             *)
THEOREM SnapshotKeepsPromise == Spec /\ ~managed => Proved!ReplacesWhole
<1>1. Proved!Spec => Proved!ReplacesWhole
  BY EtcConstants, Proved!ReplacesWholeHolds
<1>2. Spec /\ ~managed => Proved!Spec
  BY EtcInitially, UnmanagedStep, Types, PTL DEF Spec, Proved!Spec
<1> QED BY <1>1, <1>2, PTL

Booted == TypeInv /\ Turns /\ (~managed => SnapInv)

LEMMA BootedStep == ASSUME Booted, [Next]_vars PROVE Booted'
<1> USE DEF Booted
<1>1. TypeInv' /\ Turns'
  BY OursStep, EtcTypes, TurnsStep DEF TypeInv
<1>2. ASSUME ~managed PROVE SnapInv'
  <2>1. [Proved!Next]_(Proved!vars)
    BY <1>2, EtcStep DEF Relinked
  <2>2. Proved!SoundInv'
    BY <1>2, <2>1, EtcConstants, Proved!SoundInvStep DEF SnapInv
  <2>3. Pure'
    BY <1>2, <2>1, PureStep DEF SnapInv
  <2> QED BY <1>2, <2>2, <2>3, LedgerStep DEF SnapInv
<1> QED BY <1>1, <1>2, ManagedStays

LEMMA BootedInitially == Init => Booted
<1> SUFFICES ASSUME Init PROVE Booted
  OBVIOUS
<1>1. TypeInv
  BY TypeInitially
<1>2. pc = "idle" /\ \A u \in Units : ~alone[u]
  BY DEF Init, Etc!Init, Etc!Idle
<1>3. \A a \in Actors : step[a] = "idle"
  BY DEF Init
<1>4. Turns
  BY <1>2, <1>3 DEF Turns, Actors, Units
<1>5. ASSUME ~managed PROVE SnapInv
  <2>1. Proved!SoundInv
    BY EtcInitially, EtcConstants, Proved!SoundInitially
  <2>2. \A n \in Proved!Names : file[n] = None /\ bak[n] = None
    <3>1. Proved!Names = {0} \cup {s.rev : s \in Snaps}
      BY DEF Proved!Names, Proved!Config, Proved!Feeds
    <3>2. \A n \in Proved!Names : Bare[n] = None
      BY <3>1 DEF Bare
    <3>3. /\ bak = Bare /\ file \in {Bare, [Bare EXCEPT ![0] = Link]}
          /\ file[0] = None
      BY <1>5, EtcNames DEF Init, Etc!Init
    <3>4. file = Bare
      BY <3>1, <3>3, BootAssumption DEF Bare
    <3> QED BY <3>2, <3>3, <3>4
  <2>3. Pure
    BY <2>2, BootAssumption DEF Pure
  <2>4. last = None /\ None \notin Snaps
    BY BootAssumption DEF Init
  <2>5. Holds(file)
    BY <2>2, <2>4 DEF Holds, Proved!Trusted
  <2> QED
    BY <1>2, <2>1, <2>3, <2>5
       DEF SnapInv, Ledger, Proved!Refusable, Proved!Late, Proved!UndoSteps
<1> QED BY <1>1, <1>4, <1>5 DEF Booted

LEMMA Boots == Spec => []Booted
BY BootedInitially, BootedStep, PTL DEF Spec

----------------------------------------------------------------------------
(* What units know.  Whoever is alone still has, or has had its applier    *)
(* told, what /etc/regionlock said when it was read.                       *)
LEMMA AloneStep ==
  ASSUME Booted, Next, NEW u \in Units, alone'[u],
         ~LoadConfig(u), ~LoadFeed(u), ~Call(u)
  PROVE  /\ alone[u] /\ step'[u] = step[u]
         /\ own'[u] = own[u] /\ rev'[u] = rev[u]
         /\ UNCHANGED <<last, stray>>
         /\ u = "timer" => (online' <=> online)
         /\ IF step[u] = "etc" THEN UNCHANGED arg ELSE UNCHANGED file
<1>0. /\ TypeInv /\ Turns /\ u \in Actors
      /\ step \in [Actors -> Steps] /\ alone \in [Units -> BOOLEAN]
      /\ own \in [Units -> SUBSET Codes] /\ rev \in [Units -> 0 .. Len(Feed)]
  BY DEF Booted, TypeInv, Ours, Actors
<1>1. ASSUME NEW v \in Units \ {u}, LoadConfig(v) \/ LoadFeed(v)
      PROVE  /\ alone[u] /\ step'[u] = step[u]
             /\ own'[u] = own[u] /\ rev'[u] = rev[u]
             /\ UNCHANGED <<last, stray>>
             /\ u = "timer" => (online' <=> online)
             /\ UNCHANGED <<arg, file>>
  <2>1. v \in Actors
    BY DEF Actors
  <2>2. CASE LoadConfig(v)
    BY <1>0, <2>1, <2>2 DEF LoadConfig, Starts, Goto, home, etc
  <2>3. CASE LoadFeed(v) /\ End(v, "idle") /\ UNCHANGED cache
    BY <1>0, <2>1, <2>3, EndStep DEF LoadFeed, etc, Units
  <2>4. ASSUME LoadFeed(v), NEW up, Finds(v, up), Goto(v, "call"),
               online' = (IF v = "timer" THEN up ELSE online),
               UNCHANGED <<own, alone>>
        PROVE  /\ alone[u] /\ step'[u] = step[u]
               /\ own'[u] = own[u] /\ rev'[u] = rev[u]
               /\ UNCHANGED <<last, stray>>
               /\ u = "timer" => (online' <=> online)
               /\ UNCHANGED <<arg, file>>
    <3>1. rev'[u] = rev[u]
      BY <1>0, <2>4 DEF Finds, FromEtc, FromCache, FromNet, Acquires, Loads,
         Found
    <3>2. step'[u] = step[u]
      BY <1>0, <2>1, <2>4 DEF Goto
    <3>3. UNCHANGED <<last, stray, arg, file>>
      BY <2>4 DEF LoadFeed, etc
    <3>4. u = "timer" => online' = online
      BY <2>4
    <3> QED BY <2>4, <3>1, <3>2, <3>3, <3>4
  <2> QED BY <1>1, <2>2, <2>3, <2>4 DEF LoadFeed
<1>2. ASSUME NEW a \in Actors, NEW s, End(a, s)
      PROVE  /\ a # u /\ alone[u] /\ step'[u] = step[u]
             /\ own'[u] = own[u] /\ rev'[u] = rev[u]
             /\ u = "timer" => (online' <=> online)
  BY <1>0, <1>2, EndStep DEF Units
<1>3. CASE StartUnit
  BY <1>0, <1>3 DEF StartUnit, Goto, home, etc, Turns, Actors, Units
<1>4. CASE ApplyUnit \/ StopUnit \/ Decline
  <2>1. \E a \in Actors, s \in {"applied", "idle"} : End(a, s)
    BY <1>4 DEF ApplyUnit, StopUnit, Decline, Actors, Units
  <2>2. UNCHANGED <<last, stray, arg, file>>
    BY <1>4 DEF ApplyUnit, StopUnit, Decline, home, etc
  <2> QED BY <1>2, <2>1, <2>2
<1>5. ASSUME NEW a \in Actors \ {u}, Call(a) PROVE FALSE
  BY <1>0, <1>5 DEF Call, Crowd
<1>6. ASSUME NEW a \in Actors, Return(a) \/ Lost(a) PROVE FALSE
  <2>1. End(a, "idle") /\ step[a] = "etc" /\ pc # "idle"
    BY <1>6, ExitStep DEF Return, Lost, Killed
  <2>2. a # u /\ alone[u]
    BY <1>2, <2>1
  <2> QED BY <1>0, <2>1, <2>2 DEF Turns
<1>7. CASE Work
  BY <1>0, <1>7, WorkStep DEF Work, processes, home, Turns
<1>8. CASE Publish
  BY <1>8 DEF Publish, processes, home, etc
<1>9. ~Reboot
  BY Zenon DEF Reboot
<1> QED BY <1>1, <1>3, <1>4, <1>5, <1>6, <1>7, <1>8, <1>9 DEF Next

(* No unit knows, keeps or persists a feed that was never published.       *)
Published ==
  /\ cache <= net /\ rev["timer"] <= net
  /\ last # None => last.rev <= net
  /\ arg # None => arg.rev <= net

LEMMA PublishedStep == ASSUME Booted, Published, [Next]_vars PROVE Published'
<1> USE DEF Published
<1>0. /\ TypeInv /\ cache \in 0 .. Len(Feed) /\ net \in 1 .. Len(Feed)
      /\ rev \in [Units -> 0 .. Len(Feed)] /\ last \in Snaps \cup {None}
      /\ arg \in Snaps \cup {None} /\ Len(Feed) \in Nat
      /\ step \in [Actors -> Steps] /\ None \notin Snaps
      /\ \A s \in Snaps : s.rev \in 1 .. Len(Feed)
  BY FeedsOf, BootAssumption
     DEF Booted, TypeInv, Ours, Proved!TypeInv, Proved!TypeOK, Snaps
<1>1. ASSUME NEW u \in Units, LoadConfig(u) PROVE Published'
  BY <1>1 DEF LoadConfig, home, etc
<1>2. ASSUME NEW u \in Units, LoadFeed(u) PROVE Published'
  <2>1. UNCHANGED <<net, last, arg>>
    BY <1>2 DEF LoadFeed, etc
  <2>2. CASE End(u, "idle") /\ UNCHANGED cache
    BY <1>0, <2>1, <2>2 DEF End, Forget, Units
  <2>3. ASSUME NEW up \in BOOLEAN, Finds(u, up) PROVE Published'
    <3>1. cache' <= net
      BY <1>0, <2>3 DEF Finds, FromEtc, FromCache, FromNet, Acquires, Loads
    <3>2. rev'["timer"] <= net
      <4>1. CASE u = "timer"
        BY <1>0, <2>3, <4>1 DEF Finds, Acquires, FromCache, FromNet, Found,
           Units
      <4>2. CASE u = "unit"
        <5>1. \E r : Found(u, r)
          BY <2>3 DEF Finds, FromEtc, FromCache, FromNet, Acquires, Loads
        <5> QED BY <1>0, <4>2, <5>1 DEF Found, Units
      <4> QED BY <4>1, <4>2 DEF Units
    <3> QED BY <2>1, <3>1, <3>2
  <2> QED BY <1>2, <2>2, <2>3 DEF LoadFeed
<1>3. CASE StartUnit
  BY <1>3 DEF StartUnit, home, etc
<1>4. CASE ApplyUnit \/ StopUnit \/ Decline
  <2>1. rev'["timer"] \in {rev["timer"], 0}
    BY <1>4 DEF ApplyUnit, StopUnit, Decline, End, Forget, Units
  <2>2. UNCHANGED <<cache, net, last, arg>>
    BY <1>4 DEF ApplyUnit, StopUnit, Decline, home, etc
  <2> QED BY <1>0, <2>1, <2>2
<1>5. ASSUME NEW a \in Actors, Call(a) PROVE Published'
  <2>1. rev'["timer"] \in {rev["timer"], 0}
    BY <1>5 DEF Call, Forget, Units
  <2>2. UNCHANGED <<cache, net, last>>
    BY <1>5 DEF Call, home
  <2>3. arg' # None => arg'.rev <= net
    <3>1. ASSUME NEW s \in Snaps, s.rev <= net, Etc!Enable(s)
          PROVE  arg'.rev <= net
      BY <3>1 DEF Etc!Enable
    <3>2. CASE a = "timer"
      <4>1. arg' = [desired |-> own[a], rev |-> rev[a]]
        BY <1>5, <3>2 DEF Call, Sends, Etc!Enable
      <4> QED BY <3>2, <4>1
    <3>3. CASE Etc!Disable
      BY <3>3 DEF Etc!Disable, Etc!locals
    <3> QED BY <1>5, <3>1, <3>2, <3>3 DEF Call, Sends
  <2> QED BY <1>0, <2>1, <2>2, <2>3
<1>6. ASSUME NEW a \in Actors, Return(a) \/ Lost(a) PROVE Published'
  <2>1. rev'["timer"] \in {rev["timer"], 0}
    BY <1>6 DEF Return, Lost, End, Forget, Units
  <2>2. UNCHANGED <<cache, net>> /\ arg' = None
          /\ last' \in {arg, None, last}
    BY <1>6 DEF Return, Lost, Killed, home, Etc!Exit, Etc!Kill, Etc!Vanish
  <2> QED BY <1>0, <2>1, <2>2
<1>7. CASE Work
  BY <1>7, WorkStep DEF Work, home, processes
<1>8. CASE Publish
  <2>1. /\ net' = net + 1
        /\ UNCHANGED <<cache, rev, last, arg>>
    BY <1>8 DEF Publish, home, processes, etc
  <2>2. rev["timer"] \in 0 .. Len(Feed)
    BY <1>0 DEF Units
  <2>3. \A n \in Int : n <= net => n <= net'
    BY <1>0, <2>1
  <2>4. /\ last # None => last.rev \in Int
        /\ arg # None => arg.rev \in Int
    BY <1>0
  <2> QED BY <1>0, <2>1, <2>2, <2>3, <2>4
<1>9. CASE Reboot
  <2>1. /\ rev'["timer"] = 0 /\ UNCHANGED <<cache, net>>
        /\ last' \in {last, None}
    BY <1>9 DEF Reboot, Units, home
  <2>2. arg' \in {arg, None}
    BY <1>9 DEF Reboot, Halt, Killed, Etc!Kill, Etc!Vanish, etc
  <2> QED BY <1>0, <2>1, <2>2
<1>10. CASE UNCHANGED vars
  BY <1>10 DEF vars, home, processes, etc
<1> QED
  BY <1>1, <1>2, <1>3, <1>4, <1>5, <1>6, <1>7, <1>8, <1>9, <1>10 DEF Next

(* What /etc/regionlock says, and what a rest of it means.                 *)
LEMMA AtRest ==
  ASSUME Booted, ~managed, intact, pc = "idle"
  PROVE  /\ Holds(file)
         /\ last # None => EtcBlocklist = last.desired
<1>1. /\ SnapInv /\ TypeInv
  BY DEF Booted
<1>2. Holds(file)
  BY <1>1 DEF SnapInv, Ledger
<1>3. ASSUME last # None PROVE EtcBlocklist = last.desired
  <2>1. file[0] = last /\ last \in Snaps
    BY <1>1, <1>2, <1>3 DEF Holds, TypeInv, Ours
  <2> QED
    BY <2>1, EtcNames, BootAssumption DEF EtcBlocklist
<1> QED BY <1>2, <1>3

(* The boot unit finds the snapshot's feed, or none.                       *)
LEMMA FeedAtRest ==
  ASSUME Booted, ~managed, intact, pc = "idle", FromEtc("unit")
  PROVE  last # None /\ rev'["unit"] = last.rev
<1> DEFINE there == {n \in Etc!Feeds : file[n] \notin {None, Link}}
<1>1. /\ Holds(file) /\ Pure /\ TypeInv
  BY AtRest DEF Booted, SnapInv
<1>2. \A n \in Etc!Feeds : n \in there <=> Proved!Trusted(file[n])
  <2>1. \A n \in Proved!Feeds :
          file[n] \in Snaps \cup {Foreign, Link, None}
    BY <1>1, EtcNames DEF TypeInv, Proved!TypeInv, Proved!TypeOK,
       Proved!Dirs, Proved!Contents
  <2> QED
    BY <1>1, <2>1, EtcNames, BootAssumption DEF Pure, Proved!Trusted
<1>3. there # {} /\ Max(there) \in there
  BY EtcRevisions DEF FromEtc
<1>4. last # None
  BY <1>1, <1>2, <1>3, EtcNames DEF Holds
<1>5. Max(there) = last.rev
  BY <1>1, <1>2, <1>3, <1>4, EtcNames DEF Holds
<1>6. rev'["unit"] = Max(there)
  BY <1>1 DEF FromEtc, Found, TypeInv, Ours, Units
<1> QED BY <1>4, <1>5, <1>6

(* What a unit that is alone has loaded: the boot unit the last snapshot,  *)
(* the timer its blocklist, and a feed that is not older if there was a    *)
(* network.                                                                *)
UnitKnows ==
  ~managed /\ alone["unit"] =>
    /\ own["unit"] = EtcBlocklist
    /\ step["unit"] = "call" => last # None /\ rev["unit"] = last.rev

TimerKnows ==
  alone["timer"] =>
    /\ step["timer"] \in {"feed", "call"} /\ stray = None =>
         own["timer"] = EtcBlocklist
    /\ step["timer"] = "call" /\ online /\ last # None =>
         rev["timer"] >= last.rev
    /\ step["timer"] = "etc" /\ last # None =>
         /\ stray = None => arg.desired = last.desired
         /\ online => arg.rev >= last.rev

KnowInv == Booted /\ Published /\ UnitKnows /\ TimerKnows

LEMMA UnitKnowsStep ==
  ASSUME KnowInv, Next PROVE UnitKnows'
<1> SUFFICES ASSUME ~managed, alone'["unit"] PROVE UnitKnows'
  BY ManagedStays DEF UnitKnows
<1>0. /\ Booted /\ Booted' /\ UnitKnows /\ "unit" \in Units
      /\ own \in [Units -> SUBSET Codes] /\ step \in [Actors -> Steps]
      /\ "unit" \in Actors /\ Turns'
  BY BootedStep DEF KnowInv, Booted, TypeInv, Ours, Units, Actors
<1>a. ASSUME UNCHANGED file PROVE EtcBlocklist' = EtcBlocklist
  BY <1>a DEF EtcBlocklist
<1>1. CASE LoadConfig("unit")
  <2>1. own'["unit"] = EtcBlocklist /\ UNCHANGED file
    BY <1>0, <1>1 DEF LoadConfig, Starts, etc
  <2>2. step'["unit"] = "feed"
    BY <1>0, <1>1 DEF LoadConfig, Goto
  <2> QED BY <1>a, <2>1, <2>2 DEF UnitKnows
<1>2. CASE LoadFeed("unit")
  <2>1. ~End("unit", "idle")
    BY <1>0, EndStep DEF Booted
  <2>2. PICK up : Finds("unit", up) /\ Goto("unit", "call")
                    /\ UNCHANGED <<own, alone>>
    BY <1>2, <2>1 DEF LoadFeed
  <2>3. FromEtc("unit")
    BY <2>2 DEF Finds
  <2>4. UNCHANGED <<file, last>> /\ alone["unit"] /\ step["unit"] = "feed"
    BY <1>2, <2>2 DEF LoadFeed, etc
  <2>5. pc = "idle" /\ intact
    BY <1>0, <2>4 DEF Booted, Turns
  <2>6. last # None /\ rev'["unit"] = last.rev
    BY <1>0, <2>3, <2>5, FeedAtRest
  <2> QED BY <1>0, <1>a, <2>2, <2>4, <2>6 DEF UnitKnows
<1>3. ~Call("unit")
  BY DEF Call, Sends
<1>4. CASE ~LoadConfig("unit") /\ ~LoadFeed("unit")
  <2>1. /\ alone["unit"] /\ step'["unit"] = step["unit"]
        /\ own'["unit"] = own["unit"] /\ rev'["unit"] = rev["unit"]
        /\ UNCHANGED last
        /\ step["unit"] # "etc" => UNCHANGED file
    BY <1>0, <1>3, <1>4, AloneStep
  <2>2. step["unit"] # "etc"
    BY <1>0 DEF Booted, Turns
  <2> QED BY <1>0, <1>a, <2>1, <2>2 DEF UnitKnows
<1> QED BY <1>1, <1>2, <1>4

LEMMA TimerKnowsStep ==
  ASSUME KnowInv, Next PROVE TimerKnows'
<1> SUFFICES ASSUME alone'["timer"] PROVE TimerKnows'
  BY DEF TimerKnows
<1>0. /\ Booted /\ TimerKnows /\ Published /\ "timer" \in Units
      /\ own \in [Units -> SUBSET Codes] /\ step \in [Actors -> Steps]
      /\ rev \in [Units -> 0 .. Len(Feed)] /\ net \in 1 .. Len(Feed)
      /\ "timer" \in Actors
  BY DEF KnowInv, Booted, TypeInv, Ours, Units, Actors
<1>a. ASSUME UNCHANGED file PROVE EtcBlocklist' = EtcBlocklist
  BY <1>a DEF EtcBlocklist
<1>1. CASE LoadConfig("timer")
  <2>1. stray = None => own'["timer"] = EtcBlocklist
    BY <1>0, <1>1 DEF LoadConfig, Starts, Resolved
  <2>2. step'["timer"] = "feed" /\ UNCHANGED <<file, stray>>
    BY <1>0, <1>1 DEF LoadConfig, Goto, home, etc
  <2> QED BY <1>a, <2>1, <2>2 DEF TimerKnows
<1>2. CASE LoadFeed("timer")
  <2>1. ~End("timer", "idle")
    BY <1>0, EndStep DEF Booted
  <2>2. PICK up \in BOOLEAN :
          /\ Finds("timer", up) /\ Goto("timer", "call")
          /\ online' = up /\ UNCHANGED <<own, alone>>
    BY <1>2, <2>1, Zenon DEF LoadFeed
  <2>3. /\ UNCHANGED <<file, last, stray>> /\ alone["timer"]
        /\ step["timer"] = "feed" /\ step'["timer"] = "call"
    BY <1>0, <1>2, <2>2 DEF LoadFeed, Goto, etc
  <2>4. online' => rev'["timer"] = net
    BY <1>0, <2>2 DEF Finds, Acquires, FromNet, Found
  <2>5. online' /\ last # None => rev'["timer"] >= last.rev
    <3>1. last # None => last.rev \in 1 .. Len(Feed)
      BY <1>0 DEF Booted, TypeInv, Ours, Snaps
    <3> QED BY <1>0, <2>4, <3>1 DEF Published
  <2> QED BY <1>0, <1>a, <2>2, <2>3, <2>5 DEF TimerKnows
<1>3. CASE Call("timer")
  <2>1. /\ step["timer"] = "call" /\ step'["timer"] = "etc"
        /\ arg' = [desired |-> own["timer"], rev |-> rev["timer"]]
        /\ pc = "idle" /\ alone["timer"]
        /\ UNCHANGED <<last, online, stray>>
    BY <1>0, <1>3 DEF Call, Sends, Goto, Crowd, home, Etc!Enable
  <2>2. ~managed /\ intact
    BY <1>0, <2>1 DEF Booted, Turns
  <2>3. last # None => EtcBlocklist = last.desired
    BY <1>0, <2>1, <2>2, AtRest
  <2> QED BY <1>0, <2>1, <2>3 DEF TimerKnows
<1>4. CASE ~LoadConfig("timer") /\ ~LoadFeed("timer") /\ ~Call("timer")
  <2>1. /\ alone["timer"] /\ step'["timer"] = step["timer"]
        /\ own'["timer"] = own["timer"] /\ rev'["timer"] = rev["timer"]
        /\ UNCHANGED <<last, stray>>
        /\ (online' <=> online)
        /\ IF step["timer"] = "etc" THEN UNCHANGED arg ELSE UNCHANGED file
    BY <1>0, <1>4, AloneStep
  <2>2. CASE step["timer"] = "etc"
    BY <1>0, <2>1, <2>2 DEF TimerKnows
  <2>3. CASE step["timer"] # "etc"
    BY <1>0, <1>a, <2>1, <2>3 DEF TimerKnows
  <2> QED BY <2>2, <2>3
<1> QED BY <1>1, <1>2, <1>3, <1>4

LEMMA Knows == Spec => []KnowInv
<1>1. Init => KnowInv
  <2> SUFFICES ASSUME Init PROVE KnowInv
    OBVIOUS
  <2>1. Published
    BY DEF Init, Published, Units, Etc!Init, Etc!Idle
  <2>2. \A u \in Units : ~alone[u]
    BY Zenon DEF Init
  <2> QED
    BY <2>1, <2>2, BootedInitially
       DEF KnowInv, UnitKnows, TimerKnows, Units
<1>2. KnowInv /\ [Next]_vars => KnowInv'
  <2> SUFFICES ASSUME KnowInv, [Next]_vars PROVE KnowInv'
    OBVIOUS
  <2>1. Booted' /\ Published'
    BY BootedStep, PublishedStep DEF KnowInv
  <2>2. CASE Next
    BY <2>1, <2>2, UnitKnowsStep, TimerKnowsStep DEF KnowInv
  <2>3. CASE UNCHANGED vars
    BY <2>1, <2>3
       DEF KnowInv, UnitKnows, TimerKnows, EtcBlocklist, vars, processes,
           home, etc
  <2> QED BY <2>2, <2>3
<1> QED BY <1>1, <1>2, PTL DEF Spec

----------------------------------------------------------------------------
(* The properties.                                                         *)

LEMMA OnlyApplyUnitApplies ==
  ASSUME Booted, Next, step["unit"] = "call", step'["unit"] = "applied"
  PROVE  table' = Installed("unit") /\ UNCHANGED <<last, etc>>
<1>0. /\ TypeInv /\ "unit" \in Actors /\ step \in [Actors -> Steps]
  BY DEF Booted, TypeInv, Ours, Actors, Units
<1>a. ASSUME NEW a \in Actors, End(a, "idle") PROVE FALSE
  BY <1>0, <1>a, EndStep
<1>1. ASSUME NEW u \in Units, LoadConfig(u) \/ LoadFeed(u) PROVE FALSE
  <2>1. u \in Actors
    BY DEF Actors
  <2>2. \E s \in {"feed", "call"} : Goto(u, s)
    BY <1>1, <1>a, <2>1 DEF LoadConfig, LoadFeed
  <2> QED BY <1>0, <2>1, <2>2 DEF Goto
<1>2. ASSUME NEW a \in Actors, Call(a) PROVE FALSE
  BY <1>0, <1>2 DEF Call, Goto
<1>3. ASSUME NEW a \in Actors, Return(a) \/ Lost(a) PROVE FALSE
  BY <1>3, <1>a DEF Return, Lost
<1>4. ~StartUnit /\ ~StopUnit /\ ~Reboot
  BY <1>0 DEF StartUnit, StopUnit, Reboot
<1>5. ~Decline
  BY <1>a DEF Decline, Actors, Units
<1>6. ~Work /\ ~Publish
  BY DEF Work, Publish, processes
<1>7. CASE ApplyUnit
  BY <1>0, <1>7, <1>a DEF ApplyUnit
<1> QED BY <1>1, <1>2, <1>3, <1>4, <1>5, <1>6, <1>7 DEF Next

LEMMA InstalledIs ==
  ASSUME NEW u, table' = Installed(u), NEW c
  PROVE  LET f == Feed[rev[u]]
         IN IF c \in own[u] /\ c \in DOMAIN f /\ f[c] # NoRelays
            THEN table' # None => c \in DOMAIN table' /\ table'[c] = f[c]
            ELSE table' # None => c \notin DOMAIN table'
BY DEF Installed, Build, Blockable

(* A table is missing only where nothing was to be blocked.                *)
LEMMA InstalledThere ==
  ASSUME TypeInv, step["unit"] = "call", table' = Installed("unit"),
         NEW c \in own["unit"] \cap Blockable(Feed[rev["unit"]])
  PROVE  table' # None
<1> DEFINE ruleset == Build(own["unit"], Feed[rev["unit"]])
<1>1. Feed[rev["unit"]] \in Feeds
  BY FeedsOf DEF TypeInv, Ours, Units
<1>2. ruleset \in Rulesets
  BY <1>1, BuildIsRuleset
<1>3. c \in DOMAIN ruleset
  BY DEF Build
<1>4. ruleset # NoPops
  BY <1>3, NoPopsIsRuleset
<1> QED BY <1>2, <1>4, NoneAssumption DEF Installed

(* The boot unit installs the last persisted snapshot, whatever root's     *)
(* home holds, whatever was published and however many reboots and kills   *)
(* came between, unless an operation ran meanwhile or was killed.          *)
THEOREM UnitInstallsSnapshotHolds == Spec => UnitInstallsSnapshot
<1> DEFINE Good == ~managed /\ alone["unit"] /\ step["unit"] = "call"
                     /\ step'["unit"] = "applied" =>
             /\ last # None
             /\ \A c \in Codes :
                  LET relays == IF c \in DOMAIN Feed[last.rev]
                                THEN Feed[last.rev][c] ELSE NoRelays
                  IN IF c \in last.desired /\ relays # NoRelays
                     THEN table' # None /\ c \in DOMAIN table'
                            /\ table'[c] = relays
                     ELSE table' # None => c \notin DOMAIN table'
<1>1. ASSUME KnowInv, [Next]_vars PROVE Good
  <2> SUFFICES ASSUME ~managed, alone["unit"], step["unit"] = "call",
                      step'["unit"] = "applied"
               PROVE  Good
    OBVIOUS
  <2> DEFINE relays(c) == IF c \in DOMAIN Feed[last.rev]
                            THEN Feed[last.rev][c] ELSE NoRelays
  <2>1. Next /\ Booted /\ TypeInv
    BY <1>1 DEF KnowInv, Booted, vars, processes
  <2>2. table' = Installed("unit")
    BY <2>1, OnlyApplyUnitApplies
  <2>3. pc = "idle" /\ intact
    BY <2>1 DEF Booted, Turns, Units
  <2>4. last # None /\ rev["unit"] = last.rev /\ own["unit"] = EtcBlocklist
    BY <1>1 DEF KnowInv, UnitKnows
  <2>5. own["unit"] = last.desired
    BY <2>1, <2>3, <2>4, AtRest
  <2>6. ASSUME NEW c \in Codes, c \in last.desired, relays(c) # NoRelays
        PROVE  /\ table' # None /\ c \in DOMAIN table'
               /\ table'[c] = relays(c)
    <3>1. /\ c \in own["unit"] /\ c \in DOMAIN Feed[rev["unit"]]
          /\ Feed[rev["unit"]][c] # NoRelays
      BY <2>4, <2>5, <2>6
    <3>2. table' # None
      BY <2>1, <2>2, <3>1, InstalledThere DEF Blockable
    <3> QED BY <2>2, <2>4, <3>1, <3>2, InstalledIs
  <2>7. ASSUME NEW c \in Codes, ~(c \in last.desired /\ relays(c) # NoRelays)
        PROVE  table' # None => c \notin DOMAIN table'
    BY <2>2, <2>4, <2>5, <2>7, InstalledIs
  <2> QED BY <2>4, <2>6, <2>7
<1>2. KnowInv /\ [Next]_vars => Good
  BY <1>1
<1> QED BY <1>2, Knows, PTL DEF Spec, UnitInstallsSnapshot

(* The timer's own Persisted is what it had its applier write.             *)
LEMMA RefreshesReturns ==
  ASSUME KnowInv, Next, Refreshes
  PROVE  last' = arg /\ step["timer"] = "etc" /\ last # None
<1>0. /\ TypeInv /\ "timer" \in Actors /\ step \in [Actors -> Steps]
      /\ Turns
  BY DEF KnowInv, Booted, TypeInv, Ours, Actors, Units
<1>a. step["timer"] = "etc" /\ step'["timer"] = "idle" /\ last' # None
        /\ pc = "persisted" /\ last # None
  BY DEF Refreshes
<1>b. ASSUME NEW a \in Actors \ {"timer"}, NEW s, End(a, s) PROVE FALSE
  BY <1>0, <1>a, <1>b, EndStep
<1>1. ASSUME NEW u \in Units, LoadConfig(u) \/ LoadFeed(u) PROVE FALSE
  <2>1. u \in Actors
    BY DEF Actors
  <2>2. step[u] \in {"load", "idle", "feed"}
    BY <1>1 DEF LoadConfig, LoadFeed, Starts
  <2>3. u # "timer"
    BY <1>a, <2>2
  <2>4. \E s \in {"feed", "call"} : Goto(u, s)
    BY <1>1, <1>b, <2>1, <2>3 DEF LoadConfig, LoadFeed
  <2> QED BY <1>0, <1>a, <2>1, <2>3, <2>4 DEF Goto
<1>2. ASSUME NEW a \in Actors, Call(a) PROVE FALSE
  BY <1>0, <1>a, <1>2 DEF Call, Goto
<1>3. ASSUME NEW a \in Actors, Lost(a) PROVE FALSE
  BY <1>a, <1>3 DEF Lost
<1>4. ASSUME NEW a \in Actors, Return(a) PROVE last' = arg
  BY <1>a, <1>4 DEF Return
<1>5. ~StartUnit /\ ~ApplyUnit /\ ~StopUnit /\ ~Decline
  <2>1. ~StartUnit
    BY <1>0, <1>a DEF StartUnit, Goto
  <2>2. ~ApplyUnit /\ ~StopUnit
    BY <1>b DEF ApplyUnit, StopUnit, Actors, Units
  <2> QED BY <1>a, <2>1, <2>2 DEF Decline
<1>6. ~Work /\ ~Publish
  BY <1>a DEF Work, Publish, processes
<1>7. ~Reboot
  BY <1>a DEF Reboot, Halt, Killed, Free, Etc!Kill
<1> QED BY <1>a, <1>1, <1>2, <1>3, <1>4, <1>5, <1>6, <1>7 DEF Next

(* A refresh changes no blocklist: what it persists is what the snapshot   *)
(* it replaces has, unless root has a config of its own.                   *)
THEOREM RefreshKeepsBlocklistHolds == Spec => RefreshKeepsBlocklist
<1> DEFINE Good == Refreshes /\ stray = None => last'.desired = last.desired
<1>1. ASSUME KnowInv, [Next]_vars, Refreshes, stray = None
      PROVE  last'.desired = last.desired
  <2>1. Next
    BY <1>1 DEF Refreshes, vars, processes
  <2>2. last' = arg /\ step["timer"] = "etc" /\ last # None
    BY <1>1, <2>1, RefreshesReturns
  <2>3. alone["timer"]
    BY <1>1 DEF Refreshes
  <2> QED BY <1>1, <2>2, <2>3 DEF KnowInv, TimerKnows
<1>2. KnowInv /\ [Next]_vars => Good
  BY <1>1
<1> QED BY <1>2, Knows, PTL DEF Spec, RefreshKeepsBlocklist

(* Nor does it go back in time, where the network is up: no revision that  *)
(* was ever persisted is newer than what Valve serves.                     *)
THEOREM RefreshMovesForwardHolds == Spec => RefreshMovesForward
<1> DEFINE Good == Refreshes /\ online => last'.rev >= last.rev
<1>1. ASSUME KnowInv, [Next]_vars, Refreshes, online
      PROVE  last'.rev >= last.rev
  <2>1. Next
    BY <1>1 DEF Refreshes, vars, processes
  <2>2. last' = arg /\ step["timer"] = "etc" /\ last # None
    BY <1>1, <2>1, RefreshesReturns
  <2>3. alone["timer"]
    BY <1>1 DEF Refreshes
  <2> QED BY <1>1, <2>2, <2>3 DEF KnowInv, TimerKnows
<1>2. KnowInv /\ [Next]_vars => Good
  BY <1>1
<1> QED BY <1>2, Knows, PTL DEF Spec, RefreshMovesForward
=============================================================================
