------------------------------ MODULE CliProofs ------------------------------
(***************************************************************************)
(* Proofs about Cli, for any number of commands at a time, any feeds and   *)
(* any backends.  What is proved of Applier is not proved again: the       *)
(* appliers that commands run behave as Applier says, so its theorems hold *)
(* of them.                                                                *)
(***************************************************************************)
EXTENDS Cli, PlanProofs, SequenceTheorems

Proved == INSTANCE FirewallProofs WITH
            Procs  <- Users,
            Specs  <- Rulesets,
            Empty  <- NoPops,
            Listed <- [s \in Rulesets \ {NoPops} |-> s]

LEMMA RootConstants == Proved!ConstantsAssumption
<1>1. NoPops \in Rulesets /\ None \notin Rulesets \cup Users
  BY NoPopsIsRuleset, NoneAssumption, CliAssumption
<1>2. Hazards \subseteq Proved!HazardKinds
  BY HazardsAssumption DEF Root!HazardKinds, Proved!HazardKinds
<1> QED BY <1>1, <1>2 DEF Proved!ConstantsAssumption

----------------------------------------------------------------------------
(* Commands and their appliers.                                            *)

(* What a command does without an applier.                                 *)
Local(c) ==
  \/ Start(c) \/ LoadFeed(c) \/ StoreFeed(c) \/ Save(c) \/ PlanApply(c)
  \/ Confirm(c) \/ Denied(c) \/ GiveUp(c) \/ Exit(c)

LEMMA LocalStep ==
  ASSUME NEW c \in Users, Local(c)
  PROVE  step[c] # "called" /\ UNCHANGED <<applier, sound>>
BY DEF Local, Start, LoadFeed, StoreFeed, Save, PlanApply, Confirm, Denied,
       GiveUp, Exit, Finals

LEMMA WorkIsAppliers ==
  ASSUME NEW c \in Users, Work(c)
  PROVE  Proved!Replace(c) \/ Proved!Delete(c) \/ Proved!Inspect(c)
<1> USE DEF Root!Goto, Proved!Goto, Root!Can, Proved!Can, Root!files,
            Root!locals, Proved!files, Proved!locals, Root!TableOf,
            Proved!TableOf, Root!Leftover, Proved!Leftover
<1>1. ASSUME Root!Replace(c) PROVE Proved!Replace(c)
  BY <1>1 DEF Root!Replace, Proved!Replace,
              Root!WritePending, Proved!WritePending,
              Root!NftReplace, Proved!NftReplace,
              Root!RemovePending, Proved!RemovePending,
              Root!Commit, Proved!Commit
<1>2. ASSUME Root!Delete(c) PROVE Proved!Delete(c)
  BY <1>2 DEF Root!Delete, Proved!Delete, Root!Mark, Proved!Mark,
              Root!NftDelete, Proved!NftDelete,
              Root!Restore, Proved!Restore, Root!Unmark, Proved!Unmark,
              Root!Clean, Proved!Clean
<1>3. ASSUME Root!Inspect(c) PROVE Proved!Inspect(c)
  BY <1>3 DEF Root!Inspect, Proved!Inspect, Root!List, Proved!List,
              Root!Reconcile, Proved!Reconcile,
              Root!PendingMatches, Proved!PendingMatches,
              Root!Misread, Proved!Misread,
              Root!Resolve, Proved!Resolve, Root!Forget, Proved!Forget
<1> QED BY <1>1, <1>2, <1>3 DEF Work

(* Every step of a command is a step of its applier, or none of any.       *)
LEMMA StepIsAppliers == ASSUME [Next]_vars PROVE [Proved!Next]_(Proved!vars)
<1> USE DEF Proved!vars, Proved!files, Proved!locals
<1>1. ASSUME NEW c \in Users, Local(c) PROVE UNCHANGED Proved!vars
  BY <1>1, LocalStep DEF applier
<1>2. ASSUME NEW c \in Users, Call(c) PROVE Proved!Begin(c)
  BY <1>2 DEF Call, Root!Begin, Proved!Begin, Root!LockFree, Proved!LockFree,
              Root!Goto, Proved!Goto, Root!files
<1>3. ASSUME NEW c \in Users, Return(c) PROVE Proved!Exit(c)
  BY <1>3 DEF Return, Root!Exit, Proved!Exit, Root!Vanish, Proved!Vanish,
              Root!Replies, Proved!Replies, Root!files
<1>4. ASSUME NEW c \in Users, Lost(c) PROVE Proved!Kill(c)
  BY <1>4 DEF Lost, Root!Kill, Proved!Kill, Root!Vanish, Proved!Vanish,
              Root!Can, Proved!Can, Root!TableOf, Proved!TableOf, Root!files
<1>5. ASSUME NEW c \in Users, Work(c)
      PROVE  Proved!Replace(c) \/ Proved!Delete(c) \/ Proved!Inspect(c)
  BY <1>5, WorkIsAppliers
<1>6. ASSUME Flush PROVE Proved!Flush
  BY <1>6 DEF Flush, Root!Flush, Proved!Flush, Root!Can, Proved!Can,
              Root!files, Root!locals
<1>7. CASE Publish \/ Refresh \/ UNCHANGED vars
  BY <1>7 DEF Publish, Refresh, vars, applier
<1> QED
  BY <1>1, <1>2, <1>3, <1>4, <1>5, <1>6, <1>7
     DEF Next, Proceed, Local, Proved!Next, Proved!Operate

(* The appliers that commands run behave as module Applier says.           *)
THEOREM SpecIsAppliers == Spec => Proved!Spec
<1>1. Init => Proved!Init
  BY DEF Init, Root!Init, Proved!Init
<1> QED BY <1>1, StepIsAppliers, PTL DEF Spec, Proved!Spec

(* They keep the promise of Firewall to the commands, whatever these plan, *)
(* confirm, retry or give up, however many of them run, and on whichever   *)
(* hazards: an answer that a command prints is one that Firewall gives.    *)
THEOREM CommandsKeepPromise == Spec => Proved!Implements
<1>1. Proved!Spec => Proved!Implements
  BY RootConstants, Proved!ImplementsHolds
<1> QED BY <1>1, SpecIsAppliers, PTL

(* What Applier's theorems say of them.                                    *)
Inherited ==
  /\ Root!TypeOK
  /\ \A p \in Users :
       /\ pc[p] # "idle" <=> lock = p
       /\ pc[p] \in {"nftf", "unpend", "commit"} => pending = arg[p]
       /\ pc[p] \in {"nftd", "restore", "unmark", "clean"} => journal = None
       /\ pc[p] \in {"nftd", "restore"} /\ had[p] => marker # None

LEMMA Owned == Spec => []Proved!OwnInv
<1>1. Proved!Init => Proved!OwnInv
  BY RootConstants, Proved!OwnInitially
<1>2. Proved!OwnInv /\ [Proved!Next]_(Proved!vars) => Proved!OwnInv'
  BY RootConstants, Proved!OwnStep
<1> QED BY <1>1, <1>2, SpecIsAppliers, PTL DEF Proved!Spec

LEMMA Inherits == Spec => []Inherited
<1>1. Proved!OwnInv => Inherited
  BY DEF Proved!OwnInv, Proved!Own, Proved!TypeOK, Root!TypeOK,
         Proved!DeleteSteps, Proved!Files, Root!Files, Proved!Tables,
         Root!Tables, Proved!Steps, Root!Steps, Proved!ReplaceSteps,
         Root!ReplaceSteps, Root!DeleteSteps, Proved!InspectSteps,
         Root!InspectSteps, Proved!Replies, Root!Replies, Inherited
<1> QED BY <1>1, Owned, PTL

----------------------------------------------------------------------------
(* The newest revision.                                                    *)

LEMMA FeedsOf ==
  /\ Len(Feed) \in Nat /\ 1 \in 1 .. Len(Feed)
  /\ \A r \in 1 .. Len(Feed) : Feed[r] \in Feeds
<1>1. Feed \in Seq(Feeds) /\ Feed # <<>>
  BY CliAssumption
<1>2. Len(Feed) \in Nat /\ Len(Feed) # 0
  BY <1>1, EmptySeq, LenProperties
<1>3. \A r \in 1 .. Len(Feed) : Feed[r] \in Feeds
  BY <1>1, ElementOfSeq
<1> QED BY <1>2, <1>3

Top(S) == IF S = {} THEN 0 ELSE Max(S)

LEMMA NewestIsTop == Newest = Top(cache) /\ Newest' = Top(cache')
BY DEF Newest, Top

LEMMA TopOf ==
  ASSUME NEW S \in SUBSET (1 .. Len(Feed))
  PROVE  /\ Top(S) \in 0 .. Len(Feed)
         /\ S # {} => Top(S) \in S
         /\ \A r \in S : r <= Top(S)
<1>1. Len(Feed) \in Nat
  BY FeedsOf
<1>2. CASE S = {}
  BY <1>1, <1>2 DEF Top
<1>3. CASE S # {}
  <2>1. Max(S) \in S /\ \A r \in S : Max(S) >= r
    BY <1>1, <1>3, MaxIsLargest
  <2>2. Top(S) = Max(S)
    BY <1>3 DEF Top
  <2>3. Top(S) \in 1 .. Len(Feed) /\ \A r \in S : r \in 1 .. Len(Feed)
    BY <2>1, <2>2
  <2>4. \A r \in S : r <= Top(S)
    BY <1>1, <2>1, <2>2, <2>3
  <2> QED BY <1>3, <2>1, <2>2, <2>3, <2>4
<1> QED BY <1>1, <1>2, <1>3

(* A cache that grows has no older newest revision.                        *)
LEMMA TopGrows ==
  ASSUME NEW S \in SUBSET (1 .. Len(Feed)), NEW T \in SUBSET S
  PROVE  Top(T) <= Top(S)
<1>1. Top(T) \in 0 .. Len(Feed) /\ Top(S) \in 0 .. Len(Feed)
  BY TopOf
<1>2. CASE T = {}
  BY <1>1, <1>2, FeedsOf DEF Top
<1>3. CASE T # {}
  BY <1>3, TopOf
<1> QED BY <1>2, <1>3

----------------------------------------------------------------------------
(* Types.  A plan, and a feed to be stored, are of some revision.          *)
Loaded ==
  \A c \in Users : step[c] \in {"store", "plan"} => rev[c] \in 1 .. Len(Feed)

TypeInv == TypeOK /\ Loaded

LEMMA TypeInitially == Init => TypeInv
<1>1. ASSUME Init PROVE Root!TypeOK
  BY <1>1 DEF Init, Root!Init, Root!TypeOK, Root!Files, Root!Tables
<1> QED
  BY <1>1, FeedsOf, NoPopsIsRuleset, CliAssumption
     DEF Init, TypeInv, TypeOK, Loaded, Steps

LEMMA NoPopsIsFeed == NoPops \in Feeds
<1>1. NoPops \in [{} -> Lists \cup {NoRelays}]
  BY DEF NoPops
<1> QED BY <1>1 DEF Feeds

(* The edit of any command gives codes. *)
LEMMA EditedIsCodes ==
  ASSUME NEW k, NEW desired \in SUBSET Codes, NEW feed \in Feeds
  PROVE  Edited(k, desired, feed) \in SUBSET Codes
BY SelectedIsBlockable, BlockableIsCodes
   DEF Edited, Edit, Block, Unblock, Allow, Reset

LEMMA TypeLocal ==
  ASSUME TypeInv, NEW c \in Users, Local(c), Inherited'
  PROVE  TypeInv'
<1> USE DEF TypeInv, TypeOK, Loaded, Goto, mine, shared
<1>0. Root!TypeOK'
  BY DEF Inherited
<1> USE <1>0, FeedsOf
<1>1. CASE Start(c)
  <2>1. Newest \in 0 .. Len(Feed)
    BY TopOf, NewestIsTop
  <2> QED BY <1>1, <2>1 DEF Start, Steps
<1>2. CASE LoadFeed(c)
  <2>1. cache # {} => Newest \in 1 .. Len(Feed)
    BY TopOf, NewestIsTop
  <2>2. Pinned # 0 => Pinned \in 1 .. Len(Feed)
    BY CliAssumption
  <2>3. \/ UNCHANGED rev /\ step'[c] = "failed"
        \/ \E r \in 1 .. Len(Feed) : rev' = [rev EXCEPT ![c] = r]
    BY <1>2, <2>1, <2>2, Zenon DEF LoadFeed
  <2>4. /\ step' \in [Users -> Steps]
        /\ \A d \in Users \ {c} : step'[d] = step[d] /\ rev'[d] = rev[d]
    BY <1>2 DEF LoadFeed, Steps, Finals
  <2>5. rev' \in [Users -> 0 .. Len(Feed)] /\ Loaded'
    <3>1. CASE UNCHANGED rev /\ step'[c] = "failed"
      BY <2>4, <3>1
    <3>2. ASSUME NEW r \in 1 .. Len(Feed), rev' = [rev EXCEPT ![c] = r]
          PROVE  rev' \in [Users -> 0 .. Len(Feed)] /\ Loaded'
      BY <2>4, <3>2
    <3> QED BY <2>3, <3>1, <3>2
  <2> QED BY <1>2, <2>4, <2>5 DEF LoadFeed
<1>3. CASE StoreFeed(c)
  BY <1>3 DEF StoreFeed, Steps, Finals
<1>4. CASE Save(c)
  <2> DEFINE feed == IF rev[c] = 0 THEN NoPops ELSE Feed[rev[c]]
  <2>1. feed \in Feeds
    BY NoPopsIsFeed
  <2>2. Edited(cmd[c], own[c], feed) \in SUBSET Codes
    BY <2>1, EditedIsCodes
  <2>3. \/ UNCHANGED <<own, config>>
        \/ /\ own' = [own EXCEPT ![c] = Edited(cmd[c], own[c], feed)]
           /\ config' = own'[c]
    BY <1>4, Zenon DEF Save
  <2>4. own' \in [Users -> SUBSET Codes] /\ config' \in SUBSET Codes
    BY <2>2, <2>3
  <2> QED BY <1>4, <2>4 DEF Save, Steps, Finals
<1>5. CASE PlanApply(c)
  <2>1. Build(own[c], Feed[rev[c]]) \in Rulesets
    BY <1>5, BuildIsRuleset DEF PlanApply
  <2>2. \/ UNCHANGED target
        \/ target' = [target EXCEPT ![c] = Build(own[c], Feed[rev[c]])]
    BY <1>5, Zenon DEF PlanApply
  <2>3. target' \in [Users -> Rulesets]
    BY <2>1, <2>2
  <2>4. /\ step' \in [Users -> Steps]
        /\ \A d \in Users \ {c} : step'[d] = step[d]
        /\ step'[c] \in {"nothing", "call", "confirm", "failed"}
    BY <1>5 DEF PlanApply, Steps, Finals
  <2> QED BY <1>5, <2>3, <2>4 DEF PlanApply
<1>6. CASE Confirm(c) \/ GiveUp(c)
  BY <1>6 DEF Confirm, GiveUp, Steps, Finals
<1>7. CASE Denied(c)
  <2>1. left[c] - 1 \in 0 .. Backends
    BY <1>7, CliAssumption DEF Denied
  <2> QED BY <1>7, <2>1 DEF Denied
<1>8. CASE Exit(c)
  BY <1>8, NoPopsIsRuleset, CliAssumption DEF Exit, Steps
<1> QED BY <1>1, <1>2, <1>3, <1>4, <1>5, <1>6, <1>7, <1>8 DEF Local

LEMMA TypeStep == ASSUME TypeInv, Inherited', [Next]_vars PROVE TypeInv'
<1> USE DEF TypeInv, TypeOK, Loaded, Goto, mine, shared
<1>0. Root!TypeOK'
  BY DEF Inherited
<1> USE <1>0, FeedsOf
<1>1. ASSUME NEW c \in Users, Call(c) PROVE TypeInv'
  BY <1>1, CliAssumption DEF Call, Steps
<1>2. ASSUME NEW c \in Users, Return(c) PROVE TypeInv'
  BY <1>2 DEF Return, Root!Exit, Root!Replies, Steps, Finals
<1>3. ASSUME NEW c \in Users, Lost(c) \/ Work(c) PROVE TypeInv'
  BY <1>3 DEF Lost, Work, Steps
<1>4. CASE Publish
  <2>1. net + 1 \in 1 .. Len(Feed)
    BY <1>4 DEF Publish
  <2> QED BY <1>4, <2>1 DEF Publish
<1>5. CASE Refresh \/ Flush \/ UNCHANGED vars
  BY <1>5 DEF Refresh, Flush, vars
<1> QED
  BY <1>1, <1>2, <1>3, <1>4, <1>5, TypeLocal DEF Next, Proceed, Local

LEMMA Types == Spec => []TypeInv
BY TypeInitially, TypeStep, Inherits, PTL DEF Spec

(* Every command is at a step it has, with a ruleset that an applier       *)
(* admits and a feed that was published.                                   *)
THEOREM CliTypeCorrect == Spec => []TypeOK
BY Types, PTL DEF TypeInv

----------------------------------------------------------------------------
(* Feeds.  Nothing was cached, when a command started, that is newer than  *)
(* the cache is now; what it fetches counts as soon as it has it.          *)
Recent(c) ==
  step[c] \in {"store", "plan", "confirm"} /\ cmd[c].op # "teardown" =>
    rev[c] >= since[c]

Fresh == \A c \in Users : since[c] <= Newest /\ Recent(c)

LEMMA CacheGrows ==
  ASSUME TypeInv, TypeInv', [Next]_vars
  PROVE  cache \subseteq cache' /\ Newest <= Newest'
<1>1. cache \subseteq cache'
  BY DEF Next, Start, Proceed, LoadFeed, StoreFeed, Save, PlanApply, Confirm,
         GiveUp, Return, Work, Exit, Call, Denied, Lost, Publish, Refresh,
         Flush, vars, shared
<1> QED BY <1>1, TopGrows, NewestIsTop DEF TypeInv, TypeOK

LEMMA FreshLocal ==
  ASSUME TypeInv, TypeInv', Fresh, NEW c \in Users, Local(c),
         Newest <= Newest'
  PROVE  Fresh'
<1> USE DEF TypeInv, TypeOK, Goto, mine
<1>0. Newest \in 0 .. Len(Feed) /\ Newest' \in 0 .. Len(Feed)
  BY TopOf, NewestIsTop
<1>1. ASSUME NEW d \in Users, d # c PROVE since'[d] <= Newest' /\ Recent(d)'
  <2>1. /\ step'[d] = step[d] /\ cmd'[d] = cmd[d]
        /\ rev'[d] = rev[d] /\ since'[d] = since[d]
    BY <1>1 DEF Local, Start, LoadFeed, StoreFeed, Save, PlanApply, Confirm,
                Denied, GiveUp, Exit
  <2>2. since[d] <= Newest' /\ Recent(d)
    BY <1>0, FeedsOf DEF Fresh
  <2> QED BY <2>1, <2>2 DEF Recent
<1> USE FeedsOf
<1>2. CASE Start(c)
  <2>1. since'[c] = Newest
    BY <1>2 DEF Start
  <2>2. /\ step'[c] \in {"call", "confirm", "save", "feed"}
        /\ step'[c] = "confirm" => cmd'[c].op = "teardown"
    BY <1>2 DEF Start
  <2>3. since'[c] <= Newest' /\ Recent(c)'
    BY <2>1, <2>2 DEF Recent
  <2> QED BY <1>1, <2>3 DEF Fresh
<1>3. CASE LoadFeed(c)
  <2>1. since'[c] = since[c] /\ since[c] <= Newest'
    BY <1>0, <1>3 DEF LoadFeed, Fresh
  <2>2. cache = {} => since[c] = 0
    <3>1. cache = {} => Newest = 0
      BY DEF Newest
    <3> QED BY <3>1 DEF Fresh
  <2>3. \/ step'[c] = "failed"
        \/ cache # {} /\ rev'[c] = Newest
        \/ cache = {}
    BY <1>3 DEF LoadFeed
  <2>4. Recent(c)'
    BY <2>1, <2>2, <2>3 DEF Recent, Fresh
  <2> QED BY <1>1, <2>1, <2>4 DEF Fresh
<1>4. CASE StoreFeed(c) \/ PlanApply(c) \/ Save(c)
  <2>1. /\ since'[c] = since[c] /\ since[c] <= Newest'
        /\ rev'[c] = rev[c] /\ cmd'[c] = cmd[c]
    BY <1>0, <1>4 DEF StoreFeed, PlanApply, Save, Fresh
  <2>2. \/ step[c] \in {"store", "plan"}
        \/ step'[c] \in {"feed", "staged", "failed"}
    BY <1>4 DEF StoreFeed, PlanApply, Save
  <2>3. Recent(c)'
    BY <2>1, <2>2 DEF Recent, Fresh
  <2> QED BY <1>1, <2>1, <2>3 DEF Fresh
<1>5. CASE Confirm(c) \/ Denied(c) \/ GiveUp(c)
  <2>1. since'[c] = since[c] /\ since[c] <= Newest'
    BY <1>0, <1>5 DEF Confirm, Denied, GiveUp, Fresh
  <2>2. step'[c] \in {"call", "aborted", "failed"}
    BY <1>5 DEF Confirm, Denied, GiveUp
  <2> QED BY <1>1, <2>1, <2>2 DEF Fresh, Recent
<1>6. CASE Exit(c)
  <2>1. since'[c] = 0 /\ step'[c] = "idle"
    BY <1>6 DEF Exit
  <2> QED BY <1>0, <1>1, <2>1 DEF Fresh, Recent
<1> QED BY <1>2, <1>3, <1>4, <1>5, <1>6 DEF Local

LEMMA FreshStep ==
  ASSUME TypeInv, TypeInv', Fresh, [Next]_vars
  PROVE  Fresh'
<1>0. Newest <= Newest'
  BY CacheGrows
<1>1. ASSUME NEW c \in Users, Local(c) PROVE Fresh'
  BY <1>0, <1>1, FreshLocal
<1>2. ASSUME NEW c \in Users,
             Call(c) \/ Return(c) \/ Lost(c) \/ Work(c)
      PROVE  Fresh'
  <2>1. /\ UNCHANGED <<cmd, rev, since, cache>>
        /\ \A d \in Users :
             step'[d] = step[d] \/ step'[d] \in {"call", "called"} \cup Finals
    BY <1>2 DEF Call, Return, Lost, Work, Goto, TypeInv, TypeOK, Root!Exit,
                Root!Replies, Finals, mine, shared
  <2> QED BY <2>1 DEF Fresh, Recent, Newest, Finals
<1>3. CASE Publish \/ Refresh \/ Flush \/ UNCHANGED vars
  <2>1. UNCHANGED <<step, cmd, rev, since>>
    BY <1>3 DEF Publish, Refresh, Flush, vars, mine
  <2>2. \A c \in Users : since[c] <= Newest'
    <3>1. Newest \in 0 .. Len(Feed) /\ Newest' \in 0 .. Len(Feed)
      BY TopOf, NewestIsTop DEF TypeInv, TypeOK
    <3> QED BY <1>0, <3>1, FeedsOf DEF Fresh, TypeInv, TypeOK
  <2> QED BY <2>1, <2>2 DEF Fresh, Recent
<1> QED BY <1>1, <1>2, <1>3 DEF Next, Proceed, Local

(* Whoever fetches and stores in between, no command plans with a feed     *)
(* older than the newest one that was cached when it started.              *)
THEOREM FeedNotBehindHolds == Spec => []FeedNotBehind
<1>1. Init => Fresh
  BY DEF Init, Fresh, Recent, Newest
<1>2. TypeInv /\ TypeInv' /\ Fresh /\ [Next]_vars => Fresh'
  BY FreshStep
<1>3. Fresh => FeedNotBehind
  BY DEF Fresh, Recent, FeedNotBehind
<1> QED BY <1>1, <1>2, <1>3, Types, PTL DEF Spec

----------------------------------------------------------------------------
(* Appliers and what their commands showed.  Only the applier that holds   *)
(* the lock is at work, so the others have nothing to say here.            *)
Table(s) == Root!TableOf(s)

Bound(c) ==
  /\ pc[c] # "idle" => step[c] = "called"
  /\ pc[c] \in {"pend", "nftf", "unpend", "commit", "applied"} =>
       arg[c] = target[c]
  /\ pc[c] \in {"commit", "applied"} =>
       live = Table(arg[c]) \/ (live = None /\ ~sound)
  /\ pc[c] = "applied" => journal = arg[c]

Bounds == \A c \in Users : Bound(c)

(* A step of one applier leaves the others idle. *)
LEMMA OthersIdle ==
  ASSUME Inherited, NEW c \in Users, pc[c] # "idle" \/ lock = None,
         NEW d \in Users, d # c
  PROVE  pc[d] = "idle"
<1>1. lock = c \/ lock = None
  BY DEF Inherited
<1>2. None # d
  BY CliAssumption
<1> QED BY <1>1, <1>2 DEF Inherited

LEMMA BoundStep ==
  ASSUME TypeInv, Inherited, Inherited', Bounds, [Next]_vars
  PROVE  Bounds'
<1> USE DEF TypeInv, TypeOK, Root!TypeOK, Root!Goto, Goto
<1>0. /\ pc \in [Users -> Root!Steps \cup {"idle"}]
      /\ arg \in [Users -> Root!Files]
      /\ step \in [Users -> Steps]
      /\ target \in [Users -> Rulesets]
  OBVIOUS
<1>1. ASSUME NEW c \in Users, Local(c) PROVE Bounds'
  <2>1. step[c] # "called" /\ UNCHANGED <<applier, sound>>
    BY <1>1, LocalStep
  <2>2. pc[c] = "idle"
    BY <2>1 DEF Bounds, Bound
  <2>3. \A d \in Users \ {c} : step'[d] = step[d] /\ target'[d] = target[d]
    BY <1>1 DEF Local, Start, LoadFeed, StoreFeed, Save, PlanApply, Confirm,
                Denied, GiveUp, Exit
  <2> QED BY <2>1, <2>2, <2>3 DEF Bounds, Bound, Table, Root!TableOf, applier
<1>2. ASSUME NEW c \in Users, Call(c) PROVE Bounds'
  <2>1. lock = None
    BY <1>2 DEF Call, Root!Begin, Root!LockFree
  <2>2. \A d \in Users \ {c} : pc[d] = "idle" /\ pc'[d] = pc[d]
    BY <1>2, <2>1, OthersIdle DEF Call, Root!Begin
  <2>3. pc'[c] \in {"pend", "mark", "list"} /\ step'[c] = "called"
    BY <1>2 DEF Call, Root!Begin
  <2>4. pc'[c] = "pend" => arg'[c] = target[c] /\ target' = target
    BY <1>2 DEF Call, Sent
  <2> QED BY <2>2, <2>3, <2>4 DEF Bounds, Bound
<1>3. ASSUME NEW c \in Users, Return(c) \/ Lost(c) PROVE Bounds'
  <2>1. pc[c] # "idle" /\ pc'[c] = "idle"
    BY <1>3 DEF Return, Lost, Root!Exit, Root!Kill, Root!Vanish,
                Root!Replies
  <2>2. \A d \in Users \ {c} : pc[d] = "idle" /\ pc'[d] = pc[d]
    BY <1>3, <2>1, OthersIdle
       DEF Return, Lost, Root!Exit, Root!Kill, Root!Vanish
  <2> QED BY <2>1, <2>2 DEF Bounds, Bound
<1>4. ASSUME NEW c \in Users, Work(c) PROVE Bounds'
  <2>1. pc[c] # "idle" /\ step' = step /\ target' = target /\ sound' = sound
    BY <1>4 DEF Work, mine, Root!Replace, Root!Delete, Root!Inspect,
                Root!WritePending, Root!NftReplace, Root!RemovePending,
                Root!Commit, Root!Mark, Root!NftDelete, Root!Restore,
                Root!Unmark, Root!Clean, Root!List, Root!Reconcile,
                Root!Resolve, Root!Forget
  <2>2. \A d \in Users \ {c} : pc[d] = "idle" /\ pc'[d] = pc[d]
    <3>1. \A d \in Users \ {c} : pc'[d] = pc[d]
      BY <1>4
         DEF Work, Root!Replace, Root!Delete, Root!Inspect,
             Root!WritePending, Root!NftReplace, Root!RemovePending,
             Root!Commit, Root!Mark, Root!NftDelete, Root!Restore,
             Root!Unmark, Root!Clean, Root!List, Root!Reconcile,
             Root!Resolve, Root!Forget
    <3> QED BY <2>1, <3>1, OthersIdle
  <2>3. Bound(c)'
    <3>0. Bound(c) /\ step[c] = "called"
      BY <2>1 DEF Bounds, Bound
    <3>1. CASE Root!Replace(c)
      <4>1. CASE Root!WritePending(c)
        BY <2>1, <3>0, <4>1 DEF Root!WritePending, Root!locals, Bound
      <4>2. CASE Root!NftReplace(c)
        BY <2>1, <3>0, <4>2
           DEF Root!NftReplace, Root!locals, Bound, Table, Root!TableOf
      <4>3. CASE Root!RemovePending(c)
        BY <2>1, <3>0, <4>3 DEF Root!RemovePending, Bound
      <4>4. CASE Root!Commit(c)
        <5>1. pending = arg[c] /\ pc[c] = "commit"
          BY <4>4 DEF Inherited, Root!Commit
        <5> QED
          BY <2>1, <3>0, <4>4, <5>1
             DEF Root!Commit, Root!locals, Bound, Table, Root!TableOf
      <4> QED BY <3>1, <4>1, <4>2, <4>3, <4>4 DEF Root!Replace
    <3>2. CASE Root!Delete(c) \/ Root!Inspect(c)
      <4>1. pc'[c] \in Root!DeleteSteps \cup Root!InspectSteps
                         \cup {"refused", "deleted", "report"}
        BY <3>2
           DEF Root!Delete, Root!Inspect, Root!Mark, Root!NftDelete,
               Root!Restore, Root!Unmark, Root!Clean, Root!List,
               Root!Reconcile, Root!Resolve, Root!Forget,
               Root!DeleteSteps, Root!InspectSteps
      <4> QED
        BY <2>1, <3>0, <4>1 DEF Bound, Root!DeleteSteps, Root!InspectSteps
    <3> QED BY <1>4, <3>1, <3>2 DEF Work
  <2> QED BY <2>2, <2>3 DEF Bounds, Bound
<1>5. CASE Flush
  BY <1>5 DEF Flush, Root!Flush, Root!files, Root!locals, mine, Bounds,
              Bound, Table
<1>6. CASE Publish \/ Refresh \/ UNCHANGED vars
  BY <1>6 DEF Publish, Refresh, vars, mine, applier, Bounds, Bound, Table,
              Root!TableOf
<1> QED
  BY <1>1, <1>2, <1>3, <1>4, <1>5, <1>6 DEF Next, Proceed, Local

LEMMA BoundHolds == Spec => []Bounds
<1>1. Init => Bounds
  BY DEF Init, Root!Init, Bounds, Bound
<1> QED BY <1>1, BoundStep, Types, Inherits, PTL DEF Spec

(* Whatever other commands did to config, cache and journal while the      *)
(* prompt waited, and however often the applier was run again, an Applied  *)
(* reply means the ruleset that was shown is recorded, and live unless     *)
(* another program flushed it meanwhile.                                   *)
THEOREM ConfirmedInstalledHolds == Spec => []ConfirmedInstalled
<1>1. Bounds => ConfirmedInstalled
  BY DEF Bounds, Bound, ConfirmedInstalled, Table
<1> QED BY <1>1, BoundHolds, PTL

----------------------------------------------------------------------------
(* Planning without the lock.  nft may refuse, writing a record may fail,  *)
(* and appliers may be killed; but what is to be renamed or removed is, and *)
(* nft is there and tells the truth.                                       *)
Quiet == Hazards \subseteq {"write", "nft", "list", "kill", "flush"}

Clean == live = Table(journal) /\ pending = None /\ marker = None

Resting == {"pend", "mark", "list", "reconcile", "resolve", "report",
            "applied", "deleted", "refused"}

(* What an applier knows at each of its steps, the others being idle.      *)
Settled(c) ==
  /\ pc[c] \in {"resolve", "forget", "report"} => pending = None
  /\ pc[c] \in {"forget", "report"} => marker = None
  /\ sound =>
       /\ pc[c] # "forget"
       /\ pc[c] \in Resting => Clean
       /\ pc[c] \in {"nftf", "unpend"} =>
            marker = None /\ live = Table(journal)
       /\ pc[c] = "commit" => marker = None /\ live = Table(arg[c])
       /\ pc[c] \in {"nftd", "restore"} =>
            /\ pending = None
            /\ had[c] => live = Table(marker)
            /\ ~had[c] => marker = None /\ live = None
       /\ pc[c] \in {"unmark", "clean"} => live = None /\ pending = None
       /\ pc[c] = "clean" => marker = None

Ledger ==
  /\ sound /\ lock = None => Clean
  /\ \A c \in Users : Settled(c)

LEMMA SettledStep ==
  ASSUME Quiet, TypeInv, Inherited, Inherited', Bounds, Ledger,
         NEW c \in Users, Work(c)
  PROVE  pc[c] # "idle" /\ lock' = lock /\ Settled(c)'
<1> USE DEF TypeInv, TypeOK, Root!TypeOK, Root!Goto, Root!Can, Root!files,
            Root!locals, Settled, Resting, Clean, Table, Root!TableOf
<1>0. /\ sound' = sound /\ Settled(c)
      /\ pc \in [Users -> Root!Steps \cup {"idle"}]
      /\ had \in [Users -> BOOLEAN]
      /\ Hazards \subseteq {"write", "nft", "list", "kill", "flush"}
  BY DEF Work, Ledger, Quiet
<1>1. CASE Root!WritePending(c)
  BY <1>0, <1>1 DEF Root!WritePending
<1>2. CASE Root!NftReplace(c)
  BY <1>0, <1>2 DEF Root!NftReplace, Root!Tables
<1>3. CASE Root!RemovePending(c)
  BY <1>0, <1>3 DEF Root!RemovePending
<1>4. CASE Root!Commit(c)
  <2>1. pending = arg[c] /\ arg[c] = target[c]
    BY <1>4 DEF Root!Commit, Inherited, Bounds, Bound
  <2>2. target[c] \in Rulesets
    OBVIOUS
  <2>3. target[c] # None
    BY <2>2, RootConstants DEF Proved!ConstantsAssumption
  <2> QED BY <1>0, <1>4, <2>1, <2>3 DEF Root!Commit
<1>5. CASE Root!Mark(c)
  BY <1>0, <1>5 DEF Root!Mark
<1>6. CASE Root!NftDelete(c)
  BY <1>0, <1>6 DEF Root!NftDelete
<1>7. CASE Root!Restore(c)
  <2>1. journal = None /\ (had[c] => marker # None)
    BY <1>7 DEF Root!Restore, Inherited
  <2> QED BY <1>0, <1>7, <2>1 DEF Root!Restore
<1>8. CASE Root!Unmark(c)
  BY <1>0, <1>8 DEF Root!Unmark
<1>9. CASE Root!Clean(c)
  <2>1. journal = None
    BY <1>9 DEF Root!Clean, Inherited
  <2> QED BY <1>0, <1>9, <2>1 DEF Root!Clean
<1>10. CASE Root!List(c)
  BY <1>0, <1>10 DEF Root!List
<1>11. CASE Root!Reconcile(c)
  BY <1>0, <1>11 DEF Root!Reconcile, Root!PendingMatches
<1>12. CASE Root!Resolve(c)
  BY <1>0, <1>12 DEF Root!Resolve
<1>13. CASE Root!Forget(c)
  BY <1>0, <1>13 DEF Root!Forget
<1> QED
  BY <1>1, <1>2, <1>3, <1>4, <1>5, <1>6, <1>7, <1>8, <1>9, <1>10, <1>11,
     <1>12, <1>13 DEF Work, Root!Replace, Root!Delete, Root!Inspect

LEMMA LedgerStep ==
  ASSUME Quiet, TypeInv, Inherited, Inherited', Bounds, Ledger, [Next]_vars
  PROVE  Ledger'
<1> USE DEF TypeInv, TypeOK, Root!TypeOK
<1>0. pc \in [Users -> Root!Steps \cup {"idle"}]
  OBVIOUS
<1>1. ASSUME NEW c \in Users, Local(c) PROVE Ledger'
  BY <1>1, LocalStep
     DEF applier, Ledger, Settled, Clean, Table, Root!TableOf
<1>2. ASSUME NEW c \in Users, Call(c) PROVE Ledger'
  <2>1. /\ lock = None /\ lock' = c /\ c # None
        /\ pc'[c] \in {"pend", "mark", "list"}
        /\ UNCHANGED <<live, pending, marker, journal, sound>>
    BY <1>2, CliAssumption
       DEF Call, Root!Begin, Root!LockFree, Root!Goto, Root!files
  <2>2. \A d \in Users \ {c} : pc'[d] = "idle"
    BY <1>2, <2>1, OthersIdle DEF Call, Root!Begin, Root!Goto
  <2>3. sound => Clean'
    BY <2>1 DEF Ledger, Clean, Table, Root!TableOf
  <2> QED BY <2>1, <2>2, <2>3 DEF Ledger, Settled, Resting
<1>3. ASSUME NEW c \in Users, Return(c) PROVE Ledger'
  <2>1. pc[c] \in Root!Replies /\ pc'[c] = "idle"
    BY <1>3 DEF Return, Root!Exit, Root!Vanish
  <2>2. \A d \in Users : pc'[d] = "idle"
    BY <1>3, <2>1, OthersIdle DEF Return, Root!Exit, Root!Vanish,
                                  Root!Replies
  <2>3. UNCHANGED <<live, pending, marker, journal>>
    BY <1>3 DEF Return, Root!Exit, Root!files
  <2>4. CASE sound
    <3>1. Clean
      BY <2>1, <2>4 DEF Ledger, Settled, Resting, Root!Replies
    <3> QED
      BY <2>2, <2>3, <3>1 DEF Ledger, Settled, Resting, Clean, Table,
                              Root!TableOf
  <2>5. CASE ~sound /\ sound'
    <3>1. pc[c] = "report" /\ seen[c] = journal /\ seen[c] = live
      BY <1>3, <2>5 DEF Return, Root!InSync
    <3>2. pending = None /\ marker = None
      BY <3>1 DEF Ledger, Settled
    <3>3. live = Table(journal)
      BY <3>1 DEF Table, Root!TableOf, Root!Tables
    <3> QED
      BY <2>2, <2>3, <3>2, <3>3 DEF Ledger, Settled, Resting, Clean, Table,
                                    Root!TableOf
  <2>6. CASE ~sound'
    BY <2>2, <2>6 DEF Ledger, Settled
  <2> QED BY <2>4, <2>5, <2>6
<1>4. ASSUME NEW c \in Users, Lost(c) PROVE Ledger'
  <2>1. pc[c] # "idle" /\ pc'[c] = "idle" /\ ~sound'
    BY <1>4 DEF Lost, Root!Kill, Root!Vanish
  <2>2. \A d \in Users : pc'[d] = "idle"
    BY <1>4, <2>1, OthersIdle DEF Lost, Root!Kill, Root!Vanish
  <2> QED BY <2>1, <2>2 DEF Ledger, Settled
<1>5. ASSUME NEW c \in Users, Work(c) PROVE Ledger'
  <2>1. pc[c] # "idle" /\ lock' = lock /\ Settled(c)'
    BY <1>5, SettledStep
  <2>2. lock' = c /\ c # None
    BY <2>1, CliAssumption DEF Inherited
  <2>3. \A d \in Users \ {c} : pc'[d] = "idle"
    BY <2>1, <2>2 DEF Inherited
  <2>4. \A d \in Users \ {c} : Settled(d)'
    BY <2>3 DEF Settled, Resting
  <2> QED BY <2>1, <2>2, <2>4 DEF Ledger
<1>6. CASE Flush
  BY <1>6 DEF Flush, Root!Flush, Root!files, Root!locals, Ledger, Settled
<1>7. CASE Publish \/ Refresh \/ UNCHANGED vars
  <2>1. UNCHANGED <<applier, sound>>
    BY <1>7 DEF Publish, Refresh, vars
  <2> QED BY <2>1 DEF applier, Ledger, Settled, Clean, Table, Root!TableOf
<1> QED
  BY <1>1, <1>2, <1>3, <1>4, <1>5, <1>6, <1>7 DEF Next, Proceed, Local

LEMMA LedgerHolds == ASSUME Quiet PROVE Spec => []Ledger
<1>1. Init => Ledger
  BY DEF Init, Root!Init, Ledger, Settled, Clean, Table, Root!TableOf
<1>2. /\ TypeInv /\ Inherited /\ Inherited' /\ Bounds /\ Ledger
      /\ [Next]_vars
      => Ledger'
  BY LedgerStep
<1> QED BY <1>1, <1>2, Types, Inherits, BoundHolds, PTL DEF Spec

(* "nothing to do", decided from the journal alone and without the lock,   *)
(* is true of the live table when no applier is at work, and none died and *)
(* nobody flushed the firewall since a verify last found no drift.         *)
THEOREM NothingMeansLiveHolds == ASSUME Quiet PROVE Spec => NothingMeansLive
<1>1. TypeInv /\ TypeInv' /\ Ledger /\ [Next]_vars =>
        [\A c \in Users :
           step[c] = "plan" /\ step'[c] = "nothing" /\ sound
             /\ lock = None =>
             live = Root!TableOf(target'[c])]_vars
  <2> SUFFICES ASSUME TypeInv, TypeInv', Ledger, [Next]_vars,
                      NEW c \in Users, sound, lock = None,
                      step[c] = "plan", step'[c] = "nothing"
               PROVE  live = Root!TableOf(target'[c])
    OBVIOUS
  <2>1. PlanApply(c)
    <3> USE DEF Goto, TypeInv, TypeOK
    <3>1. ASSUME NEW d \in Users, Local(d) PROVE d = c /\ PlanApply(c)
      BY <3>1 DEF Local, Start, LoadFeed, StoreFeed, Save, PlanApply,
                  Confirm, Denied, GiveUp, Exit
    <3>2. ASSUME NEW d \in Users, Call(d) \/ Return(d) \/ Lost(d) \/ Work(d)
          PROVE  step'[c] # "nothing"
      BY <3>2 DEF Call, Return, Lost, Work, Root!Exit, Root!Replies, mine
    <3>3. CASE Publish \/ Refresh \/ Flush \/ UNCHANGED vars
      BY <3>3 DEF Publish, Refresh, Flush, vars, mine
    <3> QED BY <3>1, <3>2, <3>3 DEF Next, Proceed, Local
  <2>2. target'[c] \in Rulesets /\ journal \in Rulesets \cup {None}
    BY DEF TypeInv, TypeOK, Root!TypeOK, Root!Files
  <2>3. IsEmptyDiff(Diff(target'[c], journal))
    BY <2>1 DEF PlanApply, Goto, TypeInv, TypeOK
  <2>4. target'[c] = (IF journal = None THEN NoPops ELSE journal)
    BY <2>2, <2>3, EmptyDiffIsEqual
  <2>5. live = Table(journal)
    BY DEF Ledger, Clean
  <2> QED BY <2>4, <2>5 DEF Table, Root!TableOf
<1> QED BY <1>1, Types, LedgerHolds, PTL
       DEF Spec, NothingMeansLive

----------------------------------------------------------------------------
(* Progress, but for fairness.  An edit fetches its feed twice, to save    *)
(* and then to plan; each backend is tried at most once; and what an       *)
(* applier has before it is Togo of ApplierProofs.                         *)
Ahead(s, g) ==
  CASE s = "feed"             -> IF g = "save" THEN 10 ELSE 7
    [] s = "store"            -> IF g = "save" THEN 9 ELSE 6
    [] s = "save"             -> 8
    [] s = "plan"             -> 5
    [] s = "confirm"          -> 4
    [] s \in {"call", "called"} -> 3
    [] s \in Finals           -> 2
    [] OTHER                  -> 0

Attempts(s, backends) == 2 * backends + (IF s = "called" THEN 1 ELSE 0)

CommandNearer(c) ==
  \/ Ahead(step'[c], goal'[c]) < Ahead(step[c], goal[c])
  \/ /\ {step[c], step'[c]} \subseteq {"call", "called"}
     /\ Attempts(step'[c], left'[c]) < Attempts(step[c], left[c])
  \/ /\ step[c] = "called" /\ UNCHANGED <<step[c], left[c]>>
     /\ Proved!Togo(pc'[c]) < Proved!Togo(pc[c])

Waits(c) == UNCHANGED <<step[c], goal[c], left[c], pc[c]>>

LEMMA AheadOrder ==
  /\ Ahead("feed", "save") = 10 /\ Ahead("feed", "plan") = 7
  /\ Ahead("store", "save") = 9 /\ Ahead("store", "plan") = 6
  /\ \A g : /\ Ahead("save", g) = 8 /\ Ahead("plan", g) = 5
            /\ Ahead("confirm", g) = 4
            /\ Ahead("call", g) = 3 /\ Ahead("called", g) = 3
            /\ \A s \in Finals : Ahead(s, g) = 2
            /\ Ahead("idle", g) = 0
BY DEF Ahead, Finals

(* The steps of the others leave a command where it is.                    *)
LEMMA OthersWait ==
  ASSUME TypeInv, [Next]_vars, NEW c \in Users,
         ~(Proceed(c) \/ Call(c) \/ Denied(c) \/ Lost(c) \/ Start(c))
  PROVE  Waits(c)
<1> USE DEF TypeInv, TypeOK, Goto
<1>0. pc \in [Users -> Root!Steps \cup {"idle"}]
  BY DEF Root!TypeOK
<1>1. ASSUME NEW d \in Users \ {c}, Local(d) PROVE Waits(c)
  <2>1. UNCHANGED pc
    BY <1>1, LocalStep DEF applier
  <2>2. /\ \E s : step' = [step EXCEPT ![d] = s]
        /\ \E g : goal' = [goal EXCEPT ![d] = g]
        /\ \E n : left' = [left EXCEPT ![d] = n]
    BY <1>1 DEF Local, Start, LoadFeed, StoreFeed, Save, PlanApply, Confirm,
                Denied, GiveUp, Exit
  <2> QED BY <2>1, <2>2 DEF Waits
<1>2. ASSUME NEW d \in Users \ {c}, Call(d) PROVE Waits(c)
  BY <1>0, <1>2 DEF Call, Root!Begin, Root!Goto, Waits
<1>3. ASSUME NEW d \in Users \ {c}, Return(d) PROVE Waits(c)
  BY <1>0, <1>3 DEF Return, Root!Exit, Root!Vanish, Waits
<1>4. ASSUME NEW d \in Users \ {c}, Lost(d) PROVE Waits(c)
  BY <1>0, <1>4 DEF Lost, Root!Kill, Root!Vanish, Waits
<1>5. ASSUME NEW d \in Users \ {c}, Work(d) PROVE Waits(c)
  <2>1. UNCHANGED pc[c]
    BY <1>0, <1>5
       DEF Work, Root!Goto, Root!Replace, Root!WritePending,
           Root!NftReplace, Root!RemovePending, Root!Commit, Root!Delete,
           Root!Mark, Root!NftDelete, Root!Restore, Root!Unmark, Root!Clean,
           Root!Inspect, Root!List, Root!Reconcile, Root!Resolve,
           Root!Forget
  <2> QED BY <1>5, <2>1 DEF Work, mine, Waits
<1>6. CASE Publish \/ Refresh \/ Flush \/ UNCHANGED vars
  BY <1>6 DEF Publish, Refresh, Flush, Root!Flush, Root!locals, vars, mine,
              applier, Waits
<1> QED
  BY <1>1, <1>2, <1>3, <1>4, <1>5, <1>6 DEF Next, Proceed, Local

(* A command's own step brings it nearer to its end.                       *)
LEMMA CommandStep ==
  ASSUME TypeInv, Proved!OwnInv, NEW c \in Users,
         Proceed(c) \/ Call(c) \/ Denied(c) \/ Lost(c)
  PROVE  CommandNearer(c)
<1> USE DEF TypeInv, TypeOK, Goto
<1>0. left[c] \in Nat /\ goal[c] \in {"save", "plan"}
  BY CliAssumption
<1>1. CASE LoadFeed(c)
  <2>1. /\ step[c] = "feed" /\ UNCHANGED goal
        /\ step'[c] \in {goal[c], "store", "failed"}
    BY <1>1 DEF LoadFeed
  <2> QED BY <1>0, <2>1, AheadOrder DEF CommandNearer, Finals
<1>2. CASE StoreFeed(c)
  <2>1. /\ step[c] = "store" /\ UNCHANGED goal
        /\ step'[c] \in {goal[c], "failed"}
    BY <1>2 DEF StoreFeed
  <2> QED BY <1>0, <2>1, AheadOrder DEF CommandNearer, Finals
<1>3. CASE Save(c)
  <2>1. /\ step[c] = "save"
        /\ \/ goal'[c] = "plan" /\ step'[c] \in {"feed", "staged"}
           \/ UNCHANGED goal /\ step'[c] = "failed"
    BY <1>3 DEF Save
  <2> QED BY <1>0, <2>1, AheadOrder DEF CommandNearer, Finals
<1>4. CASE PlanApply(c) \/ Confirm(c)
  <2>1. \/ /\ step[c] = "plan"
           /\ step'[c] \in {"nothing", "call", "confirm", "failed"}
        \/ step[c] = "confirm" /\ step'[c] \in {"call", "aborted"}
    BY <1>4 DEF PlanApply, Confirm
  <2> QED BY <2>1, AheadOrder DEF CommandNearer, Finals
<1>5. CASE GiveUp(c)
  <2>1. step[c] = "call" /\ step'[c] = "failed"
    BY <1>5 DEF GiveUp
  <2> QED BY <2>1, AheadOrder DEF CommandNearer, Finals
<1>6. CASE Return(c)
  <2>1. step[c] = "called" /\ step'[c] \in Finals
    BY <1>6 DEF Return, Root!Exit, Root!Replies, Finals
  <2> QED BY <2>1, AheadOrder DEF CommandNearer
<1>7. CASE Exit(c)
  <2>1. step[c] \in Finals /\ step'[c] = "idle"
    BY <1>7 DEF Exit
  <2> QED BY <2>1, AheadOrder DEF CommandNearer
<1>8. CASE Call(c) \/ Denied(c)
  <2>1. /\ step[c] = "call" /\ step'[c] \in {"call", "called"}
        /\ left[c] > 0 /\ left'[c] = left[c] - 1
    BY <1>8 DEF Call, Denied
  <2> QED BY <1>0, <2>1 DEF CommandNearer, Attempts
<1>9. CASE Lost(c)
  <2>1. step[c] = "called" /\ step'[c] = "call" /\ left'[c] = left[c]
    BY <1>9 DEF Lost
  <2> QED BY <1>0, <2>1 DEF CommandNearer, Attempts
<1>10. CASE Work(c)
  <2>1. Proved!Replace(c) \/ Proved!Delete(c) \/ Proved!Inspect(c)
    BY <1>10, WorkIsAppliers
  <2>2. Proved!Togo(pc'[c]) < Proved!Togo(pc[c])
    BY <2>1, RootConstants, Proved!WorkNearer
  <2> QED BY <1>10, <2>2 DEF Work, mine, CommandNearer
<1> QED
  BY <1>1, <1>2, <1>3, <1>4, <1>5, <1>6, <1>7, <1>8, <1>9, <1>10
     DEF Proceed

(* No command goes round for ever: it fetches, saves, plans, asks and      *)
(* calls in an order that has no way back, tries no backend twice, however *)
(* often its appliers die, and no step of another command, of Valve or of  *)
(* the refresh timer sends it back.                                        *)
THEOREM CommandNears ==
  Spec => [][\A c \in Users :
               step[c] # "idle" => CommandNearer(c) \/ Waits(c)]_vars
<1>1. TypeInv /\ Proved!OwnInv /\ [Next]_vars
        => [\A c \in Users :
              step[c] # "idle" => CommandNearer(c) \/ Waits(c)]_vars
  <2> SUFFICES ASSUME TypeInv, Proved!OwnInv, [Next]_vars, NEW c \in Users,
                      step[c] # "idle"
               PROVE  CommandNearer(c) \/ Waits(c)
    OBVIOUS
  <2>1. ~Start(c)
    BY DEF Start
  <2> QED BY <2>1, OthersWait, CommandStep
<1> QED BY <1>1, Types, Owned, PTL DEF Spec
=============================================================================
