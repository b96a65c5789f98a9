-------------------------------- MODULE Cli --------------------------------
(***************************************************************************)
(* Several regionlock commands at the same time: the edits of config.toml, *)
(* the feed cache, plan, confirmation and escalation of module Plan's      *)
(* operators, composed with the appliers of module Applier that they run.  *)
(* The applier of a command has the command's name.                        *)
(*                                                                         *)
(* One game, and a boot snapshot that stays as it is: --system and the     *)
(* persist commands are in module Boot.                                    *)
(***************************************************************************)
EXTENDS Plan, Naturals, Sequences, FiniteSetsExt

CONSTANTS Users,     \* commands that may run at the same time
          Commands,  \* what they may be asked to do
          Feed,      \* Feed[r]: the feed of revision r, in 1 .. Len(Feed)
          Pinned,    \* the feed revision of the boot snapshot, 0 without one
          Backends,  \* number of escalation backends installed
          Hazards    \* what the environment may do, see Applier

(* op: block, unblock, allow, reset, apply, teardown or verify; inputs:    *)
(* its selectors; now: --apply or apply_mode = "auto"; yes: --yes;         *)
(* offline: --offline.                                                     *)
Edits == {"block", "unblock", "allow", "reset"}

ASSUME CliAssumption ==
  /\ Commands \subseteq [op : Edits \cup {"apply", "teardown", "verify"},
                         inputs : SUBSET (Codes \cup Regions),
                         now : BOOLEAN, yes : BOOLEAN, offline : BOOLEAN]
  /\ \A k \in Commands : k.offline => k.op = "apply"
  /\ None \notin Users
  /\ Feed \in Seq(Feeds) /\ Feed # <<>>
  /\ Pinned \in {0, 1}
  /\ Backends \in Nat \ {0}

VARIABLES
  config,   \* the desired blocklist in config.toml
  cache,    \* the revisions in the feed cache
  net,      \* the revision Valve serves
  step,     \* step[c]: the next step of command c
  cmd,      \* cmd[c]: what it was asked to do
  own,      \* own[c]: the blocklist it loaded, and edited
  rev,      \* rev[c]: the feed it loaded
  goal,     \* goal[c]: what the feed is for, "save" or "plan"
  target,   \* target[c]: the ruleset it planned and showed
  left,     \* left[c]: escalation backends not tried yet
  since,    \* history: the newest cached revision when c started
  sound     \* history: no kill or flush since a clean verify listed the table

VARIABLES live, pending, marker, journal, lock, pc, arg, seen, had, orphans,
          tainted

Root == INSTANCE Applier WITH
          Procs  <- Users,
          Specs  <- Rulesets,
          Empty  <- NoPops,
          Listed <- [s \in Rulesets \ {NoPops} |-> s]

ASSUME HazardsAssumption == Hazards \subseteq Root!HazardKinds

mine    == <<step, cmd, own, rev, goal, target, left, since>>
shared  == <<config, cache, net>>
applier == <<live, pending, marker, journal, lock, pc, arg, seen, had, orphans,
             tainted>>
vars    == <<mine, shared, sound, applier>>

Finals == {"staged", "nothing", "aborted", "failed", "applied", "deleted",
           "verified", "drift", "refused"}
Steps  == {"idle", "feed", "store", "save", "plan", "confirm", "call",
           "called"} \cup Finals
NoCommand == [op |-> "none", inputs |-> {}, now |-> FALSE, yes |-> FALSE,
              offline |-> FALSE]
Newest    == IF cache = {} THEN 0 ELSE Max(cache)

Init ==
  /\ config = {} /\ cache = {} /\ net = 1
  /\ step = [c \in Users |-> "idle"]
  /\ cmd = [c \in Users |-> NoCommand]
  /\ own = [c \in Users |-> {}]
  /\ rev = [c \in Users |-> 0] /\ since = [c \in Users |-> 0]
  /\ goal = [c \in Users |-> "plan"]
  /\ target = [c \in Users |-> NoPops]
  /\ left = [c \in Users |-> Backends]
  /\ sound = TRUE
  /\ Root!Init

----------------------------------------------------------------------------
(* Up to the escalation: only this command's own state, the config file    *)
(* and the feed cache.                                                     *)

Goto(c, s) == step' = [step EXCEPT ![c] = s]

(* The config is loaded before anything else. *)
Start(c) ==
  /\ step[c] = "idle"
  /\ \E k \in Commands :
       /\ cmd' = [cmd EXCEPT ![c] = k]
       /\ goal' = [goal EXCEPT ![c] =
                     IF k.op \in Edits THEN "save" ELSE "plan"]
       /\ Goto(c, CASE k.op = "verify"   -> "call"
                    [] k.op = "teardown" -> IF k.yes THEN "call" ELSE "confirm"
                    [] k.op = "reset"    -> "save"
                    [] OTHER             -> "feed")
  /\ own' = [own EXCEPT ![c] = config]
  /\ since' = [since EXCEPT ![c] = Newest]
  /\ UNCHANGED <<rev, target, left, shared, sound, applier>>

(* Mutated form of LoadFeed: any cached feed, not the newest. *)
LoadAnyFeed(c) ==
  /\ step[c] = "feed" /\ cache # {}
  /\ \E r \in cache : rev' = [rev EXCEPT ![c] = r]
  /\ Goto(c, goal[c])
  /\ UNCHANGED <<cmd, own, goal, target, left, since, shared, sound,
                 applier>>

(* load_feed and load_offline: the newest cached revision and, without a   *)
(* cache, the network or the boot snapshot.  There may be neither; and of  *)
(* a feed that cannot be read or parsed there is no older one to turn to.  *)
LoadFeed(c) ==
  /\ step[c] = "feed"
  /\ \/ /\ cache # {}
        /\ rev' = [rev EXCEPT ![c] = Newest]
        /\ Goto(c, goal[c])
     \/ /\ cache = {} /\ cmd[c].offline /\ Pinned # 0
        /\ rev' = [rev EXCEPT ![c] = Pinned]
        /\ Goto(c, goal[c])
     \/ /\ cache = {} /\ ~cmd[c].offline
        /\ rev' = [rev EXCEPT ![c] = net]
        /\ Goto(c, "store")
     \/ Goto(c, "failed") /\ UNCHANGED rev
  /\ UNCHANGED <<cmd, own, goal, target, left, since, shared, sound,
                 applier>>

(* The fetched feed is cached, and used even if a newer one came meanwhile; *)
(* a feed that cannot be cached is not used. *)
StoreFeed(c) ==
  /\ step[c] = "store"
  /\ \/ cache' = cache \cup {rev[c]} /\ Goto(c, goal[c])
     \/ Goto(c, "failed") /\ UNCHANGED cache
  /\ UNCHANGED <<cmd, own, rev, goal, target, left, since, config, net,
                 sound, applier>>

(* The edit of command k on a loaded blocklist. *)
Edited(k, desired, feed) ==
  LET pops == Selected(k.inputs, feed)
  IN CASE k.op = "block"   -> Block(desired, pops).blocked
       [] k.op = "unblock" -> Unblock(desired, pops).blocked
       [] k.op = "allow"   -> Allow(desired, pops, feed).blocked
       [] OTHER            -> Reset(desired).blocked

(* Unknown selectors, or a file system error, fail the command with the    *)
(* file untouched; else the whole file is replaced, and `staged` printed,  *)
(* before any apply.                                                       *)
Save(c) ==
  LET feed == IF rev[c] = 0 THEN NoPops ELSE Feed[rev[c]]
  IN /\ step[c] = "save"
     /\ \/ /\ \A i \in cmd[c].inputs : Known(i, feed)
           /\ own' = [own EXCEPT ![c] = Edited(cmd[c], own[c], feed)]
           /\ config' = own'[c]
           /\ goal' = [goal EXCEPT ![c] = "plan"]
           /\ Goto(c, IF cmd[c].now THEN "feed" ELSE "staged")
        \/ Goto(c, "failed") /\ UNCHANGED <<own, config, goal>>
     /\ UNCHANGED <<cmd, rev, target, left, since, cache, net, sound,
                    applier>>

(* cmd_apply: build, read the journal without the lock, compare; a journal *)
(* that cannot be read fails the command. *)
PlanApply(c) ==
  /\ step[c] = "plan"
  /\ \/ /\ target' = [target EXCEPT ![c] = Build(own[c], Feed[rev[c]])]
        /\ Goto(c, IF IsEmptyDiff(Diff(target'[c], journal)) THEN "nothing"
                   ELSE IF cmd[c].yes THEN "call" ELSE "confirm")
     \/ Goto(c, "failed") /\ UNCHANGED target
  /\ UNCHANGED <<cmd, own, rev, goal, left, since, shared, sound,
                 applier>>

(* The user answers, however long that takes. *)
Confirm(c) ==
  /\ step[c] = "confirm"
  /\ Goto(c, "call") \/ Goto(c, "aborted")
  /\ UNCHANGED <<cmd, own, rev, goal, target, left, since, shared,
                 sound, applier>>

----------------------------------------------------------------------------
(* run_applier.                                                            *)

(* What a command asks its applier to do. *)
Sent(c, ruleset) ==
  CASE cmd[c].op = "teardown" -> pc'[c] = "mark"
    [] cmd[c].op = "verify"   -> pc'[c] = "list"
    [] OTHER                  -> pc'[c] = "pend" /\ arg'[c] = ruleset

(* Mutated form of Call: the ruleset is built again from the config file. *)
CallRebuilds(c) ==
  /\ step[c] = "call" /\ left[c] > 0
  /\ Root!Begin(c) /\ Sent(c, Build(config, Feed[Newest]))
  /\ left' = [left EXCEPT ![c] = @ - 1]
  /\ Goto(c, "called")
  /\ UNCHANGED <<cmd, own, rev, goal, target, since, shared, sound>>

(* The next backend starts the applier, which waits for the lock. *)
Call(c) ==
  /\ step[c] = "call" /\ left[c] > 0
  /\ Root!Begin(c) /\ Sent(c, target[c])
  /\ left' = [left EXCEPT ![c] = @ - 1]
  /\ Goto(c, "called")
  /\ UNCHANGED <<cmd, own, rev, goal, target, since, shared, sound>>

(* The next backend is not installed, cannot run the applier, or the       *)
(* password was wrong. *)
Denied(c) ==
  /\ step[c] = "call" /\ left[c] > 0
  /\ left' = [left EXCEPT ![c] = @ - 1]
  /\ UNCHANGED <<step, cmd, own, rev, goal, target, since, shared, sound,
                 applier>>

(* Mutated form of GiveUp: the first backend is tried again. *)
GiveUpStartsOver(c) ==
  /\ step[c] = "call" /\ left[c] = 0
  /\ left' = [left EXCEPT ![c] = Backends]
  /\ UNCHANGED <<step, cmd, own, rev, goal, target, since, shared, sound,
                 applier>>

(* No backend is left: the error names every attempt. *)
GiveUp(c) ==
  /\ step[c] = "call" /\ left[c] = 0
  /\ Goto(c, "failed")
  /\ UNCHANGED <<cmd, own, rev, goal, target, left, since, shared, sound,
                 applier>>

(* drive: the applier's reply is the outcome. *)
Return(c) ==
  /\ step[c] = "called"
  /\ Root!Exit(c)
  /\ LET synced == pc[c] = "report" /\ Root!InSync(c)
     IN /\ Goto(c, IF pc[c] # "report" THEN pc[c]
                   ELSE IF synced THEN "verified" ELSE "drift")
        /\ sound' = (sound \/ (synced /\ seen[c] = live))
  /\ UNCHANGED <<cmd, own, rev, goal, target, left, since, shared>>

(* The applier dies without a reply: the next backend runs it once more. *)
Lost(c) ==
  /\ step[c] = "called"
  /\ Root!Kill(c)
  /\ Goto(c, "call")
  /\ sound' = FALSE
  /\ UNCHANGED <<cmd, own, rev, goal, target, left, since, shared>>

Work(c) ==
  /\ step[c] = "called"
  /\ Root!Replace(c) \/ Root!Delete(c) \/ Root!Inspect(c)
  /\ UNCHANGED <<mine, shared, sound>>

(* The process exits, and the next one may start. *)
Exit(c) ==
  /\ step[c] \in Finals
  /\ Goto(c, "idle")
  /\ cmd' = [cmd EXCEPT ![c] = NoCommand]
  /\ own' = [own EXCEPT ![c] = {}]
  /\ rev' = [rev EXCEPT ![c] = 0] /\ since' = [since EXCEPT ![c] = 0]
  /\ goal' = [goal EXCEPT ![c] = "plan"]
  /\ target' = [target EXCEPT ![c] = NoPops]
  /\ left' = [left EXCEPT ![c] = Backends]
  /\ UNCHANGED <<shared, sound, applier>>

----------------------------------------------------------------------------
(* Valve serves a new revision. *)
Publish ==
  /\ net < Len(Feed)
  /\ net' = net + 1
  /\ UNCHANGED <<mine, config, cache, sound, applier>>

(* Another command with --refresh, as the refresh timer runs daily, caches *)
(* what is served. *)
Refresh ==
  /\ cache' = cache \cup {net}
  /\ UNCHANGED <<mine, config, net, sound, applier>>

Flush ==
  /\ Root!Flush
  /\ sound' = FALSE
  /\ UNCHANGED <<mine, shared>>

Proceed(c) ==
  \/ LoadFeed(c) \/ StoreFeed(c) \/ Save(c) \/ PlanApply(c) \/ Confirm(c)
  \/ GiveUp(c) \/ Return(c) \/ Work(c) \/ Exit(c)

Next ==
  \/ \E c \in Users :
       Start(c) \/ Proceed(c) \/ Call(c) \/ Denied(c) \/ Lost(c)
  \/ Publish \/ Refresh \/ Flush

Spec == Init /\ [][Next]_vars

(* Users answer and processes run.  flock queues its waiters, so an        *)
(* applier that keeps waiting gets the lock: strong fairness of Call,      *)
(* because others may take it in between.  Nobody has to deny or kill.     *)
LiveSpec ==
  /\ Spec
  /\ \A c \in Users : WF_vars(Proceed(c)) /\ SF_vars(Call(c))

----------------------------------------------------------------------------
(* Properties.                                                             *)

TypeOK ==
  /\ config \in SUBSET Codes
  /\ cache \subseteq 1 .. Len(Feed) /\ net \in 1 .. Len(Feed)
  /\ step \in [Users -> Steps]
  /\ cmd \in [Users -> Commands \cup {NoCommand}]
  /\ own \in [Users -> SUBSET Codes]
  /\ rev \in [Users -> 0 .. Len(Feed)]
  /\ since \in [Users -> 0 .. Len(Feed)]
  /\ goal \in [Users -> {"save", "plan"}]
  /\ target \in [Users -> Rulesets]
  /\ left \in [Users -> 0 .. Backends]
  /\ sound \in BOOLEAN
  /\ Root!TypeOK

(* Whatever other commands did to the config, the cache and the journal    *)
(* while the prompt waited, and however often the applier had to be run    *)
(* again, an Applied reply means the ruleset that was shown is the one     *)
(* recorded, and live unless another program flushed it meanwhile.         *)
ConfirmedInstalled ==
  \A c \in Users :
    pc[c] = "applied" =>
      /\ journal = target[c]
      /\ live = Root!TableOf(target[c]) \/ (live = None /\ ~sound)

(* "nothing to do", which is decided from the journal alone and without    *)
(* the lock, is true of the live table unless an applier is at work, or    *)
(* one died or the firewall was flushed since a verify last found no       *)
(* drift.  So a clean verify makes every later apply reliable again.       *)
NothingMeansLive ==
  [][\A c \in Users :
       step[c] = "plan" /\ step'[c] = "nothing" /\ sound /\ lock = None =>
         live = Root!TableOf(target'[c])]_vars

(* No command plans with a feed older than the newest one that was cached  *)
(* when it started, whoever fetches and stores in between.                 *)
FeedNotBehind ==
  \A c \in Users : step[c] \in {"plan", "confirm"} /\ cmd[c].op # "teardown" =>
                     rev[c] >= since[c]

(* Every command ends: it gets the lock although other commands keep       *)
(* coming, and gives up when its appliers keep dying.                      *)
CommandEnds == \A c \in Users : step[c] # "idle" ~> step[c] = "idle"
=============================================================================
