-------------------------------- MODULE Boot --------------------------------
(***************************************************************************)
(* What happens to a blocklist between two boots: the boot unit, the       *)
(* refresh timer and a user's persist commands, as processes that find     *)
(* their config and feed in the places the code looks for them, read       *)
(* /etc/regionlock without the lock, and change it through the applier of  *)
(* module Persist.  The unit and the timer run as root, who may have a     *)
(* config of its own and has a feed cache of its own.  A user's home is    *)
(* not followed: what a user persists is any blocklist with any feed that  *)
(* was published.                                                          *)
(*                                                                         *)
(* A snapshot is the blocklist and the feed revision that were persisted.  *)
(* The firewall is one table that an applier changes in one step under the *)
(* lock: module Applier implements that, see Firewall.  A managed unit is  *)
(* that of the NixOS module, whose config.toml is a link into the store.   *)
(* Nobody else has files in /etc/regionlock; module Persist has those.     *)
(***************************************************************************)
EXTENDS Plan, Naturals, Sequences, FiniteSetsExt

CONSTANTS Feed,      \* Feed[r]: the feed of revision r, in 1 .. Len(Feed)
          Settings,  \* the blocklist of the NixOS settings
          Link,      \* the link they are behind, see Persist
          Foreign,   \* another owner's file, see Persist
          Strays,    \* what a config.toml in root's home may block, or None
          Hazards    \* offline: a fetch fails; the others are Persist's

VARIABLES
  table,   \* the ruleset in the firewall, None for no table
  stray,   \* the blocklist of a config.toml in root's home, or None
  cache,   \* the newest revision in root's feed cache, or 0
  net,     \* the revision Valve serves
  due,     \* systemd has the boot unit still to start
  step,    \* step[a]: the next step of process a
  own,     \* own[u]: the blocklist that unit u loaded
  rev,     \* rev[u]: the revision of the feed it loaded
  online,  \* history: the network was up when the timer's run loaded a feed
  alone,   \* history: alone[u]: /etc/regionlock has not changed since the
           \* config load of u, and nobody was changing it then
  last     \* history: the snapshot of the last Persisted reply, None after
           \* an Unpersisted or a kill

VARIABLES file, bak, managed, enabled, pc, arg, todo, backed, written, here,
          nixos, prior, ran, failed, before, kept, intact

Snaps == [desired : SUBSET Codes, rev : 1 .. Len(Feed)]

Bare == [n \in {0} \cup {s.rev : s \in Snaps} |-> None]

Etc == INSTANCE Persist WITH
         Revision <- [s \in Snaps |-> s.rev],
         Strange  <- [file : {Bare, [Bare EXCEPT ![0] = Link]}, bak : {Bare}],
         Hazards  <- Hazards \ {"offline"}

ASSUME BootAssumption ==
  /\ Feed \in Seq(Feeds) /\ Feed # <<>>
  /\ Settings \subseteq Codes
  /\ Strays \subseteq (SUBSET Codes) \cup {None}
  /\ None \notin Snaps /\ Foreign \notin Snaps /\ Link \notin Snaps
  /\ None # Foreign /\ None # Link /\ Foreign # Link
  /\ Hazards \subseteq Etc!HazardKinds \cup {"offline"}

processes == <<step, own, rev, online, alone>>
home == <<stray, cache>>
etc  == <<file, bak, managed, enabled, pc, arg, todo, backed, written, here,
          nixos, prior, ran, failed, before, kept, intact>>
vars == <<table, home, net, due, processes, last, etc>>

Units  == {"unit", "timer"}
Actors == Units \cup {"user"}
Steps  == {"idle", "load", "feed", "call", "etc", "applied"}

Can(hazard) == hazard \in Hazards

(* The applier's lock. *)
Free == pc = "idle"

(* A new installation, but root may have left a config behind. *)
Init ==
  /\ Etc!Init
  /\ file[Etc!Config] = IF managed THEN Link ELSE None
  /\ table = None /\ net = 1 /\ due = managed
  /\ stray \in Strays /\ cache = 0
  /\ step = [a \in Actors |-> "idle"]
  /\ own = [u \in Units |-> {}] /\ rev = [u \in Units |-> 0]
  /\ online = FALSE /\ alone = [u \in Units |-> FALSE]
  /\ last = None

----------------------------------------------------------------------------
(* Where a unit finds its config and its feed.                             *)

Goto(a, s) == step' = [step EXCEPT ![a] = s]

(* What a loaded is in its operation, or given up. *)
Forget(a) ==
  /\ own' = [u \in Units |-> IF u = a THEN {} ELSE own[u]]
  /\ rev' = [u \in Units |-> IF u = a THEN 0 ELSE rev[u]]

(* A process that ends, or only stays active, knows nothing any more. *)
End(a, s) ==
  /\ Goto(a, s)
  /\ Forget(a)
  /\ online' = (online /\ a # "timer")
  /\ alone' = [u \in Units |-> alone[u] /\ u # a]

(* Config::load of /etc/regionlock/config.toml; a missing file is the      *)
(* default config, and what is neither that nor an applier's is the link.  *)
EtcBlocklist ==
  CASE file[Etc!Config] = None     -> {}
    [] file[Etc!Config] \in Snaps -> file[Etc!Config].desired
    [] OTHER                       -> Settings

(* Mutated form of Resolved: a missing home config is a default config. *)
ResolvedAtHome == IF stray # None THEN stray ELSE {}

(* resolve_path without --config, as root: a config of the home wins. *)
Resolved == IF stray # None THEN stray ELSE EtcBlocklist

(* systemd starts the boot unit once, if ConditionPathExists holds; the    *)
(* unit of the NixOS module has no condition. *)
StartUnit ==
  /\ due /\ step["unit"] = "idle"
  /\ due' = FALSE
  /\ Goto("unit", IF managed \/ file[Etc!Config] # None THEN "load"
                  ELSE "idle")
  /\ UNCHANGED <<table, home, net, own, rev, online, alone, last, etc>>

(* Mutated form of Starts: the boot unit resolves its config as well. *)
StartsResolved(u) ==
  /\ step[u] = IF u = "unit" THEN "load" ELSE "idle"
  /\ u = "timer" => ~managed
  /\ own' = [own EXCEPT ![u] = Resolved]

(* The boot units pin the config, by --system or --config; the timer's     *)
(* command does not.  The NixOS module has no timer. *)
Starts(u) ==
  \/ /\ u = "unit" /\ step[u] = "load"
     /\ own' = [own EXCEPT ![u] = EtcBlocklist]
  \/ /\ u = "timer" /\ step[u] = "idle" /\ ~managed
     /\ own' = [own EXCEPT ![u] = Resolved]

LoadConfig(u) ==
  /\ Starts(u)
  /\ Goto(u, "feed")
  /\ alone' = [alone EXCEPT ![u] = Free /\ intact]
  /\ UNCHANGED <<table, home, net, due, rev, online, last, etc>>

Found(u, r) == rev' = [rev EXCEPT ![u] = r]

(* load_etc_snapshot: the feed file of the highest revision, no link. *)
FromEtc(u) ==
  LET there == {n \in Etc!Feeds : file[n] \notin {None, Link}}
  IN there # {} /\ Found(u, Max(there)) /\ UNCHANGED cache

(* load_latest: the newest of root's cache. *)
FromCache(u) == cache # 0 /\ Found(u, cache) /\ UNCHANGED cache

(* What Valve serves, cached before it is used. *)
FromNet(u) == Found(u, net) /\ cache' = net

(* Mutated form of Acquires: the network is asked only without a cache. *)
AcquiresCached(u, up) == FromCache(u) \/ (cache = 0 /\ up /\ FromNet(u))

(* acquire: the network, and the cache where the fetch fails. *)
Acquires(u, up) == IF up THEN FromNet(u) ELSE FromCache(u)

(* load_feed: the cache, and acquire without one. *)
Loads(u, up) == FromCache(u) \/ (cache = 0 /\ Acquires(u, up))

(* apply --system, enable-persist --refresh, and apply --config. *)
Finds(u, up) ==
  \/ u = "unit" /\ ~managed /\ FromEtc(u)
  \/ u = "timer" /\ Acquires(u, up)
  \/ u = "unit" /\ managed /\ Loads(u, up)

(* A feed that is not found, or cannot be cached, ends the command. *)
LoadFeed(u) ==
  /\ step[u] = "feed"
  /\ \/ \E up \in {TRUE, ~Can("offline")} :
          /\ Finds(u, up)
          /\ Goto(u, "call")
          /\ online' = IF u = "timer" THEN up ELSE online
          /\ UNCHANGED <<own, alone>>
     \/ End(u, "idle") /\ UNCHANGED cache
  /\ UNCHANGED <<table, stray, net, due, last, etc>>

----------------------------------------------------------------------------
(* The applier, one operation at a time.                                   *)

(* Mutated form of Installed: an empty ruleset is a table as well. *)
InstalledEmpty(u) == Build(own[u], Feed[rev[u]])

(* What ReplaceRuleset leaves; the empty ruleset has no table. *)
Installed(u) ==
  LET ruleset == Build(own[u], Feed[rev[u]])
  IN IF ruleset = NoPops THEN None ELSE ruleset

(* The unit's `apply --yes`.  It stays active once it has succeeded; a     *)
(* killed or refused operation may have changed the table or not. *)
ApplyUnit ==
  /\ step["unit"] = "call" /\ Free
  /\ \/ table' = Installed("unit") /\ End("unit", "applied")
     \/ table' \in {table, Installed("unit")} /\ End("unit", "idle")
  /\ UNCHANGED <<home, net, due, last, etc>>

(* `systemctl stop`: the unit's `teardown --yes`. *)
StopUnit ==
  /\ step["unit"] = "applied" /\ Free
  /\ table' \in {table, None}
  /\ End("unit", "idle")
  /\ UNCHANGED <<home, net, due, last, etc>>

(* Whoever still works on what it read before is no longer alone. *)
Crowd(a) == alone' = [u \in Units |-> alone[u] /\ u = a]

(* The operation that the command of a sends: the timer's is its blocklist *)
(* and feed as they were loaded. *)
Sends(a) ==
  \/ /\ a = "timer" /\ step[a] = "call"
     /\ Etc!Enable([desired |-> own[a], rev |-> rev[a]])
  \/ /\ a = "user" /\ step[a] = "idle"
     /\ \/ \E s \in Snaps : s.rev <= net /\ Etc!Enable(s)
        \/ Etc!Disable

Call(a) ==
  /\ Sends(a)
  /\ Goto(a, "etc")
  /\ Forget(a)
  /\ Crowd(a)
  /\ UNCHANGED <<table, home, net, due, online, last>>

(* The timer's command runs as root, and fails to start the applier. *)
Decline ==
  /\ step["timer"] = "call"
  /\ End("timer", "idle")
  /\ UNCHANGED <<table, home, net, due, last, etc>>

WorkEtc ==
  \/ Etc!Recover \/ Etc!Detect \/ Etc!BackUp \/ Etc!WriteConfig
  \/ Etc!WriteFeed \/ Etc!EnableUnit \/ Etc!Drop \/ Etc!Rollback
  \/ Etc!DetectForDisable \/ Etc!DisableUnit \/ Etc!Sweep \/ Etc!Swept

Work ==
  /\ WorkEtc
  /\ UNCHANGED <<table, home, net, due, processes, last>>

Return(a) ==
  /\ step[a] = "etc"
  /\ Etc!Exit
  /\ last' = CASE pc = "persisted"   -> arg
               [] pc = "unpersisted" -> None
               [] OTHER              -> last
  /\ End(a, "idle")
  /\ UNCHANGED <<table, home, net, due>>

(* The bound on kills: the next one comes only after a Persisted or an     *)
(* Unpersisted that made up for the last; module Persist has no such bound. *)
KilledOnce == intact

Killed == KilledOnce /\ Etc!Kill

(* The applier dies, and its command fails. *)
Lost(a) ==
  /\ step[a] = "etc"
  /\ Killed
  /\ last' = None
  /\ End(a, "idle")
  /\ UNCHANGED <<table, home, net, due>>

----------------------------------------------------------------------------
Publish ==
  /\ net < Len(Feed)
  /\ net' = net + 1
  /\ UNCHANGED <<table, home, due, processes, last, etc>>

(* What is left of /etc/regionlock when the machine stops: all of it, or   *)
(* what an applier got to.  The NixOS activation puts its link back. *)
Halt ==
  \/ Free /\ ~managed /\ UNCHANGED etc
  \/ Free /\ managed
     /\ file' \in {file, [file EXCEPT ![Etc!Config] = Link]}
     /\ UNCHANGED <<bak, managed, enabled, pc, arg, todo, backed, written,
                    here, nixos, prior, ran, failed, before, kept, intact>>
  \/ Killed

(* The firewall and all processes are gone, root's home stays. *)
Reboot ==
  /\ Halt
  /\ table' = None /\ due' = (managed \/ enabled)
  /\ step' = [a \in Actors |-> "idle"]
  /\ own' = [u \in Units |-> {}] /\ rev' = [u \in Units |-> 0]
  /\ online' = FALSE /\ alone' = [u \in Units |-> FALSE]
  /\ last' = IF intact' THEN last ELSE None
  /\ UNCHANGED <<home, net>>

Next ==
  \/ \E u \in Units : LoadConfig(u) \/ LoadFeed(u)
  \/ \E a \in Actors : Call(a) \/ Return(a) \/ Lost(a)
  \/ StartUnit \/ ApplyUnit \/ StopUnit \/ Decline \/ Work
  \/ Publish \/ Reboot

Spec == Init /\ [][Next]_vars

----------------------------------------------------------------------------
(* Properties.                                                             *)

TypeOK ==
  /\ table \in (Rulesets \ {NoPops}) \cup {None}
  /\ stray \in Strays
  /\ cache \in 0 .. Len(Feed)
  /\ net \in 1 .. Len(Feed) /\ due \in BOOLEAN
  /\ step \in [Actors -> Steps]
  /\ own \in [Units -> SUBSET Codes]
  /\ rev \in [Units -> 0 .. Len(Feed)]
  /\ online \in BOOLEAN /\ alone \in [Units -> BOOLEAN]
  /\ last \in Snaps \cup {None}
  /\ Etc!TypeOK

(* The boot unit that succeeds has installed the snapshot that was         *)
(* persisted last, its blocklist with its feed, whatever root's home and   *)
(* cache hold, whatever has been published since, and however many reboots *)
(* ago that was; after a disable it installs nothing.  Only an             *)
(* EnablePersist or DisablePersist that ran meanwhile, or was killed,      *)
(* excuses it.                                                             *)
UnitInstallsSnapshot ==
  [][~managed /\ alone["unit"] /\ step["unit"] = "call"
       /\ step'["unit"] = "applied" =>
       /\ last # None
       /\ \A c \in Codes :
            LET relays == IF c \in DOMAIN Feed[last.rev] THEN Feed[last.rev][c]
                          ELSE NoRelays
            IN IF c \in last.desired /\ relays # NoRelays
               THEN table' # None /\ c \in DOMAIN table' /\ table'[c] = relays
               ELSE table' # None => c \notin DOMAIN table']_vars

(* The timer gets a Persisted that replaces a snapshot, and nobody else    *)
(* persisted or disabled since it loaded its config. *)
Refreshes ==
  /\ alone["timer"] /\ step["timer"] = "etc" /\ step'["timer"] = "idle"
  /\ pc = "persisted" /\ last # None /\ last' # None

(* The timer's refresh keeps the blocklist of the snapshot it replaces,    *)
(* as long as no applier was killed since that one and root has no config  *)
(* of its own.                                                             *)
RefreshKeepsBlocklist ==
  [][Refreshes /\ stray = None => last'.desired = last.desired]_vars

(* And it never goes back to an older feed if the network is up.           *)
RefreshMovesForward ==
  [][Refreshes /\ online => last'.rev >= last.rev]_vars

----------------------------------------------------------------------------
(* What the repository's texts say and the code does not always do.        *)

(* module.nix: the unit is "Ordered after the network so a plain online    *)
(* apply resolves the current feed".                                       *)
NixosBootsCurrent ==
  [][managed /\ step["unit"] = "feed" /\ step'["unit"] = "call" =>
       rev'["unit"] = net]_vars
=============================================================================
