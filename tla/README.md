# A TLA+ model of regionlock

regionlock blocks the relay servers ("POPs") of Valve's matchmaking network with an nftables table.  An unprivileged command line edits a *desired* blocklist, builds a ruleset from it and a cached feed, compares it with a journal, and asks a small root helper, `regionlock-apply`, to install it.  A boot snapshot under `/etc/regionlock` brings the rules back after a reboot.

This directory holds TLA+ modules of that system, TLC instances that check them, and proofs checked by TLAPS.  Paths below are relative to the repository.

## The system

| Part | State it keeps | Operations | Hard behaviours |
|---|---|---|---|
| `regionlock-apply`, firewall (`regionlock-apply/src/main.rs`) | nft table `inet regionlock`, `applied.json`, `.pending`, `.pending-delete` in `/run/regionlock`, a flock | ReplaceRuleset, DeleteTable, Inspect | killed between any two calls, any call failing, nft as a child that outlives it, another program flushing the firewall, reboots |
| `regionlock-apply`, boot snapshot (same file) | `config.toml`, `feed-*.json`, their `.bak`, the unit's enable state | EnablePersist, DisablePersist | kills, a rollback whose calls fail, a recovery that decides file by file |
| Desired state, presets, selectors (`regionlock-core/src/state.rs`, `regions.rs`) | blocklist in `config.toml`, presets | block, unblock, allow, reset, preset save/load/rm | a feed that changes under the blocklist |
| Plan and diff (`plan.rs`) | none | build, diff | POPs without relays, stale journals |
| Command flow (`regionlock/src/commands.rs`) | what one process has loaded | load config, load feed, save, plan, confirm, escalate | a prompt that waits while config, cache, journal and table change |
| Feed cache (`feed.rs`) | raw feeds by revision | fetch, store, newest | concurrent stores, stale reads, a newest file that cannot be parsed |
| Config file (`config.rs`) | one TOML file per user, one in `/etc/regionlock` | load, replace, path resolution | concurrent edits, a file that shadows another |
| Escalation (`escalate.rs`, `child_io.rs`) | backends still to try | run the applier through pkexec, sudo, doas, run0 | an applier that dies without a reply is run again |
| Probing (`ping.rs`, `cmd_ping`) | two channels, a mutex, up to 8 threads | probe, receive, estimate | termination by dropped senders, a caller that leaves, a `ping` that hangs |
| Boot and refresh units, NixOS module (`packaging/`, `nix/`) | the unit's state, root's feed cache | apply at boot, teardown at stop, daily refresh | a unit that reads `/etc/regionlock` while an applier changes it, reboots in between |
| Grammar, output, games, operation schema | none | parsing, formatting, admission | none |

Commands call `regionlock-apply` through an escalation backend, over stdin and stdout.  They share `config.toml` and the feed cache without a lock, and read the journal and `/etc/regionlock` without the lock that appliers take.  Appliers share the table, the journal files and the snapshot under one flock.

What makes each part correct, in words: a reply of the applier is true when it is given; whatever was killed, the files still tell which table is live; a rollback restores; the last snapshot is never lost; the plan shown is the change made; what was confirmed is what is installed; "nothing to do" can be trusted; a boot installs what was persisted last; a refresh changes no blocklist; every command, operation and probe ends.

## Modules

| Module | Models | Correspondence |
|---|---|---|
| `Firewall` | abstract promise of the firewall operations | install, remove and report as atomic operations on one table, and a ledger that can be trusted until it is lost; every exception is an alternative of its own and names the hazard it needs |
| `Applier` | firewall operations of `regionlock-apply` | one action per system call whose effect outlives the process; `pc[p]` is the next call of applier `p`.  A ruleset is one value, the `pops` map, since that is all reconciliation compares; `TableOf` is what nft lists after installing it |
| `Snapshot` | abstract promise of the persist operations | one stored snapshot and one unit that whole operations replace or remove; only a rollback that failed or a dead applier may leave the store torn; `hidden` are the snapshots that another owner's feed comes before at boot |
| `Persist` | EnablePersist, DisablePersist, and what the boot unit would find | `file` and `bak` map a snapshot name to the snapshot that wrote it, or to `Foreign` or `Link` for entries the applier does not trust; loops over directory entries take any order; `todo`, `backed`, `written` are the loops' vectors |
| `Plan` | pure operators: selectors, edits, build, diff | a feed is a function from codes to relay lists; a ruleset the restriction to blocked codes |
| `Session` | one user's commands in sequence over a changing feed | one action per command, built from `Plan` |
| `Cli` | several commands at once | `step[c]` is the next step of command `c`; the appliers are `INSTANCE Applier WITH Procs <- Users`, and each applier action happens under the command that runs it |
| `Boot` | boot unit, refresh timer, persist commands, reboots | `step[a]` is the next step of process `a`; the applier is `INSTANCE Persist`, with pairs of blocklist and feed revision as its snapshots; the firewall is one table, as `Firewall` promises |
| `Answers` | abstract promise of probing: one answer per POP, then the end | the specification `Ping` implements |
| `Ping` | `ping::probe`, `cmd_ping`, `run_pings` | both channels, the mutex, the set of live senders; one action per lock, receive, probe, send, drop |
| `MCApplier`, `MCPersist`, `MCSession`, `MCCli`, `MCPing`, `MCBoot` | instances | values of constants only |
| `ApplierProofs`, `FirewallProofs`, `PersistProofs`, `PlanProofs`, `SessionProofs`, `CliProofs`, `PingProofs`, `BootProofs` | theorems | see Proofs |

Three refinements are stated, each with its mapping at the end of the detailed module.

- `Ping` implements `Answers`: the targets that are not printed yet are what is left.
- `Applier` implements `Firewall`: `PhaseOf` maps a system call to how far its operation has come, `Traces` are the records of a dead applier, the nft processes that outlive one are what may come late, and `Sure`, `Dirty`, `Half`, `Want`, `Saw`, `Told` are what a client could know.  `Firewall` loses its ledger where the code does: `Lose`, when an operation other than a report starts over the traces of a dead one, and when a report meets the record of an install whose listing is not equal to it; `Overlook`, when nft is missing; `Late` and `Flush`, when somebody else changes the table; and an install whose feeding failed although nft took it.
- `Persist` implements `Snapshot`.  Between its backups and its commit an operation's store is the one it found (`Stored`, `UnitOn`), so that an EnablePersist commits in one step, the call of systemctl, and a rollback that works changes nothing.  `Content` calls a directory torn when it holds entries of the applier but no whole snapshot.  `hidden` is mapped to the snapshots that are `Shadowed`: `load_newest_in` passes over links but asks for no owner, so another owner's feed of a higher revision is what the unit loads.  Operations can only take such a feed away, by writing or removing over it (`Expose`).

Mutated forms of an action (`MarkNothing`, `CallRebuilds`, ...) stand before the action they replace.  They belong to no specification; each is a plausible mistake that makes one property fail, and shows that the property says something about the code.

### Environment

What may go wrong is a constant, `Hazards`, of `Applier`, `Persist`, `Cli` and `Boot`; each run names the hazards it allows, so that a property that needs a restriction says which.  The kinds are explained at `HazardKinds`.  Some are worth a word:

- `kill` is possible before every call.  `orphan` lets the nft child of a killed applier commit later: nothing in the code ties the child to its parent.
- `absent` is an applier without nft, or without systemctl, on its PATH.  `is_missing_table` matches the text of the spawn error, and detection takes a systemctl that cannot be started for a missing unit, so the model takes those branches, as the code does.
- `misread` is a systemctl that runs and fails in words that `is_missing_unit` takes for those of a missing unit, as it does without a bus for a moment.  Detection then finds nobody managing the unit, and a later call may work, on the unit of the NixOS module too; a disable that fails so is ignored, and the unit stays enabled.
- `feed` is an error of the thread that writes nft's stdin although nft succeeded.
- `reboot` empties `/run` and the firewall together; in `Boot` a reboot is always possible, and cuts an operation off where `kill` is allowed.
- `offline` (`Boot`) lets a fetch fail.

Entries that the applier does not trust are no hazard but a constant, `Strange`, of `Persist`: the untrusted contents of `/etc/regionlock` that there may be at first.  A regular file of another owner (`Foreign`) is passed over by the applier and read by the boot unit; a symbolic link (`Link`) is passed over by the applier and, among feeds, by the unit as well.  In `Boot` nobody else has files there but NixOS, whose `config.toml` is a link.

A failing write or rename leaves the target as it was, because every write goes to a temporary name first.  Power cuts that undo a rename are not modelled.

`tainted` in `Applier` records that the files may no longer tell the table.  Only these events set it: an operation writes over leftovers of a killed one, a table is changed by someone else (an orphan or a flush), nft is missing or its success is reported as an error while there is a table, and Inspect misreads a record whose listing differs from it (`Misread`).  An operation that leaves a whole ledger clears it, and so does a reboot.

## Runs

Passing runs; every run but the one of `Ping` checks deadlock, and `Ping` really stops.

| Run | Properties | What it shows |
|---|---|---|
| `applier_kill` | `Reconciled`, `AppliedMeansLive`, `DeletedMeansGone`, `RefusedPutsBack`, `Implements` | kills at every step, reboots, nft and writes failing: the system calls implement `Firewall`, an Inspect that reports has reconciled, replies are true, a refused delete undid itself |
| `applier_chaos` | `TypeOK`, `OwnRecord`, `Recoverable`, `Implements` | all hazards at once: mutual exclusion, each operation finds its own records, the files determine the table until one of the events above, and nothing happens that `Firewall` has no name for |
| `persist_faults` | `TypeOK`, `RefusedRestores`, `PersistedBoots`, `UnpersistedGone`, `NothingLost`, `EnabledBoots`, `OperationEnds`, `ReplacesWhole` | all hazards at once, among links and files of other owners: kills, a systemctl that is missing or misread and any failing call, those of the rollback included; the calls implement `Snapshot` |
| `session_feeds` | `TypeOK`, `PlanIsTheChange`, `AllowIsExclusive`, `EditsStayBlockable` | edits over all feeds of three POPs and a region, any journal against any feed |
| `cli_race` | `TypeOK`, `ConfirmedInstalled`, `FeedNotBehind`, `NothingMeansLive` | two users edit, confirm, tear down and verify while a feed moves, appliers are killed and the firewall is flushed |
| `cli_live` | `ConfirmedInstalled`, `CommandEnds` | fair lock, two backends, appliers that keep dying and are run again |
| `ping_live` | `TypeOK`, `QuitStops`, `NeverStuck`, `KeepsPromise`, `ThreadsEnd` | refinement of `Answers`, a lock that is always given back, one ping that may never exit, no thread left behind |
| `boot_units` | `TypeOK`, `UnitInstallsSnapshot`, `RefreshKeepsBlocklist`, `RefreshMovesForward` | boot unit, timer, user and reboots at any step of each other, with kills and without a network |

Properties that could not hold of every history say what they need.  `Recoverable`, `Reconciled` and `RefusedPutsBack` hold while not `tainted`; `AppliedMeansLive` and `DeletedMeansGone` hold regardless.  `PersistedBoots` and `EnabledBoots` hold but for a newer feed of another owner (`Shadowed`), of which `PersistedBoots` says that it was there before the operation.  `EnabledBoots` holds while nothing went wrong that nobody undid (`intact`): after a kill, or a rollback that failed itself, it holds again from the next Persisted that left no backup over, or the next Unpersisted that left no unit on.  `NothingMeansLive` holds while `sound`: after a kill or a flush only from the next clean verify on.  The properties of `Boot` are about processes that are `alone`: no EnablePersist or DisablePersist of somebody else ran since the process read its config, and none had been cut off.

Runs that end in a violation show where a text of the repository and the code part; PROJECT.json quotes the text for each.

| Run | The code does | Text |
|---|---|---|
| `applier_leftover` | a replace that is killed before nft has overwritten the pending record of a killed one that nft committed; Inspect drops it and reports a live table without a journal | "Inspect reconciles leftovers from crashes" |
| `applier_absent` | teardown without nft reports a live table as gone and forgets the journal | "False when there was no table to delete" |
| `persist_dropped` | a run killed between its two writes leaves a new config beside the backup of the old; recovery drops the backup although no feed was ever written | "the prior run got past the writes" |
| `boot_nixos` | the NixOS unit installs the feed root cached at an earlier boot | "a plain online apply resolves the current feed" |

Smaller divergences were met while modelling and are described, with their lines, among the hazards of PROJECT.json, without a run of their own: an orphaned nft commits under another applier's lock; an applied empty blocklist verifies as drift; an unsorted or empty pending record is dropped although nft committed it; recovery brings a stale feed back; an untrusted `config.toml` is overwritten; a POP without relays cannot be unblocked by name; apply compares with the journal only; the next backend runs the applier again; `--apply` prints `staged: false` and may then abort (`regionlock/src/commands.rs:907`); an unparsable newest feed hides the older ones; without systemctl, or with one whose failure reads as that of a missing unit, DisablePersist replies Unpersisted with the unit enabled; such a failure during detection lets an EnablePersist or DisablePersist change the unit of NixOS, which a comment rules out (`regionlock-apply/src/main.rs:393`); a newer feed of another owner is what boots although Persisted was replied; the refresh unit does not re-apply; the timer survives disable-persist and persists an empty blocklist.

### Bounds

- `Applier`: two appliers; two rulesets, a third one that nft lists back as the first because its addresses are not sorted, and the empty one.  The lock admits one applier at a time, so a second one is all it takes to meet leftovers; the rulesets tell the table, the journal and a leftover apart.  No counters: the runs are exhaustive for these constants.  Appliers are symmetric in `applier_kill`, which checks no liveness; rulesets are not, as the listing tells them apart.
- `Persist`: three snapshots of two feed revisions: a new snapshot can keep, raise or lower the revision, and a third one can be left over.  One applier, because of the flock.  At first (`Cluttered`) others have nothing there, or a file or a link at the feed of the higher revision, which could come before an applier's, with a `config.toml` and a `.bak` of the other kind or the same.
- `Session`: three POPs, one unknown to the region table, each absent, without relays, or with one of two relay lists.
- `Cli`: two commands at a time, started again and again; two POPs; a feed of two revisions in which relays move and vanish; a boot snapshot for `--offline`; one backend in `cli_race`, where a killed applier ends its command, and two in `cli_live`, where it is run again.  What nft lists is the ruleset itself (`Listed` is the identity): unsorted addresses are left to `Applier`.  Four commands in `cli_race` (a block that is applied at once, a reset that is only staged, a teardown that asks, a verify), so that the desired blocklist grows, empties and loses its relays under a waiting prompt; in `cli_live` the block, an offline apply and a teardown.  The latter has no symmetry because it checks liveness.
- `Ping`: two threads for up to four POPs, so that threads share the queue and each runs more than once; the `ping` of one POP may hang.
- `Boot`: one POP and two revisions, the second of which moves its relays; root's home has no config or an empty one.  `KilledOnce` bounds kills: the next one comes only after a Persisted or an Unpersisted that made up for the last, since `intact` stays false in between and no property speaks of that time; `persist_faults` has no such bound.  Call failures inside the applier are left to `persist_faults`.  The unit's apply always installs: at boot there is no journal, so "nothing to do" is said only of an empty ruleset, which leaves no table either way.  What a user persists is any blocklist with any published feed, so the user's own home is not followed.

### Fairness

- `Persist`: an operation that was admitted runs on, since every call returns; systemctl is assumed to exit.  No fairness for starting an operation, and none for hazards.  `Applier` states none: its handlers have no loop, and what can keep a command from ending, the lock, is in `Cli`.
- `Cli`: users answer, processes run; the start of an applier is strongly fair, since flock queues its waiters while others take the lock in between.  Denials and kills are never forced.
- `Ping`: threads that can run do; a `ping` exits by itself because of `-W`, except those in `hung`, fewer than there are threads.  The caller never has to leave.
- `Boot` states none: units and timers may never run.

## Proofs

TLAPS checks these for all values of the constants that satisfy the named assumptions, any number of appliers, users, rulesets, snapshots, revisions, POPs, regions and threads.  The assumptions are `ConstantsAssumption` (`Applier`, `Persist`, `Ping`), `PlanAssumption` and `NoneAssumption`, `CommandsAssumption` (`Session`), `CliAssumption`, `HazardsAssumption` (`Cli`) and `BootAssumption`; TLC evaluates each of them in a run.  A theorem that needs some hazards to be absent has that as a hypothesis of its own: `Undisturbed`, `Reconciles`, `Erases`, `PutsBack` (`ApplierProofs`), no `misread` (`NixOwnsUnitHolds`) or `Quiet` (`CliProofs`).  The two refinements of the applier need none.

`ApplierProofs` is a ladder of invariants, each of which contains the one before:

- `OwnInv`: types, and that a process outside the lock is idle.  A step of `p` then leaves the others' parts alone (`OwnOthers`).  Gives `TypeCorrect` and `OwnRecordHolds`, under every hazard.
- `RecoverInv`: `Recoverable` alone is not inductive, since before a commit one must know that the table already is `TableOf(arg[p])`.  It therefore adds how far the table has come at each step of an operation, and what the files say when it met no leftovers.  Gives `RecoverableHolds`, without any restriction: whatever ends what the files can tell is in `tainted`.
- `SteadyInv`: what an install has achieved, tainted or not.  Gives `AppliedMeansLiveHolds`, if nobody else changes the table (`Undisturbed`: no flush, no orphan).
- `ReportInv`: what an inspect has cleared away at each of its steps.  Gives `ReconciledHolds`, if renames and unlinks work (`Reconciles`).
- `GoneInv`: what a delete has removed at each of its steps, over `OwnInv` alone, tainted or not.  Gives `DeletedMeansGoneHolds`, if unlinks work, nft is there and none is left running (`Erases`).
- `BackInv`: only a delete that renamed a journal is refused with it.  Gives `RefusedPutsBackHolds`, if renames work (`PutsBack`).

`FirewallProofs` shows `ImplementsHolds` under every set of hazards.  `ClearInv` adds to `RecoverInv` what an inspect has cleared when no call failed (`Cleared`); under it each system call is a step of `Firewall` or leaves its variables alone.  That no hazard is excluded is the point: whatever fails, a client sees one of the behaviours that `Firewall` lists.

`PersistProofs` is a ladder as well: `TypeInv` (with the shape of the loops' vectors), `UnitInv` (what detection found is true unless it was misread), `PlacedInv` (what an operation has placed or has left to remove, giving `UnpersistedGoneHolds`), `CopiesInv` (a `.bak` is the run's own), `Found` (no feed of another owner is there that the operation did not find, giving `PersistedBootsHolds`), `KeptInv` (`NothingLostHolds`), `FaithfulInv` (each entry is as before, or is where the rollback will find it: `RefusedRestoresHolds`), `SoundInv` (`EnabledBootsHolds`), `StoreInv` (what a rollback or a removal that stops half-way can leave behind, giving `ReplacesWholeHolds`: the calls implement `Snapshot`, whose `hidden` no step but a write or a removal over a foreign feed changes).  No hazard and no untrusted entry is excluded but in `NixOwnsUnitHolds`, that the unit of the NixOS module is never enabled or disabled: it is so without `misread`, and the code breaks it with it.

`PlanProofs` has the lemmas about `Build`, `Diff` and `Max` that other proofs share.  `SessionProofs`: the type invariant; that the diff is the change (`PlanIsTheChangeHolds`); that `allow` is exclusive; that edits stage only blockable POPs.  The last two are action properties over the type invariant.

`CliProofs` does not prove anything about appliers again: `SpecIsAppliers` shows that a step of `Cli` is one of `Applier` or leaves it alone, so its invariants are inherited through `INSTANCE FirewallProofs`, and with them the promise of `Firewall` to the commands (`CommandsKeepPromise`).  On top come what a command has loaded (`FeedNotBehindHolds`), what binds its applier to the ruleset it showed (`ConfirmedInstalledHolds`, under every hazard that `Cli` has), and what each step of an applier leaves in the journal when it started from a clean one (`NothingMeansLiveHolds`, under `Quiet`: the hazards of `cli_race`, and failing writes and nft calls).

`PingProofs`: types, with when a thread has a target; `QuitStopsHolds`; `NeverStuckHolds`, from the invariant that the mutex is held exactly by the thread in recv and that the channel is closed before there is a thread; and `AnswersOnce`, the safety of `KeepsPromise`: every step of the pool is a step of `Answers` or none.  It rests on an account of where each target is, in the queue, at one thread, in the result channel, or printed, and that no two of these are the same.

`BootProofs` inherits from `PersistProofs` in the same way: `/etc/regionlock` changes as `Persist` says (`EtcStep`), but for the link that the NixOS activation puts back.  Where NixOS does not own the unit there is no such link, and the snapshot is kept as `Snapshot` promises (`SnapshotKeepsPromise`).  `Turns` says that the applier works for one process at a time, and that a process that is alone found `/etc/regionlock` at rest and whole.  `Ledger` says that while `intact` it then holds the last persisted snapshot and nothing else, or did when the operation started that can still be refused; `SoundInv` carries it through a refusal.  `Published` bounds every revision by what is served.  `UnitKnows` and `TimerKnows` say what a process that is alone still has of what it read, and give `UnitInstallsSnapshotHolds`, `RefreshKeepsBlocklistHolds` and `RefreshMovesForwardHolds`.

Only model-checked: all liveness (`OperationEnds`, `CommandEnds`, `ThreadsEnd`, and the liveness half of `KeepsPromise`), which under fairness is out of the prover's reach.  What can be proved of it is that nothing goes round for ever, as a measure that each step of an operation lowers while the steps of others leave it alone:

- `OperationNears` of `ApplierProofs`: `Togo`, the calls before the reply, four at most.
- `OperationNears` of `PersistProofs`: the step, and within a loop the number of entries not yet visited.  It rests on there being finitely many trusted entries, since each process writes two (`Finite`).  This is what a rollback that retried a failed removal would break.
- `CommandNears` of `CliProofs`: the stage of the command (an edit fetches its feed twice, to save and to plan), then the backends left, then the applier's own `Togo`.  A command whose appliers keep dying comes nearer to giving up with each of them.

What fairness adds, and TLC checks, is that the steps are taken, the one that waits for the lock among them.

## Not modelled

- The nft script and its parsing back: `TableOf` stands for their effect, including the empty ruleset and sorted addresses.
- Admission checks on sizes and characters, path and directory checks before the lock, umask and modes.
- Formatting, the command grammar, JSON layout, the game registry (every module is about one game, so `game --set` has nothing to choose from).
- Commands that only read and print: `plan`, `list`, `generate`, `status` without `--verify`, `apply --dry-run`.
- TOML syntax and a config file that cannot be parsed (the command fails with nothing changed), `$REGIONLOCK_CONFIG`.
- What a user's own config and cache were when they persisted: `Boot` lets it be anything.
- fsync and power cuts: the order in which a file system makes renames durable.
- pkttyagent, the search of the PATH for backends and the applier.

## Plan

Done, in this order: `Applier` and its first proofs, `Persist`, `Ping` with `Answers`, `Plan` with `Session` and proofs, `Cli`; then `Firewall` and the refinement, `Boot`, and the safety proofs of every module; then `Snapshot` and its refinement, both refinements under every hazard, and the measures of progress.

Open:

1. Users' own homes in `Boot`, so that what is persisted can be traced to an edit and a confirmation in `Cli`.
2. Power cuts: a file system that may lose unsynced writes, for `/etc/regionlock` and the feed cache.
3. Several games side by side.
