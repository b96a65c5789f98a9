------------------------------ MODULE Applier ------------------------------
(***************************************************************************)
(* The firewall operations of regionlock-apply, the only privileged        *)
(* component: ReplaceRuleset, DeleteTable and Inspect, the two-phase       *)
(* journal they keep under /run/regionlock, and the nft processes they     *)
(* run.  One action is one system call whose effect another process, or a  *)
(* later run after a kill, can see.                                        *)
(*                                                                         *)
(* A ruleset is a member of Specs: the `pops` map of the operation, the    *)
(* only field reconciliation and verification ever compare.  Empty is the  *)
(* map with no POP.  None is an absent file or an absent nft table.        *)
(***************************************************************************)
CONSTANTS Procs,    \* appliers that may run at the same time
          Specs,    \* rulesets a ReplaceRuleset may carry
          Empty,    \* the ruleset without POPs (it may be in Specs or not)
          Listed,   \* Listed[s]: s as nft lists it back, addresses sorted
          None,     \* absence
          Hazards   \* what the environment may do in this instance

(* write, rename, unlink: the file system call returns an error.  nft,     *)
(* list: nft exits with an error and leaves the table alone.  feed: nft    *)
(* commits but the thread writing to its stdin reports an error.  absent:  *)
(* there is no nft on the PATH of this applier.  kill: an applier dies.    *)
(* orphan: the nft child of a killed applier runs on.  flush: another      *)
(* program flushes the firewall.  reboot: /run is a tmpfs, so files and    *)
(* table go together.                                                      *)
HazardKinds == {"write", "rename", "unlink", "nft", "list", "feed",
                "absent", "kill", "orphan", "flush", "reboot"}

ASSUME ConstantsAssumption ==
  /\ None \notin Specs \cup Procs
  /\ None # Empty
  /\ Listed \in [Specs \ {Empty} -> Specs \ {Empty}]
  /\ \A s \in Specs \ {Empty} : Listed[Listed[s]] = Listed[s]
  /\ Hazards \subseteq HazardKinds

VARIABLES
  live,     \* table inet regionlock, as `nft -j list` reports it
  pending,  \* applied.json.pending
  marker,   \* applied.json.pending-delete
  journal,  \* applied.json
  lock,     \* the applier that holds the flock
  pc,       \* pc[p]: the next step of applier p, "idle" outside the lock
  arg,      \* arg[p]: the ruleset p was asked to install
  seen,     \* seen[p]: the table p listed at the start of Inspect
  had,      \* had[p]: p renamed a journal to the marker
  orphans,  \* tables that nft processes without a parent may still install
  tainted   \* history: the files may no longer tell the table, see Tells

files  == <<pending, marker, journal>>
locals == <<arg, seen, had>>
vars   == <<live, pending, marker, journal, lock, pc, arg, seen, had,
            orphans, tainted>>

Files  == Specs \cup {None}
Tables == (Specs \ {Empty}) \cup {None}

ReplaceSteps == {"pend", "nftf", "unpend", "commit"}
DeleteSteps  == {"mark", "nftd", "restore", "unmark", "clean"}
InspectSteps == {"list", "reconcile", "resolve", "forget"}
Replies      == {"applied", "deleted", "report", "refused"}
Steps == ReplaceSteps \cup DeleteSteps \cup InspectSteps \cup Replies

Init ==
  /\ live = None
  /\ pending = None /\ marker = None /\ journal = None
  /\ lock = None
  /\ pc = [p \in Procs |-> "idle"]
  /\ arg = [p \in Procs |-> None]
  /\ seen = [p \in Procs |-> None]
  /\ had = [p \in Procs |-> FALSE]
  /\ orphans = {}
  /\ tainted = FALSE

----------------------------------------------------------------------------
(* What the steps share.                                                   *)

(* Mutated form of TableOf: an empty spec still leaves its table. *)
TableOfKeepsEmpty(s) == IF s \in {Empty, None} THEN s ELSE Listed[s]

(* What `nft -j list` reports once nft accepted the rendered ruleset of s: *)
(* an empty spec renders only the declare and delete pair, and the listing *)
(* of any other one comes back sorted.                                     *)
TableOf(s) == IF s \in {Empty, None} THEN None ELSE Listed[s]

Leftover == pending # None \/ marker # None

Can(hazard) == hazard \in Hazards

Goto(p, step) == pc' = [pc EXCEPT ![p] = step]

(* Mutated form of LockFree: a shared lock admits everyone. *)
LockShared == TRUE

(* flock(LOCK_EX) returns. *)
LockFree == lock = None

(* An applier enters with an admitted operation.  It waits for the lock as *)
(* an idle process: nothing it read before depends on the state here.      *)
Begin(p) ==
  /\ pc[p] = "idle"
  /\ LockFree
  /\ lock' = p
  /\ \/ /\ \E s \in Specs : arg' = [arg EXCEPT ![p] = s]
        /\ Goto(p, "pend")
     \/ /\ \E first \in {"mark", "list"} : Goto(p, first)
        /\ UNCHANGED arg
  /\ UNCHANGED <<live, files, seen, had, orphans, tainted>>

(* The process is gone and the kernel drops its lock. *)
Vanish(p) ==
  /\ pc' = [pc EXCEPT ![p] = "idle"]
  /\ lock' = IF lock = p THEN None ELSE lock
  /\ arg' = [arg EXCEPT ![p] = None]
  /\ seen' = [seen EXCEPT ![p] = None]
  /\ had' = [had EXCEPT ![p] = FALSE]

(* run() returns: the lock drops, the reply is printed. *)
Exit(p) ==
  /\ pc[p] \in Replies
  /\ Vanish(p)
  /\ UNCHANGED <<live, files, orphans, tainted>>

----------------------------------------------------------------------------
(* ReplaceRuleset.                                                         *)

(* Phase 1, the pending record: written to a temporary name and renamed,   *)
(* so it is there whole or not at all.                                     *)
WritePending(p) ==
  /\ pc[p] = "pend"
  /\ \/ /\ pending' = arg[p]
        /\ tainted' = (tainted \/ Leftover)
        /\ Goto(p, "nftf")
     \/ /\ Can("write")
        /\ Goto(p, "refused")
        /\ UNCHANGED <<pending, tainted>>
  /\ UNCHANGED <<live, marker, journal, lock, locals, orphans>>

(* Phase 2, `nft -f -`: one kernel transaction, all of it or none. *)
NftReplace(p) ==
  /\ pc[p] = "nftf"
  /\ \/ /\ live' = TableOf(arg[p])
        /\ \/ Goto(p, "commit") /\ UNCHANGED tainted
           \/ Can("feed") /\ Goto(p, "unpend") /\ tainted' = TRUE
     \/ /\ Can("nft") \/ Can("absent")
        /\ Goto(p, "unpend")
        /\ UNCHANGED <<live, tainted>>
  /\ UNCHANGED <<files, lock, locals, orphans>>

(* nft failed: the pending record goes, whether or not that works. *)
RemovePending(p) ==
  /\ pc[p] = "unpend"
  /\ \/ pending' = None
     \/ Can("unlink") /\ UNCHANGED pending
  /\ Goto(p, "refused")
  /\ UNCHANGED <<live, marker, journal, lock, locals, orphans, tainted>>

(* Mutated form of Commit: the pending record is copied, not renamed. *)
CommitByCopy(p) ==
  /\ pc[p] = "commit"
  /\ journal' = pending
  /\ Goto(p, "applied")
  /\ tainted' = (tainted /\ ~(marker = None /\ live = TableOf(pending)))
  /\ UNCHANGED <<live, pending, marker, lock, locals, orphans>>

(* Phase 3, the rename that commits. *)
Commit(p) ==
  /\ pc[p] = "commit"
  /\ \/ /\ pending # None
        /\ journal' = pending
        /\ pending' = None
        /\ tainted' = (tainted /\ ~(marker = None /\ live = TableOf(pending)))
        /\ Goto(p, "applied")
     \/ /\ pending = None \/ Can("rename")
        /\ Goto(p, "refused")
        /\ UNCHANGED <<pending, journal, tainted>>
  /\ UNCHANGED <<live, marker, lock, locals, orphans>>

Replace(p) ==
  WritePending(p) \/ NftReplace(p) \/ RemovePending(p) \/ Commit(p)

----------------------------------------------------------------------------
(* DeleteTable.                                                            *)

(* Mutated form of Mark: the journal is not marked before nft runs. *)
MarkNothing(p) ==
  /\ pc[p] = "mark"
  /\ Goto(p, "nftd")
  /\ UNCHANGED <<live, files, lock, locals, orphans, tainted>>

(* The journal, if there is one, becomes the delete marker. *)
Mark(p) ==
  /\ pc[p] = "mark"
  /\ \/ /\ journal # None
        /\ marker' = journal
        /\ journal' = None
        /\ had' = [had EXCEPT ![p] = TRUE]
        /\ tainted' = (tainted \/ Leftover)
        /\ Goto(p, "nftd")
     \/ /\ journal = None
        /\ tainted' = (tainted \/ Leftover)
        /\ Goto(p, "nftd")
        /\ UNCHANGED <<marker, journal, had>>
     \/ /\ Can("rename")
        /\ Goto(p, "refused")
        /\ UNCHANGED <<marker, journal, had, tainted>>
  /\ UNCHANGED <<live, pending, lock, arg, seen, orphans>>

(* `nft delete table`; a missing table counts as done.  is_missing_table   *)
(* goes by "no such file or directory", and so takes a missing nft for a   *)
(* missing table. *)
NftDelete(p) ==
  /\ pc[p] = "nftd"
  /\ \/ live' = None /\ Goto(p, "unmark") /\ UNCHANGED tainted
     \/ /\ Can("absent")
        /\ Goto(p, "unmark")
        /\ tainted' = (tainted \/ live # None)
        /\ UNCHANGED live
     \/ Can("nft") /\ Goto(p, "restore") /\ UNCHANGED <<live, tainted>>
  /\ UNCHANGED <<files, lock, locals, orphans>>

(* Mutated form of Restore: the marker stays behind. *)
RestoreNothing(p) ==
  /\ pc[p] = "restore"
  /\ Goto(p, "refused")
  /\ UNCHANGED <<live, files, lock, locals, orphans, tainted>>

(* nft failed: a journal this delete renamed is renamed back. *)
Restore(p) ==
  /\ pc[p] = "restore"
  /\ \/ /\ had[p] /\ marker # None
        /\ journal' = marker
        /\ marker' = None
     \/ /\ ~had[p] \/ marker = None \/ Can("rename")
        /\ UNCHANGED <<marker, journal>>
  /\ Goto(p, "refused")
  /\ UNCHANGED <<live, pending, lock, locals, orphans, tainted>>

Unmark(p) ==
  /\ pc[p] = "unmark"
  /\ \/ marker' = None
     \/ Can("unlink") /\ UNCHANGED marker
  /\ Goto(p, "clean")
  /\ UNCHANGED <<live, pending, journal, lock, locals, orphans, tainted>>

(* Mutated form of Clean: the pending record of a killed replace stays. *)
CleanNothing(p) ==
  /\ pc[p] = "clean"
  /\ Goto(p, "deleted")
  /\ UNCHANGED <<live, files, lock, locals, orphans, tainted>>

(* Nothing is left: no table, and no leftover that says there is one. *)
Clean(p) ==
  /\ pc[p] = "clean"
  /\ \/ /\ pending' = None
        /\ tainted' = (tainted /\ {marker, journal, live} # {None})
     \/ Can("unlink") /\ UNCHANGED <<pending, tainted>>
  /\ Goto(p, "deleted")
  /\ UNCHANGED <<live, marker, journal, lock, locals, orphans>>

Delete(p) ==
  Mark(p) \/ NftDelete(p) \/ Restore(p) \/ Unmark(p) \/ Clean(p)

----------------------------------------------------------------------------
(* Inspect.                                                                *)

(* A missing nft is taken for a missing table here as well. *)
List(p) ==
  /\ pc[p] = "list"
  /\ \/ /\ seen' = [seen EXCEPT ![p] = live]
        /\ Goto(p, "reconcile")
        /\ UNCHANGED tainted
     \/ /\ Can("absent")
        /\ seen' = [seen EXCEPT ![p] = None]
        /\ tainted' = (tainted \/ live # None)
        /\ Goto(p, "reconcile")
     \/ Can("list") /\ Goto(p, "refused") /\ UNCHANGED <<seen, tainted>>
  /\ UNCHANGED <<live, files, lock, arg, had, orphans>>

(* Mutated form of PendingMatches: any pending record is taken for live. *)
PendingAlwaysMatches(p) == pending # None

(* Some(&pending.pops) == live *)
PendingMatches(p) == pending # None /\ pending = seen[p]

(* The pending record made the live table, but is not equal to its listing: *)
(* it is empty, and there is no table, or its addresses are not sorted.     *)
Misread == pending # None /\ live = TableOf(pending) /\ live # TableOf(journal)

(* A replace died: commit its record if nft had committed, else drop it. *)
Reconcile(p) ==
  /\ pc[p] = "reconcile"
  /\ \/ /\ PendingMatches(p)
        /\ journal' = pending
        /\ pending' = None
        /\ Goto(p, "resolve")
        /\ UNCHANGED tainted
     \/ /\ PendingMatches(p)
        /\ Can("rename")
        /\ Goto(p, "refused")
        /\ UNCHANGED <<pending, journal, tainted>>
     \/ /\ ~PendingMatches(p)
        /\ pending' = None \/ (Can("unlink") /\ UNCHANGED pending)
        /\ tainted' = (tainted \/ Misread)
        /\ Goto(p, "resolve")
        /\ UNCHANGED journal
  /\ UNCHANGED <<live, marker, lock, locals, orphans>>

(* Mutated form of Resolve: a delete that died is always finished. *)
ResolveForgets(p) ==
  /\ pc[p] = "resolve"
  /\ marker' = None
  /\ Goto(p, IF marker = None THEN "report" ELSE "forget")
  /\ UNCHANGED <<live, pending, journal, lock, locals, orphans, tainted>>

(* A delete died: finish it if the table is gone, else undo it. *)
Resolve(p) ==
  /\ pc[p] = "resolve"
  /\ \/ /\ marker = None
        /\ Goto(p, "report")
        /\ UNCHANGED <<marker, journal>>
     \/ /\ marker # None /\ seen[p] = None
        /\ marker' = None \/ (Can("unlink") /\ UNCHANGED marker)
        /\ Goto(p, "forget")
        /\ UNCHANGED journal
     \/ /\ marker # None /\ seen[p] # None
        /\ \/ journal' = marker /\ marker' = None
           \/ Can("rename") /\ UNCHANGED <<marker, journal>>
        /\ Goto(p, "report")
  /\ UNCHANGED <<live, pending, lock, locals, orphans, tainted>>

Forget(p) ==
  /\ pc[p] = "forget"
  /\ \/ journal' = None
     \/ Can("unlink") /\ UNCHANGED journal
  /\ Goto(p, "report")
  /\ UNCHANGED <<live, pending, marker, lock, locals, orphans, tainted>>

(* Mutated form of InSync: without a table there is nothing to compare. *)
InSyncWithoutTable(p) == seen[p] \in {None, journal}

(* The verdict of `status --verify` on the reply of an Inspect: equal      *)
(* maps, or no table and no journal.                                       *)
InSync(p) == seen[p] = journal

Inspect(p) == List(p) \/ Reconcile(p) \/ Resolve(p) \/ Forget(p)

----------------------------------------------------------------------------
(* The environment.                                                        *)

(* SIGKILL, or the terminal going away.  nft is a process of its own: its  *)
(* transaction may still be on the way when the lock is already free.      *)
Kill(p) ==
  /\ Can("kill")
  /\ pc[p] # "idle"
  /\ Vanish(p)
  /\ \/ UNCHANGED orphans
     \/ /\ Can("orphan")
        /\ \/ pc[p] = "nftf" /\ orphans' = orphans \cup {TableOf(arg[p])}
           \/ pc[p] = "nftd" /\ orphans' = orphans \cup {None}
  /\ UNCHANGED <<live, files, tainted>>

(* An orphaned nft commits, or dies. *)
Orphan ==
  \E t \in orphans :
    /\ orphans' = orphans \ {t}
    /\ live' \in {live, t}
    /\ tainted' = (tainted \/ live' # live)
    /\ UNCHANGED <<files, lock, pc, locals>>

Flush ==
  /\ Can("flush")
  /\ live' = None
  /\ tainted' = (tainted \/ live # None)
  /\ UNCHANGED <<files, lock, pc, locals, orphans>>

Reboot ==
  /\ Can("reboot")
  /\ live' = None
  /\ pending' = None /\ marker' = None /\ journal' = None
  /\ lock' = None
  /\ pc' = [p \in Procs |-> "idle"]
  /\ arg' = [p \in Procs |-> None]
  /\ seen' = [p \in Procs |-> None]
  /\ had' = [p \in Procs |-> FALSE]
  /\ orphans' = {}
  /\ tainted' = FALSE

Operate(p) == Replace(p) \/ Delete(p) \/ Inspect(p) \/ Exit(p)

Next ==
  \/ \E p \in Procs : Begin(p) \/ Operate(p) \/ Kill(p)
  \/ Orphan \/ Flush \/ Reboot

Spec == Init /\ [][Next]_vars

----------------------------------------------------------------------------
(* Properties.                                                             *)

(* Values and steps are the ones above; in particular nft never holds an   *)
(* empty table, because an empty spec is rendered without one.             *)
TypeOK ==
  /\ live \in Tables
  /\ pending \in Files /\ marker \in Files /\ journal \in Files
  /\ lock \in Procs \cup {None}
  /\ pc \in [Procs -> Steps \cup {"idle"}]
  /\ arg \in [Procs -> Files]
  /\ seen \in [Procs -> Tables]
  /\ had \in [Procs -> BOOLEAN]
  /\ orphans \in SUBSET Tables
  /\ tainted \in BOOLEAN

(* Whatever fails, dies or is flushed, a replace renames and removes only  *)
(* the pending record it wrote itself, and a delete that took the journal  *)
(* away still has it in the marker to restore: nobody else got in between. *)
OwnRecord ==
  \A p \in Procs :
    /\ pc[p] # "idle" => lock = p
    /\ pc[p] \in {"nftf", "unpend", "commit"} => pending = arg[p]
    /\ pc[p] \in {"nftd", "restore"} /\ had[p] =>
         journal = None /\ marker # None

(* A delete that nft refused has undone itself: the journal it took away   *)
(* is back, names the table that is still live, and nothing is left over.  *)
(* This needs renames that work, and a start without leftovers.            *)
RefusedPutsBack ==
  \A p \in Procs :
    pc[p] = "refused" /\ had[p] /\ ~tainted =>
      /\ journal # None /\ live = TableOf(journal)
      /\ pending = None /\ marker = None

(* The rules by which Inspect tells the live ruleset from the files. *)
Tells ==
  \/ /\ marker = None
     /\ \/ live = TableOf(journal)
        \/ pending # None /\ live = TableOf(pending)
  \/ /\ marker # None /\ journal = None /\ pending = None
     /\ live \in {None, TableOf(marker)}

(* Whenever an applier is killed, and whichever calls fail, the files left *)
(* under /run/regionlock still determine which ruleset is live.  Only      *)
(* these events end that, until an operation makes it true again: an       *)
(* operation over leftovers of a killed one, a table that someone else     *)
(* changes, nft missing or its success reported as an error while there is *)
(* a table, and a Misread record.                                          *)
Recoverable == ~tainted => Tells

(* An Inspect that reports has reconciled the leftovers of every kill: the *)
(* table is still the one it listed, and the journal it reports is that of *)
(* the table, empty and unsorted rulesets included.                        *)
Reconciled ==
  \A p \in Procs :
    pc[p] = "report" /\ ~tainted =>
      /\ pending = None /\ marker = None
      /\ seen[p] = live
      /\ live = TableOf(journal)

(* An Applied reply is true when it is given, leftovers or not: the table  *)
(* and the journal are the ruleset asked for.                              *)
AppliedMeansLive ==
  \A p \in Procs :
    pc[p] = "applied" =>
      /\ live = TableOf(arg[p])
      /\ journal = arg[p]
      /\ pending = None

(* A Deleted reply is true when it is given, leftovers or not: no table,   *)
(* no journal, and nothing that a later Inspect could turn into one.       *)
DeletedMeansGone ==
  \A p \in Procs :
    pc[p] = "deleted" =>
      live = None /\ journal = None /\ pending = None /\ marker = None

----------------------------------------------------------------------------
(* The promise.  Between the two renames of its own operation an applier's *)
(* records are not traces of a dead one.                                   *)
Inside == {"nftf", "unpend", "commit", "nftd", "restore", "unmark", "clean"}
Traces == Leftover /\ \A p \in Procs : pc[p] \notin Inside

PhaseOf(step) ==
  CASE step \in {"pend", "nftf"}                     -> "install"
    [] step = "commit"                               -> "installed"
    [] step \in {"mark", "nftd"}                     -> "remove"
    [] step \in {"unmark", "clean"}                  -> "removed"
    [] step \in {"unpend", "restore"}                -> "refusing"
    [] step = "list"                                 -> "observe"
    [] step \in {"reconcile", "resolve", "forget"}   -> "observed"
    [] OTHER                                         -> step

Wants == {"pend", "nftf", "unpend", "commit", "applied"}
Looks == {"reconcile", "resolve", "forget", "report"}

Sure  == ~tainted
Dirty == tainted \/ Traces
Half  == IF Traces /\ ~tainted THEN pending ELSE None
Phase == [p \in Procs |-> PhaseOf(pc[p])]
Want  == [p \in Procs |-> IF pc[p] \in Wants THEN arg[p] ELSE None]
Saw   == [p \in Procs |-> IF pc[p] \in Looks THEN seen[p] ELSE None]
Told  == [p \in Procs |-> IF pc[p] = "report" THEN journal ELSE None]
Shown == [s \in Files |-> TableOf(s)]

Promise == INSTANCE Firewall WITH
  Clients <- Procs, Rulesets <- Specs, Shown <- Shown,
  table <- live, sure <- Sure, dirty <- Dirty, half <- Half, late <- orphans,
  phase <- Phase, want <- Want, saw <- Saw, told <- Told

(* The applier's system calls, with kills between any two of them, are the *)
(* atomic operations of Firewall: an operation takes effect once or not at *)
(* all, a reply says which, and a report is right while the files can be   *)
(* trusted, but for the exceptions that Firewall names, with their hazard. *)
Implements == Promise!Spec

----------------------------------------------------------------------------
(* What the repository's texts say and the code does not always do.        *)

(* main.rs: "Inspect reconciles leftovers from crashes", here without the  *)
(* proviso of Reconciled that nobody wrote over leftovers.                 *)
InspectReconciles ==
  \A p \in Procs : pc[p] = "report" => live = TableOf(journal)

(* ops.rs: a DeleteTable is to "Delete `table inet regionlock` and the     *)
(* journal", and its reply says "False when there was no table to delete". *)
DeletedMeansNoTable == \A p \in Procs : pc[p] = "deleted" => live = None
=============================================================================
