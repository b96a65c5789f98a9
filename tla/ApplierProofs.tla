--------------------------- MODULE ApplierProofs ---------------------------
(* The safety of Applier for every set of appliers and of rulesets.        *)
EXTENDS Applier, Naturals, TLAPS

(* nft never lists an empty table, whatever the record it was built from.  *)
LEMMA TableOfType == ASSUME NEW s \in Files PROVE TableOf(s) \in Tables
BY ConstantsAssumption DEF Files, Tables, TableOf

(* A process that leaves keeps the types. *)
LEMMA VanishType ==
  ASSUME TypeOK, NEW p \in Procs, Vanish(p)
  PROVE  /\ pc' \in [Procs -> Steps \cup {"idle"}]
         /\ lock' \in Procs \cup {None}
         /\ arg' \in [Procs -> Files]
         /\ seen' \in [Procs -> Tables]
         /\ had' \in [Procs -> BOOLEAN]
BY DEF TypeOK, Vanish, Files, Tables

LEMMA TypeReplace ==
  ASSUME TypeOK, NEW p \in Procs, Replace(p)
  PROVE  TypeOK'
<1>1. TableOf(arg[p]) \in Tables
  BY TableOfType DEF TypeOK
<1>2. CASE WritePending(p)
  <2>1. tainted' \in BOOLEAN
    BY <1>2, Zenon DEF TypeOK, WritePending
  <2> QED
    BY <1>2, <2>1 DEF TypeOK, WritePending, Goto, locals, Steps,
                      ReplaceSteps, Replies
<1>3. CASE NftReplace(p)
  BY <1>1, <1>3 DEF TypeOK, NftReplace, Goto, Can, files, locals,
              Steps, ReplaceSteps
<1>4. CASE RemovePending(p)
  BY <1>4 DEF TypeOK, RemovePending, Goto, Can, locals, Steps, Replies, Files
<1>5. CASE Commit(p)
  BY <1>5 DEF TypeOK, Commit, Goto, Can, locals, Steps, Replies, Files
<1> QED BY <1>2, <1>3, <1>4, <1>5 DEF Replace

LEMMA TypeDelete ==
  ASSUME TypeOK, NEW p \in Procs, Delete(p)
  PROVE  TypeOK'
<1>1. CASE Mark(p)
  BY <1>1 DEF TypeOK, Mark, Goto, Leftover, Can, Steps, DeleteSteps, Replies,
              Files
<1>2. CASE NftDelete(p)
  BY <1>2 DEF TypeOK, NftDelete, Goto, Can, files, locals, Steps,
              DeleteSteps, Tables
<1>3. CASE Restore(p)
  BY <1>3 DEF TypeOK, Restore, Goto, Can, locals, Steps, Replies, Files
<1>4. CASE Unmark(p)
  BY <1>4 DEF TypeOK, Unmark, Goto, Can, locals, Steps, DeleteSteps, Files
<1>5. CASE Clean(p)
  BY <1>5 DEF TypeOK, Clean, Goto, Can, locals, Steps, Replies, Files
<1> QED BY <1>1, <1>2, <1>3, <1>4, <1>5 DEF Delete

LEMMA TypeInspect ==
  ASSUME TypeOK, NEW p \in Procs, Inspect(p)
  PROVE  TypeOK'
<1>1. CASE List(p)
  <2>1. seen' \in [Procs -> Tables]
    BY <1>1 DEF TypeOK, List, Tables
  <2> QED
    BY <1>1, <2>1 DEF TypeOK, List, Goto, Can, files, Steps, InspectSteps,
                      Replies
<1>2. CASE Reconcile(p)
  BY <1>2 DEF TypeOK, Reconcile, Goto, Can, locals, Steps, InspectSteps,
              Replies, Files
<1>3. CASE Resolve(p)
  BY <1>3 DEF TypeOK, Resolve, Goto, Can, locals, Steps, InspectSteps,
              Replies, Files
<1>4. CASE Forget(p)
  BY <1>4 DEF TypeOK, Forget, Goto, Can, locals, Steps, Replies, Files
<1> QED BY <1>1, <1>2, <1>3, <1>4 DEF Inspect

LEMMA TypeEnvironment ==
  ASSUME TypeOK, Orphan \/ Flush \/ Reboot \/ \E p \in Procs : Kill(p)
  PROVE  TypeOK'
<1>1. CASE Orphan
  BY <1>1 DEF TypeOK, Orphan, files, locals
<1>2. CASE Flush
  BY <1>2 DEF TypeOK, Flush, files, locals, Tables
<1>3. CASE Reboot
  BY <1>3 DEF TypeOK, Reboot, Files, Tables
<1>4. ASSUME NEW p \in Procs, Kill(p) PROVE TypeOK'
  <2>1. TableOf(arg[p]) \in Tables /\ None \in Tables
    BY TableOfType DEF TypeOK, Tables
  <2>2. orphans' \in SUBSET Tables
    BY <1>4, <2>1 DEF TypeOK, Kill
  <2> QED BY <1>4, <2>2, VanishType DEF TypeOK, Kill, files
<1> QED BY <1>1, <1>2, <1>3, <1>4

LEMMA TypeStep == ASSUME TypeOK, [Next]_vars PROVE TypeOK'
<1>1. ASSUME NEW p \in Procs, Begin(p) PROVE TypeOK'
  BY <1>1 DEF TypeOK, Begin, Goto, files, Files, Steps, ReplaceSteps,
              DeleteSteps, InspectSteps
<1>2. ASSUME NEW p \in Procs, Exit(p) PROVE TypeOK'
  BY <1>2, VanishType DEF TypeOK, Exit, files
<1>3. CASE UNCHANGED vars
  BY <1>3 DEF TypeOK, vars
<1> QED
  BY <1>1, <1>2, <1>3, TypeReplace, TypeDelete, TypeInspect,
     TypeEnvironment DEF Next, Operate

(* Every reachable value has its type: nft never holds an empty table, and *)
(* no step is reached that no operation has.                               *)
THEOREM TypeCorrect == Spec => []TypeOK
<1>1. Init => TypeOK
  BY DEF Init, TypeOK, Files, Tables
<1>2. TypeOK /\ [Next]_vars => TypeOK'
  BY TypeStep
<1> QED BY <1>1, <1>2, PTL DEF Spec

----------------------------------------------------------------------------
(* What makes OwnRecord inductive, for one applier: it is inside exactly   *)
(* when it holds the lock, a replace has a ruleset to install, and a       *)
(* delete that passed its first step has no journal.                       *)
Own(p) ==
  /\ pc[p] # "idle" <=> lock = p
  /\ pc[p] \in ReplaceSteps \cup {"applied"} => arg[p] # None
  /\ pc[p] \in {"nftf", "unpend", "commit"} => pending = arg[p]
  /\ pc[p] \in DeleteSteps \ {"mark"} => journal = None
  /\ pc[p] \in {"nftd", "restore"} /\ had[p] => marker # None
  /\ had[p] => pc[p] \in (DeleteSteps \ {"mark"}) \cup {"deleted", "refused"}

OwnInv == TypeOK /\ \A p \in Procs : Own(p)

(* A step of the applier that holds the lock only concerns that applier.   *)
LEMMA OwnOthers ==
  ASSUME OwnInv, NEW p \in Procs, pc[p] # "idle",
         NEW step, Goto(p, step), UNCHANGED lock, Own(p)',
         \A q \in Procs \ {p} : had'[q] = had[q]
  PROVE  \A q \in Procs : Own(q)'
<1> SUFFICES ASSUME NEW q \in Procs, q # p PROVE Own(q)'
  OBVIOUS
<1>1. pc'[q] = "idle" /\ lock' # q /\ ~had'[q]
  BY DEF OwnInv, TypeOK, Own, Goto, DeleteSteps
<1> QED BY <1>1 DEF Own, ReplaceSteps, DeleteSteps

LEMMA OwnReplace ==
  ASSUME OwnInv, NEW p \in Procs, Replace(p)
  PROVE  \A q \in Procs : Own(q)'
<1> USE DEF OwnInv, TypeOK, Own, ReplaceSteps, DeleteSteps, Goto, locals
<1>1. CASE WritePending(p)
  BY <1>1, OwnOthers DEF WritePending
<1>2. CASE NftReplace(p)
  BY <1>2, OwnOthers DEF NftReplace, files
<1>3. CASE RemovePending(p)
  BY <1>3, OwnOthers DEF RemovePending
<1>4. CASE Commit(p)
  BY <1>4, OwnOthers DEF Commit
<1> QED BY <1>1, <1>2, <1>3, <1>4 DEF Replace

LEMMA OwnDelete ==
  ASSUME OwnInv, NEW p \in Procs, Delete(p)
  PROVE  \A q \in Procs : Own(q)'
<1> USE DEF OwnInv, TypeOK, Own, ReplaceSteps, DeleteSteps, Goto, locals
<1>1. CASE Mark(p)
  BY <1>1, OwnOthers DEF Mark
<1>2. CASE NftDelete(p)
  BY <1>2, OwnOthers DEF NftDelete, files
<1>3. CASE Restore(p)
  BY <1>3, OwnOthers DEF Restore
<1>4. CASE Unmark(p)
  BY <1>4, OwnOthers DEF Unmark
<1>5. CASE Clean(p)
  BY <1>5, OwnOthers DEF Clean
<1> QED BY <1>1, <1>2, <1>3, <1>4, <1>5 DEF Delete

LEMMA OwnInspect ==
  ASSUME OwnInv, NEW p \in Procs, Inspect(p)
  PROVE  \A q \in Procs : Own(q)'
<1> USE DEF OwnInv, TypeOK, Own, ReplaceSteps, DeleteSteps, Goto, locals
<1>1. CASE List(p)
  BY <1>1, OwnOthers DEF List, files
<1>2. CASE Reconcile(p)
  BY <1>2, OwnOthers DEF Reconcile
<1>3. CASE Resolve(p)
  BY <1>3, OwnOthers DEF Resolve
<1>4. CASE Forget(p)
  BY <1>4, OwnOthers DEF Forget
<1> QED BY <1>1, <1>2, <1>3, <1>4 DEF Inspect

LEMMA OwnVanish ==
  ASSUME OwnInv, NEW p \in Procs, pc[p] # "idle", Vanish(p), UNCHANGED files
  PROVE  \A q \in Procs : Own(q)'
<1> SUFFICES ASSUME NEW q \in Procs PROVE Own(q)'
  OBVIOUS
<1>1. lock = p /\ lock' = None /\ None \notin Procs
  BY ConstantsAssumption DEF OwnInv, Own, Vanish
<1>2. pc'[q] = "idle" /\ ~had'[q]
  BY <1>1 DEF OwnInv, TypeOK, Own, Vanish, DeleteSteps
<1> QED BY <1>1, <1>2 DEF Own, ReplaceSteps, DeleteSteps

LEMMA OwnStep == ASSUME OwnInv, [Next]_vars PROVE OwnInv'
<1> SUFFICES \A q \in Procs : Own(q)'
  BY TypeStep DEF OwnInv
<1>1. ASSUME NEW p \in Procs, Begin(p) PROVE \A q \in Procs : Own(q)'
  <2> SUFFICES ASSUME NEW q \in Procs PROVE Own(q)'
    OBVIOUS
  <2>1. /\ pc[q] = "idle" /\ (q # p => pc'[q] = "idle")
        /\ lock' = p /\ ~had'[q]
    BY <1>1, ConstantsAssumption DEF Begin, LockFree, OwnInv, TypeOK, Own,
       DeleteSteps,
                                     Goto
  <2>2. CASE q # p
    BY <2>1, <2>2 DEF Own, ReplaceSteps, DeleteSteps
  <2>3. CASE q = p /\ pc'[p] = "pend"
    BY <1>1, <2>1, <2>3, ConstantsAssumption
       DEF Begin, Own, OwnInv, TypeOK, Goto, DeleteSteps
  <2>4. CASE q = p /\ pc'[p] \in {"mark", "list"}
    BY <2>1, <2>4 DEF Own, ReplaceSteps, DeleteSteps
  <2>5. pc'[p] \in {"pend", "mark", "list"}
    BY <1>1 DEF Begin, Goto, OwnInv, TypeOK
  <2> QED BY <2>2, <2>3, <2>4, <2>5
<1>2. ASSUME NEW p \in Procs, Exit(p) PROVE \A q \in Procs : Own(q)'
  BY <1>2, OwnVanish DEF Exit, Replies, files
<1>3. ASSUME NEW p \in Procs, Kill(p) PROVE \A q \in Procs : Own(q)'
  BY <1>3, OwnVanish DEF Kill
<1>4. CASE Orphan \/ Flush
  BY <1>4 DEF Orphan, Flush, OwnInv, Own, files, locals
<1>5. CASE Reboot
  BY <1>5, ConstantsAssumption DEF Reboot, Own, ReplaceSteps, DeleteSteps
<1>6. CASE UNCHANGED vars
  BY <1>6 DEF vars, OwnInv, Own
<1> QED
  BY <1>1, <1>2, <1>3, <1>4, <1>5, <1>6, OwnReplace, OwnDelete, OwnInspect
     DEF Next, Operate

LEMMA OwnInitially == Init => OwnInv
BY ConstantsAssumption
   DEF Init, OwnInv, TypeOK, Own, Files, Tables, ReplaceSteps, DeleteSteps

(* Whatever the environment does, an applier renames and removes only the  *)
(* record it wrote or marked itself.                                       *)
THEOREM OwnRecordHolds == Spec => []OwnRecord
<1>1. OwnInv => OwnRecord
  BY DEF OwnInv, Own, OwnRecord, DeleteSteps
<1>2. OwnInv /\ [Next]_vars => OwnInv'
  BY OwnStep
<1> QED BY OwnInitially, <1>1, <1>2, PTL DEF Spec

----------------------------------------------------------------------------
(* What makes Recoverable inductive: how far the table has come at each    *)
(* step of an operation, and what the files say meanwhile, as long as the  *)
(* history is not tainted.                                                 *)
Progress(p) ==
  /\ pc[p] \in {"nftf", "unpend"} => marker = None /\ live = TableOf(journal)
  /\ pc[p] = "commit" => marker = None /\ live = TableOf(arg[p])
  /\ pc[p] \in DeleteSteps \ {"mark"} => pending = None
  /\ pc[p] \in {"nftd", "restore"} =>
       live = TableOf(marker) /\ (~had[p] => marker = None)
  /\ pc[p] \in {"unmark", "clean"} => live = None
  /\ pc[p] \in {"reconcile", "resolve", "forget"} => seen[p] = live
  /\ pc[p] = "forget" => journal = None /\ live = None

(* Tables are as nft lists them, those an orphan may still install too. *)
Sorted(t) == TableOf(t) = t

RecoverInv ==
  /\ OwnInv
  /\ Sorted(live) /\ \A t \in orphans : Sorted(t)
  /\ Recoverable
  /\ ~tainted => \A p \in Procs : Progress(p)

LEMMA TableOfSorted == ASSUME NEW s \in Files PROVE Sorted(TableOf(s))
BY ConstantsAssumption DEF Files, TableOf, Sorted

(* A step of the applier that is inside only concerns that applier.        *)
LEMMA ProgressOthers ==
  ASSUME OwnInv, NEW p \in Procs, pc[p] # "idle", NEW step, Goto(p, step),
         ~tainted' => Progress(p)'
  PROVE  ~tainted' => \A q \in Procs : Progress(q)'
<1> SUFFICES ASSUME NEW q \in Procs, q # p PROVE Progress(q)'
  OBVIOUS
<1>1. pc'[q] = "idle"
  BY DEF OwnInv, TypeOK, Own, Goto
<1> QED BY <1>1 DEF Progress, DeleteSteps

(* The part of the invariant that a step has to keep.                      *)
Kept == /\ Sorted(live)
        /\ \A t \in orphans : Sorted(t)
        /\ Recoverable
        /\ ~tainted => \A p \in Procs : Progress(p)

LEMMA RecoverReplace ==
  ASSUME RecoverInv, NEW p \in Procs, Replace(p)
  PROVE  Kept'
<1> USE DEF RecoverInv, OwnInv, TypeOK, Own, Recoverable, Tells, Progress,
            ReplaceSteps, DeleteSteps, Goto, locals, Leftover, Kept
<1>1. CASE WritePending(p)
  <2>1. CASE pending' = arg[p] /\ Goto(p, "nftf")
             /\ tainted' = (tainted \/ Leftover)
    <3>1. ~tainted' => ~tainted /\ pending = None /\ marker = None
      BY <2>1, Zenon
    <3>2. Recoverable' /\ (~tainted' => Progress(p)')
      BY <1>1, <2>1, <3>1 DEF WritePending
    <3> QED
      BY <1>1, <2>1, <3>2, ProgressOthers DEF WritePending, Sorted, TableOf
  <2>2. CASE Goto(p, "refused") /\ UNCHANGED <<pending, tainted>>
    BY <1>1, <2>2, ProgressOthers DEF WritePending, Sorted, TableOf
  <2> QED BY <1>1, <2>1, <2>2 DEF WritePending
<1>2. CASE NftReplace(p)
  <2>1. Sorted(TableOf(arg[p]))
    BY TableOfSorted
  <2>2. Sorted(live') /\ \A t \in orphans' : Sorted(t)
    BY <1>2, <2>1 DEF NftReplace, files
  <2>3. Recoverable' /\ (~tainted' => Progress(p)')
    BY <1>2 DEF NftReplace, files
  <2> QED
    BY <1>2, <2>2, <2>3, ProgressOthers DEF NftReplace, files, Sorted, TableOf
<1>3. CASE RemovePending(p)
  BY <1>3, ProgressOthers DEF RemovePending, Sorted, TableOf
<1>4. CASE Commit(p)
  <2>1. ~tainted' => /\ marker = None
                     /\ pc'[p] = "applied" => live = TableOf(pending)
    BY <1>4, SMT DEF Commit
  <2>2. Recoverable' /\ (~tainted' => Progress(p)')
    BY <1>4, <2>1 DEF Commit
  <2> QED BY <1>4, <2>2, ProgressOthers DEF Commit, Sorted, TableOf
<1> QED BY <1>1, <1>2, <1>3, <1>4 DEF Replace

LEMMA RecoverDelete ==
  ASSUME RecoverInv, NEW p \in Procs, Delete(p)
  PROVE  Kept'
<1> USE DEF RecoverInv, OwnInv, TypeOK, Own, Recoverable, Tells, Progress,
            ReplaceSteps, DeleteSteps, Goto, locals, Leftover, Kept
<1>1. CASE Mark(p)
  <2>1. CASE /\ Goto(p, "nftd") /\ tainted' = (tainted \/ Leftover)
             /\ journal' = None
             /\ \/ /\ journal # None /\ marker' = journal
                   /\ had' = [had EXCEPT ![p] = TRUE]
                \/ journal = None /\ UNCHANGED <<marker, had>>
    <3>1. ~tainted' => ~tainted /\ pending = None /\ marker = None
      BY <2>1, Zenon
    <3>2. Recoverable' /\ (~tainted' => Progress(p)')
      BY <1>1, <2>1, <3>1 DEF Mark, TableOf
    <3> QED BY <1>1, <2>1, <3>2, ProgressOthers DEF Mark, Sorted, TableOf
  <2>2. CASE Goto(p, "refused") /\ UNCHANGED <<marker, journal, had, tainted>>
    BY <1>1, <2>2, ProgressOthers DEF Mark, Sorted, TableOf
  <2> QED BY <1>1, <2>1, <2>2 DEF Mark
<1>2. CASE NftDelete(p)
  <2>1. ASSUME tainted' = (tainted \/ live # None), ~tainted'
        PROVE  ~tainted /\ live = None
    BY <2>1, Zenon
  <2>2. Sorted(live') /\ \A t \in orphans' : Sorted(t)
    BY <1>2 DEF NftDelete, Sorted, TableOf
  <2>3. ~tainted' => ~tainted /\ (pc'[p] = "unmark" => live' = None)
    <3>1. CASE tainted' = (tainted \/ live # None) /\ UNCHANGED live
      BY <2>1, <3>1, Zenon
    <3>2. CASE UNCHANGED tainted /\ (live' = None \/ Goto(p, "restore"))
      BY <3>2
    <3> QED BY <1>2, <3>1, <3>2, Zenon DEF NftDelete
  <2>4. live' \in {live, None} /\ (pc'[p] = "restore" => live' = live)
        /\ pc'[p] \in {"unmark", "restore"}
    BY <1>2 DEF NftDelete
  <2>5. UNCHANGED <<files, locals>> /\ pc[p] = "nftd"
    BY <1>2 DEF NftDelete
  <2>6. Recoverable' /\ (~tainted' => Progress(p)')
    <3> SUFFICES ASSUME ~tainted' PROVE Tells' /\ Progress(p)'
      OBVIOUS
    <3>1. /\ ~tainted /\ live = TableOf(marker)
          /\ journal = None /\ pending = None
      BY <2>3, <2>5
    <3>2. Tells'
      BY <2>4, <2>5, <3>1 DEF files, TableOf
    <3>3. Progress(p)'
      BY <2>3, <2>4, <2>5, <3>1 DEF files
    <3> QED BY <3>2, <3>3
  <2> QED BY <1>2, <2>2, <2>6, ProgressOthers DEF NftDelete
<1>3. CASE Restore(p)
  BY <1>3, ProgressOthers DEF Restore, Sorted, TableOf
<1>4. CASE Unmark(p)
  <2>1. Recoverable' /\ (~tainted' => Progress(p)')
    BY <1>4 DEF Unmark, TableOf
  <2> QED BY <1>4, <2>1, ProgressOthers DEF Unmark, Sorted, TableOf
<1>5. CASE Clean(p)
  <2>1. ~tainted' => live = None
    BY <1>5, SMT DEF Clean
  <2>2. Recoverable' /\ (~tainted' => Progress(p)')
    BY <1>5, <2>1 DEF Clean, TableOf
  <2> QED BY <1>5, <2>2, ProgressOthers DEF Clean, Sorted, TableOf
<1> QED BY <1>1, <1>2, <1>3, <1>4, <1>5 DEF Delete

LEMMA RecoverInspect ==
  ASSUME RecoverInv, NEW p \in Procs, Inspect(p)
  PROVE  Kept'
<1> USE DEF RecoverInv, OwnInv, TypeOK, Own, Recoverable, Tells, Progress,
            ReplaceSteps, DeleteSteps, Goto, locals, Kept
<1>1. CASE List(p)
  <2>1. ~tainted' => ~tainted /\ (pc'[p] = "reconcile" => seen'[p] = live)
    <3>1. CASE /\ tainted' = (tainted \/ live # None)
               /\ seen' = [seen EXCEPT ![p] = None]
      <4>1. ASSUME ~tainted' PROVE ~tainted /\ live = None
        BY <3>1, <4>1, Zenon
      <4>2. seen'[p] = None
        BY <3>1
      <4> QED BY <4>1, <4>2
    <3>2. CASE /\ UNCHANGED tainted
               /\ seen' = [seen EXCEPT ![p] = live] \/ Goto(p, "refused")
      BY <3>2
    <3> QED BY <1>1, <3>1, <3>2, Zenon DEF List
  <2>2. Recoverable' /\ (~tainted' => Progress(p)')
    <3>1. pc'[p] \in {"reconcile", "refused"}
      BY <1>1 DEF List
    <3> QED BY <1>1, <2>1, <3>1 DEF List, files
  <2> QED BY <1>1, <2>2, ProgressOthers DEF List, files, Sorted, TableOf
<1>2. CASE Reconcile(p)
  <2>1. ~tainted' => ~tainted /\ (PendingMatches(p) \/ ~Misread)
    <3>1. CASE tainted' = (tainted \/ Misread)
      BY <3>1, Zenon
    <3>2. CASE UNCHANGED tainted /\ PendingMatches(p)
      BY <3>2
    <3> QED BY <1>2, <3>1, <3>2, Zenon DEF Reconcile
  <2>2. \/ PendingMatches(p) /\ journal' = pending /\ pending' = None
        \/ /\ PendingMatches(p) /\ UNCHANGED <<pending, journal>>
           /\ pc'[p] = "refused"
        \/ /\ ~PendingMatches(p) /\ pending' \in {pending, None}
           /\ UNCHANGED journal
    BY <1>2, Zenon DEF Reconcile
  <2>3. Recoverable' /\ (~tainted' => Progress(p)')
    BY <1>2, <2>1, <2>2 DEF Reconcile, PendingMatches, Misread, Sorted
  <2> QED BY <1>2, <2>3, ProgressOthers DEF Reconcile, Sorted, TableOf
<1>3. CASE Resolve(p)
  <2>1. Recoverable' /\ (~tainted' => Progress(p)')
    BY <1>3 DEF Resolve, TableOf
  <2> QED BY <1>3, <2>1, ProgressOthers DEF Resolve, Sorted, TableOf
<1>4. CASE Forget(p)
  <2>1. Recoverable' /\ (~tainted' => Progress(p)')
    BY <1>4 DEF Forget, TableOf
  <2> QED BY <1>4, <2>1, ProgressOthers DEF Forget, Sorted, TableOf
<1> QED BY <1>1, <1>2, <1>3, <1>4 DEF Inspect

(* An applier that is gone has no progress to speak of.                    *)
LEMMA RecoverVanish ==
  ASSUME RecoverInv, NEW p \in Procs, pc[p] # "idle", Vanish(p),
         UNCHANGED <<live, files, tainted>>, \A t \in orphans' : Sorted(t)
  PROVE  Kept'
<1>1. \A q \in Procs : pc'[q] = "idle"
  BY DEF RecoverInv, OwnInv, TypeOK, Own, Vanish
<1>2. Recoverable' /\ Sorted(live)'
  BY DEF RecoverInv, Recoverable, Tells, files, Sorted, TableOf
<1>3. \A t \in orphans' : Sorted(t)'
  BY DEF Sorted, TableOf
<1>4. \A q \in Procs : Progress(q)'
  BY <1>1 DEF Progress, DeleteSteps
<1> QED BY <1>2, <1>3, <1>4 DEF Kept

LEMMA RecoverBegin ==
  ASSUME RecoverInv, NEW p \in Procs, Begin(p)
  PROVE  Kept'
<1>1. ASSUME NEW q \in Procs PROVE pc'[q] \in {"idle", "pend", "mark", "list"}
  BY ConstantsAssumption
     DEF RecoverInv, OwnInv, TypeOK, Own, Begin, LockFree, Goto
<1>2. \A q \in Procs : Progress(q)'
  BY <1>1 DEF Progress, DeleteSteps
<1>3. Recoverable' /\ Sorted(live)' /\ \A t \in orphans' : Sorted(t)'
  BY DEF RecoverInv, Recoverable, Tells, Begin, files, Sorted, TableOf
<1> QED BY <1>2, <1>3 DEF Kept

LEMMA RecoverEnvironment ==
  ASSUME RecoverInv, Orphan \/ Flush \/ Reboot \/ \E p \in Procs : Kill(p)
  PROVE  Kept'
<1>1. Sorted(None)
  BY DEF Sorted, TableOf
<1>2. CASE Orphan
  <2>1. PICK t \in orphans :
          /\ orphans' = orphans \ {t} /\ live' \in {live, t}
          /\ tainted' = (tainted \/ live' # live)
          /\ UNCHANGED <<files, lock, pc, locals>>
    BY <1>2 DEF Orphan
  <2>2. ~tainted' => ~tainted /\ live' = live
    BY <2>1, Zenon
  <2>3. Sorted(live)' /\ \A u \in orphans' : Sorted(u)'
    BY <2>1 DEF RecoverInv, Sorted, TableOf
  <2>4. ~tainted' => Recoverable' /\ \A p \in Procs : Progress(p)'
    BY <2>1, <2>2 DEF RecoverInv, Recoverable, Tells, Progress, files, locals,
                      TableOf
  <2> QED BY <2>3, <2>4 DEF Kept, Recoverable
<1>3. CASE Flush
  <2>1. ~tainted' => ~tainted /\ live' = live
    BY <1>3, Zenon DEF Flush
  <2>2. Sorted(live)' /\ \A u \in orphans' : Sorted(u)'
    BY <1>1, <1>3 DEF Flush, RecoverInv, Sorted, TableOf
  <2>3. ~tainted' => Recoverable' /\ \A p \in Procs : Progress(p)'
    BY <1>3, <2>1 DEF Flush, RecoverInv, Recoverable, Tells, Progress, files,
                      locals, TableOf
  <2> QED BY <2>2, <2>3 DEF Kept, Recoverable
<1>4. CASE Reboot
  BY <1>4 DEF Reboot, Kept, Recoverable, Tells, Progress, DeleteSteps, Sorted,
              TableOf
<1>5. ASSUME NEW p \in Procs, Kill(p) PROVE Kept'
  <2>1. Sorted(TableOf(arg[p]))
    BY TableOfSorted DEF RecoverInv, OwnInv, TypeOK
  <2>2. \A t \in orphans' : Sorted(t)
    BY <1>1, <1>5, <2>1 DEF Kill, RecoverInv
  <2> QED BY <1>5, <2>2, RecoverVanish DEF Kill
<1> QED BY <1>2, <1>3, <1>4, <1>5

LEMMA RecoverStep == ASSUME RecoverInv, [Next]_vars PROVE RecoverInv'
<1>1. ASSUME NEW p \in Procs, Exit(p) PROVE Kept'
  <2>1. \A t \in orphans' : Sorted(t)
    BY <1>1 DEF Exit, RecoverInv
  <2> QED BY <1>1, <2>1, RecoverVanish DEF Exit, Replies
<1>2. ASSUME UNCHANGED vars PROVE Kept'
  <2>1. Sorted(live)' /\ \A t \in orphans' : Sorted(t)'
    BY <1>2 DEF vars, RecoverInv, Sorted, TableOf
  <2>2. ~tainted' => Recoverable' /\ \A q \in Procs : Progress(q)'
    BY <1>2 DEF vars, RecoverInv, Recoverable, Tells, Progress, TableOf
  <2> QED BY <2>1, <2>2 DEF Kept, Recoverable
<1>3. ASSUME NEW p \in Procs, Begin(p) \/ Operate(p) PROVE Kept'
  BY <1>1, <1>3, RecoverReplace, RecoverDelete, RecoverInspect, RecoverBegin
     DEF Operate
<1>4. OwnInv'
  BY OwnStep DEF RecoverInv
<1>5. Kept'
  BY <1>2, <1>3, RecoverEnvironment DEF Next
<1> QED BY <1>4, <1>5 DEF RecoverInv, Kept

LEMMA RecoverInitially == Init => RecoverInv
<1> SUFFICES ASSUME Init PROVE RecoverInv
  OBVIOUS
<1>1. OwnInv
  BY OwnInitially
<1> QED
  BY <1>1 DEF Init, RecoverInv, Recoverable, Tells, Progress, DeleteSteps,
              Sorted, TableOf

LEMMA RecoverAlways == Spec => []RecoverInv
<1>1. RecoverInv /\ [Next]_vars => RecoverInv'
  BY RecoverStep
<1> QED BY RecoverInitially, <1>1, PTL DEF Spec

(* Whichever calls fail and whenever an applier is killed, the files and   *)
(* the table it leaves are told apart by the rules of Inspect.             *)
THEOREM RecoverableHolds == Spec => []Recoverable
<1>1. RecoverInv => Recoverable
  BY DEF RecoverInv
<1> QED BY RecoverAlways, <1>1, PTL

----------------------------------------------------------------------------
(* AppliedMeansLive needs a table that nobody changes behind the lock.     *)
Undisturbed == Hazards \cap {"flush", "orphan"} = {}

(* Where the table stands once nft has installed the ruleset of p.         *)
Steady(p) ==
  /\ pc[p] \in {"commit", "applied"} => live = TableOf(arg[p])
  /\ pc[p] = "applied" => journal = arg[p] /\ pending = None

SteadyInv == OwnInv /\ orphans = {} /\ \A p \in Procs : Steady(p)

(* Whoever is outside the lock is at no step.                              *)
LEMMA OthersIdle ==
  ASSUME OwnInv, NEW p \in Procs, pc[p] # "idle"
  PROVE  \A q \in Procs \ {p} : pc[q] = "idle"
BY DEF OwnInv, Own

LEMMA SteadyOthers ==
  ASSUME OwnInv, NEW p \in Procs, pc[p] # "idle", NEW step, Goto(p, step),
         Steady(p)'
  PROVE  \A q \in Procs : Steady(q)'
BY OthersIdle DEF OwnInv, TypeOK, Goto, Steady

LEMMA SteadyReplace ==
  ASSUME SteadyInv, NEW p \in Procs, Replace(p)
  PROVE  orphans' = {} /\ \A q \in Procs : Steady(q)'
<1> USE DEF SteadyInv, OwnInv, TypeOK, Own, Steady, Goto, locals
<1>1. CASE WritePending(p)
  BY <1>1, SteadyOthers DEF WritePending
<1>2. CASE NftReplace(p)
  BY <1>2, SteadyOthers DEF NftReplace, TableOf
<1>3. CASE RemovePending(p)
  BY <1>3, SteadyOthers DEF RemovePending
<1>4. CASE Commit(p)
  BY <1>4, SteadyOthers DEF Commit, TableOf
<1> QED BY <1>1, <1>2, <1>3, <1>4 DEF Replace

(* The steps of the other operations lead to no Applied reply.             *)
LEMMA SteadyElse ==
  ASSUME SteadyInv, NEW p \in Procs, Delete(p) \/ Inspect(p)
  PROVE  orphans' = {} /\ \A q \in Procs : Steady(q)'
<1>1. PICK step \in Steps \ {"commit", "applied"} : Goto(p, step)
  BY DEF Delete, Mark, NftDelete, Restore, Unmark, Clean, Inspect, List,
         Reconcile, Resolve, Forget, Steps, DeleteSteps, InspectSteps, Replies
<1>2. pc[p] # "idle" /\ orphans' = orphans
  BY DEF Delete, Mark, NftDelete, Restore, Unmark, Clean, Inspect, List,
         Reconcile, Resolve, Forget
<1>3. Steady(p)'
  BY <1>1 DEF Goto, Steady, SteadyInv, OwnInv, TypeOK
<1> QED BY <1>1, <1>2, <1>3, SteadyOthers DEF SteadyInv

LEMMA SteadyStep ==
  ASSUME Undisturbed, SteadyInv, [Next]_vars
  PROVE  SteadyInv'
<1> SUFFICES orphans' = {} /\ \A q \in Procs : Steady(q)'
  BY OwnStep DEF SteadyInv
<1>1. ASSUME NEW p \in Procs, Begin(p)
      PROVE  orphans' = {} /\ \A q \in Procs : Steady(q)'
  BY <1>1, ConstantsAssumption
     DEF Begin, LockFree, SteadyInv, OwnInv, TypeOK, Own, Goto, Steady
<1>2. ASSUME NEW p \in Procs, Exit(p) \/ Kill(p)
      PROVE  orphans' = {} /\ \A q \in Procs : Steady(q)'
  <2>1. pc[p] # "idle" /\ Vanish(p) /\ orphans' = orphans
    BY <1>2 DEF Exit, Kill, Replies, Undisturbed, Can
  <2>2. \A q \in Procs : pc'[q] = "idle"
    BY <2>1, OthersIdle DEF Vanish, SteadyInv, OwnInv, TypeOK
  <2> QED BY <2>1, <2>2 DEF SteadyInv, Steady
<1>3. CASE Orphan \/ Flush
  BY <1>3 DEF Orphan, Flush, Undisturbed, Can, SteadyInv
<1>4. CASE Reboot
  BY <1>4 DEF Reboot, Steady
<1>5. CASE UNCHANGED vars
  BY <1>5 DEF vars, SteadyInv, Steady, TableOf
<1> QED
  BY <1>1, <1>2, <1>3, <1>4, <1>5, SteadyReplace, SteadyElse DEF Next, Operate

LEMMA SteadyInitially == Init => SteadyInv
BY OwnInitially DEF Init, SteadyInv, Steady

(* An Applied reply is true when it is given, whatever a killed operation  *)
(* had left, if nothing else changes the table.                            *)
THEOREM AppliedMeansLiveHolds ==
  ASSUME Undisturbed PROVE Spec => []AppliedMeansLive
<1>1. SteadyInv => AppliedMeansLive
  BY DEF SteadyInv, Steady, AppliedMeansLive
<1>2. SteadyInv /\ [Next]_vars => SteadyInv'
  BY SteadyStep
<1> QED BY SteadyInitially, <1>1, <1>2, PTL DEF Spec

----------------------------------------------------------------------------
(* Each of the other replies relies on some of the calls.  What all three  *)
(* proofs use: only the applier that is inside moves, and whoever enters   *)
(* or leaves stands before its first step.                                 *)
LEMMA Alone ==
  ASSUME OwnInv, NEW p \in Procs, pc[p] # "idle", NEW step, Goto(p, step)
  PROVE  \A q \in Procs \ {p} : pc'[q] = "idle"
BY OthersIdle DEF OwnInv, TypeOK, Goto

LEMMA AtTheDoor ==
  ASSUME OwnInv, Reboot \/ \E p \in Procs : Begin(p) \/ Exit(p) \/ Kill(p)
  PROVE  \A q \in Procs : pc'[q] \in {"idle", "pend", "mark", "list"}
<1>1. ASSUME NEW p \in Procs, Begin(p)
      PROVE  \A q \in Procs : pc'[q] \in {"idle", "pend", "mark", "list"}
  BY <1>1, ConstantsAssumption DEF OwnInv, TypeOK, Own, Begin, LockFree, Goto
<1>2. ASSUME NEW p \in Procs, Exit(p) \/ Kill(p)
      PROVE  \A q \in Procs : pc'[q] = "idle"
  <2>1. pc[p] # "idle" /\ Vanish(p)
    BY <1>2 DEF Exit, Kill, Replies
  <2> QED BY <2>1, OthersIdle DEF Vanish, OwnInv, TypeOK
<1>3. CASE Reboot
  BY <1>3 DEF Reboot
<1> QED BY <1>1, <1>2, <1>3

----------------------------------------------------------------------------
(* Reconciled needs the renames and the unlinks that reconcile.            *)
Reconciles == Hazards \cap {"rename", "unlink"} = {}

(* What an inspect has cleared away at each of its steps.                  *)
Reported(p) ==
  /\ pc[p] \in {"resolve", "forget", "report"} => pending = None
  /\ pc[p] \in {"forget", "report"} => marker = None
  /\ pc[p] = "report" /\ ~tainted => seen[p] = live

ReportInv == RecoverInv /\ \A p \in Procs : Reported(p)

LEMMA ReportInspect ==
  ASSUME Reconciles, ReportInv, NEW p \in Procs, Inspect(p)
  PROVE  Reported(p)'
<1> USE DEF ReportInv, RecoverInv, OwnInv, TypeOK, Reported, Goto, locals,
            files
<1>1. CASE List(p)
  BY <1>1 DEF List
<1>2. CASE Reconcile(p)
  BY <1>2 DEF Reconcile, Reconciles, Can
<1>3. CASE Resolve(p)
  BY <1>3 DEF Resolve, Reconciles, Can, Progress
<1>4. CASE Forget(p)
  BY <1>4 DEF Forget, Reconciles, Can, Progress
<1> QED BY <1>1, <1>2, <1>3, <1>4 DEF Inspect

LEMMA ReportStep ==
  ASSUME Reconciles, ReportInv, [Next]_vars
  PROVE  \A q \in Procs : Reported(q)'
<1>1. ASSUME NEW p \in Procs, Replace(p) \/ Delete(p)
      PROVE  \A q \in Procs : Reported(q)'
  <2>1. PICK step \in Steps \ InspectSteps : step # "report" /\ Goto(p, step)
    BY <1>1 DEF Replace, WritePending, NftReplace, RemovePending, Commit,
                Delete, Mark, NftDelete, Restore, Unmark, Clean, Steps,
                ReplaceSteps, DeleteSteps, InspectSteps, Replies
  <2>2. pc[p] # "idle"
    BY <1>1 DEF Replace, WritePending, NftReplace, RemovePending, Commit,
                Delete, Mark, NftDelete, Restore, Unmark, Clean
  <2>3. Reported(p)'
    BY <2>1 DEF Reported, Goto, InspectSteps, ReportInv, RecoverInv, OwnInv,
                TypeOK
  <2> QED BY <2>1, <2>2, <2>3, Alone DEF Reported, ReportInv, RecoverInv
<1>2. ASSUME NEW p \in Procs, Inspect(p)
      PROVE  \A q \in Procs : Reported(q)'
  <2>1. pc[p] # "idle" /\ \E step : Goto(p, step)
    BY <1>2 DEF Inspect, List, Reconcile, Resolve, Forget
  <2> QED
    BY <1>2, <2>1, Alone, ReportInspect DEF Reported, ReportInv, RecoverInv
<1>3. CASE Orphan \/ Flush
  <2>1. tainted \in BOOLEAN /\ (~tainted' => ~tainted /\ live' = live)
    BY <1>3, Zenon DEF Orphan, Flush, ReportInv, RecoverInv, OwnInv, TypeOK
  <2> QED
    BY <1>3, <2>1 DEF Orphan, Flush, Reported, ReportInv, files, locals
<1>4. CASE Reboot \/ \E p \in Procs : Begin(p) \/ Exit(p) \/ Kill(p)
  BY <1>4, AtTheDoor DEF Reported, ReportInv, RecoverInv
<1>5. CASE UNCHANGED vars
  BY <1>5 DEF vars, ReportInv, Reported
<1> QED BY <1>1, <1>2, <1>3, <1>4, <1>5 DEF Next, Operate

LEMMA ReportInitially == Init => ReportInv
BY RecoverInitially DEF Init, ReportInv, Reported

(* An Inspect that reports shows the live table and a journal that makes   *)
(* it, with nothing left over, unless the history is tainted: whichever    *)
(* reads, writes and runs of nft fail, whoever is killed or changes the    *)
(* table, as long as renames and unlinks work.                             *)
THEOREM ReconciledHolds == ASSUME Reconciles PROVE Spec => []Reconciled
<1>1. ReportInv => Reconciled
  BY DEF ReportInv, RecoverInv, Recoverable, Tells, Reported, Reconciled
<1>2. ReportInv /\ [Next]_vars => ReportInv'
  BY RecoverStep, ReportStep DEF ReportInv
<1> QED BY ReportInitially, <1>1, <1>2, PTL DEF Spec

----------------------------------------------------------------------------
(* DeletedMeansGone needs unlinks that work, a nft that is there, and no   *)
(* nft left running that could install a table again.                      *)
Erases == Hazards \cap {"unlink", "absent", "orphan"} = {}

(* What a delete has removed at each of its steps.                         *)
Gone(p) ==
  /\ pc[p] \in {"unmark", "clean", "deleted"} => live = None
  /\ pc[p] \in {"clean", "deleted"} => marker = None
  /\ pc[p] = "deleted" => journal = None /\ pending = None

GoneInv == OwnInv /\ orphans = {} /\ \A p \in Procs : Gone(p)

LEMMA GoneDelete ==
  ASSUME Erases, GoneInv, NEW p \in Procs, Delete(p)
  PROVE  Gone(p)' /\ UNCHANGED orphans
<1> USE DEF GoneInv, OwnInv, TypeOK, Own, DeleteSteps, Gone, Goto, locals,
            files
<1>1. CASE Mark(p)
  BY <1>1 DEF Mark
<1>2. CASE NftDelete(p)
  BY <1>2 DEF NftDelete, Erases, Can
<1>3. CASE Restore(p)
  BY <1>3 DEF Restore
<1>4. CASE Unmark(p)
  BY <1>4 DEF Unmark, Erases, Can
<1>5. CASE Clean(p)
  BY <1>5 DEF Clean, Erases, Can
<1> QED BY <1>1, <1>2, <1>3, <1>4, <1>5 DEF Delete

LEMMA GoneStep ==
  ASSUME Erases, GoneInv, [Next]_vars
  PROVE  orphans' = {} /\ \A q \in Procs : Gone(q)'
<1>1. ASSUME NEW p \in Procs, Replace(p) \/ Inspect(p)
      PROVE  orphans' = {} /\ \A q \in Procs : Gone(q)'
  <2>1. PICK step \in Steps \ DeleteSteps : step # "deleted" /\ Goto(p, step)
    BY <1>1 DEF Replace, WritePending, NftReplace, RemovePending, Commit,
                Inspect, List, Reconcile, Resolve, Forget, Steps,
                ReplaceSteps, DeleteSteps, InspectSteps, Replies
  <2>2. pc[p] # "idle" /\ orphans' = orphans
    BY <1>1 DEF Replace, WritePending, NftReplace, RemovePending, Commit,
                Inspect, List, Reconcile, Resolve, Forget
  <2>3. Gone(p)'
    BY <2>1 DEF Gone, Goto, DeleteSteps, GoneInv, OwnInv, TypeOK
  <2> QED BY <2>1, <2>2, <2>3, Alone DEF Gone, GoneInv
<1>2. ASSUME NEW p \in Procs, Delete(p)
      PROVE  orphans' = {} /\ \A q \in Procs : Gone(q)'
  <2>1. pc[p] # "idle" /\ \E step : Goto(p, step)
    BY <1>2 DEF Delete, Mark, NftDelete, Restore, Unmark, Clean
  <2> QED BY <1>2, <2>1, Alone, GoneDelete DEF Gone, GoneInv
<1>3. CASE Orphan \/ Flush
  BY <1>3 DEF Orphan, Flush, Gone, GoneInv, files, locals
<1>4. CASE Reboot \/ \E p \in Procs : Begin(p) \/ Exit(p) \/ Kill(p)
  <2>1. orphans' = {}
    BY <1>4 DEF Reboot, Begin, Exit, Kill, Erases, Can, GoneInv
  <2> QED BY <1>4, <2>1, AtTheDoor DEF Gone, GoneInv
<1>5. CASE UNCHANGED vars
  BY <1>5 DEF vars, GoneInv, Gone
<1> QED BY <1>1, <1>2, <1>3, <1>4, <1>5 DEF Next, Operate

LEMMA GoneInitially == Init => GoneInv
BY OwnInitially DEF Init, GoneInv, Gone

(* A Deleted reply leaves no table and nothing that could become one,      *)
(* whatever was left over and whichever renames and runs of nft failed.    *)
THEOREM DeletedMeansGoneHolds ==
  ASSUME Erases PROVE Spec => []DeletedMeansGone
<1>1. GoneInv => DeletedMeansGone
  BY DEF GoneInv, Gone, DeletedMeansGone
<1>2. GoneInv /\ [Next]_vars => GoneInv'
  BY OwnStep, GoneStep DEF GoneInv
<1> QED BY GoneInitially, <1>1, <1>2, PTL DEF Spec

----------------------------------------------------------------------------
(* RefusedPutsBack needs the rename that puts the journal back.            *)
PutsBack == "rename" \notin Hazards

Back(p) ==
  pc[p] = "refused" /\ had[p] /\ ~tainted =>
    /\ journal # None /\ live = TableOf(journal)
    /\ pending = None /\ marker = None

BackInv == RecoverInv /\ \A p \in Procs : Back(p)

(* Only a delete that renamed a journal is refused with it.                *)
LEMMA BackOperate ==
  ASSUME PutsBack, BackInv, NEW p \in Procs,
         Replace(p) \/ Delete(p) \/ Inspect(p)
  PROVE  Back(p)'
<1> USE DEF BackInv, RecoverInv, OwnInv, TypeOK, Own, ReplaceSteps,
            DeleteSteps, Goto, locals
<1>1. CASE Replace(p) \/ Inspect(p)
  <2>1. pc[p] \notin DeleteSteps \cup Replies /\ UNCHANGED had
    BY <1>1 DEF Replace, WritePending, NftReplace, RemovePending, Commit,
                Inspect, List, Reconcile, Resolve, Forget, Replies
  <2>2. ~had'[p]
    BY <2>1 DEF Replies
  <2> QED BY <2>2 DEF Back
<1>2. CASE Mark(p)
  BY <1>2 DEF Mark, Can, PutsBack, Back
<1>3. CASE NftDelete(p) \/ Unmark(p) \/ Clean(p)
  <2>1. pc'[p] # "refused"
    BY <1>3 DEF NftDelete, Unmark, Clean
  <2> QED BY <2>1 DEF Back
<1>4. CASE Restore(p)
  <2>1. ~tainted => pending = None /\ live = TableOf(marker)
    BY <1>4 DEF Restore, Progress
  <2>2. /\ UNCHANGED <<tainted, live, pending, had>>
        /\ had[p] => marker # None /\ journal' = marker /\ marker' = None
    BY <1>4 DEF Restore, Can, PutsBack
  <2> QED BY <2>1, <2>2 DEF Back, TableOf
<1> QED BY <1>1, <1>2, <1>3, <1>4 DEF Delete

LEMMA BackStep ==
  ASSUME PutsBack, BackInv, [Next]_vars
  PROVE  \A q \in Procs : Back(q)'
<1>1. ASSUME NEW p \in Procs, Replace(p) \/ Delete(p) \/ Inspect(p)
      PROVE  \A q \in Procs : Back(q)'
  <2>1. pc[p] # "idle" /\ \E step : Goto(p, step)
    BY <1>1 DEF Replace, WritePending, NftReplace, RemovePending, Commit,
                Delete, Mark, NftDelete, Restore, Unmark, Clean,
                Inspect, List, Reconcile, Resolve, Forget
  <2> QED
    BY <1>1, <2>1, Alone, BackOperate DEF Back, BackInv, RecoverInv
<1>2. CASE Orphan \/ Flush
  <2>1. tainted \in BOOLEAN /\ (~tainted' => ~tainted /\ live' = live)
    BY <1>2, Zenon DEF Orphan, Flush, BackInv, RecoverInv, OwnInv, TypeOK
  <2> QED
    BY <1>2, <2>1 DEF Orphan, Flush, Back, BackInv, TableOf, files, locals
<1>3. CASE Reboot \/ \E p \in Procs : Begin(p) \/ Exit(p) \/ Kill(p)
  BY <1>3, AtTheDoor DEF Back, BackInv, RecoverInv
<1>4. CASE UNCHANGED vars
  BY <1>4 DEF vars, BackInv, Back, TableOf
<1> QED BY <1>1, <1>2, <1>3, <1>4 DEF Next, Operate

LEMMA BackInitially == Init => BackInv
BY RecoverInitially DEF Init, BackInv, Back

(* A delete that nft refused puts the journal back, and it is that of the  *)
(* table unless the history is tainted, as long as renames work.           *)
THEOREM RefusedPutsBackHolds ==
  ASSUME PutsBack PROVE Spec => []RefusedPutsBack
<1>1. BackInv => RefusedPutsBack
  BY DEF BackInv, Back, RefusedPutsBack
<1>2. BackInv /\ [Next]_vars => BackInv'
  BY RecoverStep, BackStep DEF BackInv
<1> QED BY BackInitially, <1>1, <1>2, PTL DEF Spec

----------------------------------------------------------------------------
(* Progress, but for fairness: the steps that an operation has before it.  *)
Togo(step) ==
  CASE step \in {"pend", "mark", "list"}                            -> 5
    [] step \in {"nftf", "nftd", "reconcile"}                       -> 4
    [] step \in {"commit", "unpend", "unmark", "restore", "resolve"} -> 3
    [] step \in {"clean", "forget"}                                 -> 2
    [] step \in Replies                                             -> 1
    [] OTHER                                                        -> 0

Nearer(p) == pc'[p] = pc[p] \/ Togo(pc'[p]) < Togo(pc[p])

LEMMA TogoOrder ==
  /\ \A step \in {"pend", "mark", "list"} : Togo(step) = 5
  /\ \A step \in {"nftf", "nftd", "reconcile"} : Togo(step) = 4
  /\ \A step \in {"commit", "unpend", "unmark", "restore", "resolve"} :
       Togo(step) = 3
  /\ \A step \in {"clean", "forget"} : Togo(step) = 2
  /\ \A step \in Replies : Togo(step) = 1
  /\ Togo("idle") = 0
BY DEF Togo, Replies

LEMMA WorkNearer ==
  ASSUME OwnInv, NEW p \in Procs, Replace(p) \/ Delete(p) \/ Inspect(p)
  PROVE  Togo(pc'[p]) < Togo(pc[p]) /\ pc'[p] # "idle"
<1> USE DEF OwnInv, TypeOK, Goto, Replies
<1>1. CASE Replace(p)
  BY <1>1, TogoOrder
     DEF Replace, WritePending, NftReplace, RemovePending, Commit
<1>2. CASE Delete(p)
  BY <1>2, TogoOrder DEF Delete, Mark, NftDelete, Restore, Unmark, Clean
<1>3. CASE Inspect(p)
  BY <1>3, TogoOrder DEF Inspect, List, Reconcile, Resolve, Forget
<1> QED BY <1>1, <1>2, <1>3

(* No operation goes back or round in circles: whichever calls fail, every *)
(* step that the holder of the lock takes brings it nearer to its reply,   *)
(* which is at most four steps away, and then out of the lock.             *)
THEOREM OperationNears ==
  Spec => [][\A p \in Procs : pc[p] # "idle" => Nearer(p)]_vars
<1>1. OwnInv /\ [Next]_vars
        => [\A p \in Procs : pc[p] # "idle" => Nearer(p)]_vars
  <2> SUFFICES ASSUME OwnInv, Next, NEW p \in Procs, pc[p] # "idle"
               PROVE  Nearer(p)
    OBVIOUS
  <2>0. /\ pc \in [Procs -> Steps \cup {"idle"}]
        /\ \A q \in Procs \ {p} : pc[q] = "idle"
    BY OthersIdle DEF OwnInv, TypeOK
  <2>1. CASE Operate(p) /\ ~Exit(p)
    BY <2>1, WorkNearer DEF Operate, Nearer
  <2>2. CASE Exit(p) \/ Kill(p) \/ Reboot
    <3>1. pc'[p] = "idle"
      BY <2>0, <2>2 DEF Exit, Kill, Vanish, Reboot
    <3>2. Togo(pc[p]) > 0
      BY <2>0 DEF Steps, ReplaceSteps, DeleteSteps, InspectSteps, Togo
    <3> QED BY <3>1, <3>2, TogoOrder DEF Nearer
  <2>3. ASSUME NEW q \in Procs \ {p},
               Begin(q) \/ Operate(q) \/ Kill(q)
        PROVE  Nearer(p)
    <3>1. pc'[p] = pc[p]
      BY <2>0, <2>3
         DEF Begin, Operate, Kill, Exit, Vanish, Goto, Replies, Replace,
             WritePending, NftReplace, RemovePending, Commit, Delete, Mark,
             NftDelete, Restore, Unmark, Clean, Inspect, List, Reconcile,
             Resolve, Forget
    <3> QED BY <3>1 DEF Nearer
  <2>4. CASE Orphan \/ Flush
    BY <2>4 DEF Orphan, Flush, Nearer
  <2>5. ~Begin(p)
    BY DEF Begin
  <2> QED BY <2>1, <2>2, <2>3, <2>4, <2>5 DEF Next, Operate
<1>2. OwnInv /\ [Next]_vars => OwnInv'
  BY OwnStep
<1> QED BY OwnInitially, <1>1, <1>2, PTL DEF Spec
=============================================================================
