--------------------------- MODULE FirewallProofs ---------------------------
(***************************************************************************)
(* Applier implements Firewall, for every set of appliers, of rulesets and *)
(* of hazards.  RecoverInv supplies what a step relies on while the        *)
(* history is not tainted, and Cleared what an operation can have left     *)
(* behind, and why.                                                        *)
(***************************************************************************)
EXTENDS ApplierProofs

(* An operation goes on over a record that it could not unlink, and an     *)
(* Inspect has found the journal of the table when no delete has died.     *)
Cleared(p) ==
  /\ pc[p] = "clean" => marker = None \/ Can("unlink")
  /\ pc[p] \in {"resolve", "forget"} => pending = None \/ Can("unlink")
  /\ pc[p] = "forget" => marker = None \/ Can("unlink")
  /\ pc[p] = "resolve" /\ marker = None /\ ~tainted => live = TableOf(journal)

ClearInv == RecoverInv /\ \A p \in Procs : Cleared(p)

LEMMA ClearReconcile ==
  ASSUME ClearInv, NEW p \in Procs, Reconcile(p)
  PROVE  Cleared(p)'
<1> USE DEF ClearInv, RecoverInv, OwnInv, TypeOK, Goto
<1>1. pc[p] = "reconcile" /\ UNCHANGED <<live, marker>>
  BY DEF Reconcile
<1>2. CASE Goto(p, "refused")
  BY <1>2 DEF Cleared
<1>3. CASE PendingMatches(p) /\ journal' = pending /\ pending' = None
           /\ Goto(p, "resolve") /\ UNCHANGED tainted
  <2>1. ~tainted => live = TableOf(pending)
    BY <1>1, <1>3 DEF PendingMatches, Progress, Sorted
  <2> QED BY <1>1, <1>3, <2>1 DEF Cleared, TableOf
<1>4. CASE /\ ~PendingMatches(p) /\ Goto(p, "resolve")
           /\ pending' = None \/ (Can("unlink") /\ UNCHANGED pending)
           /\ tainted' = (tainted \/ Misread)
           /\ UNCHANGED journal
  <2>1. ~tainted' => ~tainted /\ ~Misread
    BY <1>4, Zenon
  <2>2. ~tainted' /\ marker = None => live = TableOf(journal)
    BY <2>1 DEF Recoverable, Tells, Misread
  <2> QED BY <1>1, <1>4, <2>2 DEF Cleared, TableOf
<1> QED BY <1>2, <1>3, <1>4, Zenon DEF Reconcile

LEMMA ClearOperate ==
  ASSUME ClearInv, NEW p \in Procs, Replace(p) \/ Delete(p) \/ Inspect(p)
  PROVE  Cleared(p)'
<1> USE DEF ClearInv, RecoverInv, OwnInv, TypeOK, Goto
<1>1. CASE Replace(p) \/ Mark(p) \/ NftDelete(p) \/ Restore(p) \/ Clean(p)
           \/ List(p)
  <2>1. PICK step \in Steps \ {"clean", "resolve", "forget"} : Goto(p, step)
    BY <1>1 DEF Replace, WritePending, NftReplace, RemovePending, Commit,
                Mark, NftDelete, Restore, Clean, List, Steps, ReplaceSteps,
                DeleteSteps, InspectSteps, Replies
  <2> QED BY <2>1 DEF Cleared
<1>2. CASE Unmark(p)
  BY <1>2 DEF Unmark, Cleared
<1>3. CASE Resolve(p)
  BY <1>3 DEF Resolve, Cleared
<1>4. CASE Forget(p)
  BY <1>4 DEF Forget, Cleared
<1> QED
  BY <1>1, <1>2, <1>3, <1>4, ClearReconcile DEF Delete, Inspect

LEMMA ClearStep ==
  ASSUME ClearInv, [Next]_vars
  PROVE  \A q \in Procs : Cleared(q)'
<1>1. ASSUME NEW p \in Procs, Replace(p) \/ Delete(p) \/ Inspect(p)
      PROVE  \A q \in Procs : Cleared(q)'
  <2>1. pc[p] # "idle" /\ \E step : Goto(p, step)
    BY <1>1 DEF Replace, WritePending, NftReplace, RemovePending, Commit,
                Delete, Mark, NftDelete, Restore, Unmark, Clean,
                Inspect, List, Reconcile, Resolve, Forget
  <2> QED
    BY <1>1, <2>1, Alone, ClearOperate DEF Cleared, ClearInv, RecoverInv
<1>2. CASE Orphan \/ Flush
  <2>1. tainted \in BOOLEAN /\ (~tainted' => ~tainted /\ live' = live)
    BY <1>2, Zenon DEF Orphan, Flush, ClearInv, RecoverInv, OwnInv, TypeOK
  <2> QED
    BY <1>2, <2>1 DEF Orphan, Flush, Cleared, ClearInv, TableOf, files
<1>3. CASE Reboot \/ \E p \in Procs : Begin(p) \/ Exit(p) \/ Kill(p)
  BY <1>3, AtTheDoor DEF Cleared, ClearInv, RecoverInv
<1>4. CASE UNCHANGED vars
  BY <1>4 DEF vars, ClearInv, Cleared, TableOf
<1> QED BY <1>1, <1>2, <1>3, <1>4 DEF Next, Operate

LEMMA ClearAlways == Spec => []ClearInv
<1>1. Init => ClearInv
  BY RecoverInitially DEF Init, ClearInv, Cleared
<1>2. ClearInv /\ [Next]_vars => ClearInv'
  BY RecoverStep, ClearStep DEF ClearInv
<1> QED BY <1>1, <1>2, PTL DEF Spec

----------------------------------------------------------------------------
Served == [Promise!Next]_(Promise!vars)

(* What a step of the applier inside the lock means for its client.        *)
LEMMA StepMap ==
  ASSUME OwnInv, NEW p \in Procs, pc[p] # "idle", NEW step, Goto(p, step),
         UNCHANGED arg
  PROVE  /\ Phase' = [Phase EXCEPT ![p] = PhaseOf(step)]
         /\ Phase[p] = PhaseOf(pc[p])
         /\ PhaseOf(step) = PhaseOf(pc[p]) => UNCHANGED Phase
         /\ (step \in Wants <=> pc[p] \in Wants) => UNCHANGED Want
         /\ step \notin Wants => Want' = [Want EXCEPT ![p] = None]
         /\ pc[p] \notin Looks /\ step \notin Looks => UNCHANGED Saw
         /\ pc[p] \in Looks /\ step \in Looks /\ UNCHANGED seen =>
              UNCHANGED Saw
         /\ step \notin Looks => Saw' = [Saw EXCEPT ![p] = None]
         /\ step \in Looks => Saw' = [Saw EXCEPT ![p] = seen'[p]]
         /\ pc[p] # "report" /\ step # "report" => UNCHANGED Told
         /\ step = "report" => Told' = [Told EXCEPT ![p] = journal']
         /\ Traces' <=> Leftover' /\ step \notin Inside
         /\ Traces <=> Leftover /\ pc[p] \notin Inside
<1>1. \A q \in Procs \ {p} : pc[q] = "idle" /\ pc'[q] = "idle"
  BY OthersIdle DEF OwnInv, TypeOK, Goto
<1>2. pc'[p] = step /\ pc' \in [Procs -> Steps \cup {"idle", step}]
  BY DEF OwnInv, TypeOK, Goto
<1>3. Phase' = [Phase EXCEPT ![p] = PhaseOf(step)]
  BY <1>1, <1>2 DEF Phase
<1>4. (step \in Wants <=> pc[p] \in Wants) => UNCHANGED Want
  BY <1>1, <1>2 DEF Want
<1>5. step \notin Wants => Want' = [Want EXCEPT ![p] = None]
  BY <1>1, <1>2 DEF Want
<1>6. /\ pc[p] \notin Looks /\ step \notin Looks => UNCHANGED Saw
      /\ pc[p] \in Looks /\ step \in Looks /\ UNCHANGED seen => UNCHANGED Saw
  BY <1>1, <1>2 DEF Saw, Looks
<1>7. /\ step \notin Looks => Saw' = [Saw EXCEPT ![p] = None]
      /\ step \in Looks => Saw' = [Saw EXCEPT ![p] = seen'[p]]
  BY <1>1, <1>2 DEF Saw, Looks
<1>8. /\ pc[p] # "report" /\ step # "report" => UNCHANGED Told
      /\ step = "report" => Told' = [Told EXCEPT ![p] = journal']
  BY <1>1, <1>2 DEF Told
<1>9. /\ Traces' <=> Leftover' /\ step \notin Inside
      /\ Traces <=> Leftover /\ pc[p] \notin Inside
  BY <1>1, <1>2 DEF Traces, Inside
<1>10. Phase[p] = PhaseOf(pc[p])
  BY DEF Phase
<1>11. PhaseOf(step) = PhaseOf(pc[p]) => UNCHANGED Phase
  BY <1>1, <1>2 DEF Phase
<1> QED
  BY <1>3, <1>4, <1>5, <1>6, <1>7, <1>8, <1>9, <1>10, <1>11

(* Which phase of an operation each step belongs to.                       *)
LEMMA Phases ==
  /\ \A step \in {"pend", "nftf"} : PhaseOf(step) = "install"
  /\ PhaseOf("commit") = "installed"
  /\ \A step \in {"mark", "nftd"} : PhaseOf(step) = "remove"
  /\ \A step \in {"unmark", "clean"} : PhaseOf(step) = "removed"
  /\ \A step \in {"unpend", "restore"} : PhaseOf(step) = "refusing"
  /\ PhaseOf("list") = "observe"
  /\ \A step \in {"reconcile", "resolve", "forget"} :
       PhaseOf(step) = "observed"
  /\ \A step \in Replies \cup {"idle"} : PhaseOf(step) = step
BY DEF PhaseOf, Replies

(* What a step means for the trust in the ledger.                          *)
LEMMA TrustLost ==
  ASSUME tainted, tainted' PROVE ~Sure /\ UNCHANGED <<Sure, Dirty, Half>>
BY Zenon DEF Sure, Dirty, Half

LEMMA TrustKept ==
  ASSUME ~tainted, ~tainted', Traces' <=> Traces, Traces => UNCHANGED pending
  PROVE  UNCHANGED <<Sure, Dirty, Half>>
<1>1. Sure' = Sure /\ Dirty' = Dirty
  BY Zenon DEF Sure, Dirty
<1>2. Half' = Half
  BY DEF Half
<1> QED BY <1>1, <1>2

LEMMA TrustSame ==
  ASSUME UNCHANGED tainted, tainted \in BOOLEAN,
         ~tainted => (Traces' <=> Traces) /\ (Traces => UNCHANGED pending)
  PROVE  UNCHANGED <<Sure, Dirty, Half>>
<1>1. CASE tainted
  BY <1>1, TrustLost
<1>2. CASE ~tainted
  BY <1>2, TrustKept
<1> QED BY <1>1, <1>2

LEMMA TrustDistrust == ASSUME tainted' PROVE Promise!Distrust
BY Zenon DEF Sure, Dirty, Half, Promise!Distrust

LEMMA TrustVouch == ASSUME ~tainted', ~Traces' PROVE Promise!Vouch
BY Zenon DEF Sure, Dirty, Half, Promise!Vouch

LEMMA TrustRemain ==
  ASSUME UNCHANGED tainted, tainted \in BOOLEAN, NEW p \in Procs,
         ~tainted => Traces' /\ pending' = Want[p]
  PROVE  Promise!Remain(p)
<1>1. CASE tainted
  BY <1>1, Zenon DEF Sure, Dirty, Half, Promise!Remain
<1>2. CASE ~tainted
  <2>1. Sure' = Sure /\ Sure /\ Dirty' = TRUE
    BY <1>2, Zenon DEF Sure, Dirty
  <2>2. Half' = Want[p]
    BY <1>2 DEF Half
  <2> QED BY <2>1, <2>2, Zenon DEF Promise!Remain
<1> QED BY <1>1, <1>2

(* Before its effect an operation has no traces to trust over.             *)
LEMMA NoTraces == ASSUME ~Traces PROVE Sure => ~Dirty
BY Zenon DEF Sure, Dirty

(* A step without effect for the clients.                                  *)
LEMMA Stutter ==
  ASSUME UNCHANGED <<live, orphans, Sure, Dirty, Half, Phase, Want, Saw, Told>>
  PROVE  Served
BY Zenon DEF Served, Promise!vars, Promise!trust, Promise!report

(* A step of one of the operations.                                        *)
LEMMA Serves ==
  ASSUME NEW p \in Procs, Promise!Serve(p)
  PROVE  Served
BY Zenon DEF Served, Promise!Next

(* A step within a phase: the clients see nothing of it.                   *)
LEMMA Quiet ==
  ASSUME OwnInv, NEW p \in Procs, NEW step, Goto(p, step),
         UNCHANGED <<arg, seen>>,
         pc[p] \notin {"idle", "report"}, step # "report",
         PhaseOf(step) = PhaseOf(pc[p]), step \in Wants <=> pc[p] \in Wants,
         step \in Looks <=> pc[p] \in Looks
  PROVE  UNCHANGED <<Phase, Want, Saw, Told>>
BY StepMap

(* A step to a refusal.                                                    *)
LEMMA Refusing ==
  ASSUME OwnInv, NEW p \in Procs, Goto(p, "refused"),
         UNCHANGED <<live, orphans, arg>>,
         \/ /\ pc[p] \in {"pend", "unpend", "mark", "restore", "list"}
            /\ UNCHANGED <<Sure, Dirty, Half>>
         \/ /\ pc[p] = "reconcile" /\ Can("rename")
            /\ UNCHANGED <<Sure, Dirty, Half>>
         \/ pc[p] = "commit" /\ Can("rename") /\ Promise!Remain(p)
         \/ pc[p] = "unpend" /\ Can("unlink") /\ Promise!Remain(p)
         \/ pc[p] = "restore" /\ Can("rename") /\ Promise!Remain(p)
  PROVE  Served
<1>1. /\ Phase[p] = PhaseOf(pc[p])
      /\ Phase' = [Phase EXCEPT ![p] = "refused"]
  BY StepMap, Phases DEF Replies
<1>2. Want' = [Want EXCEPT ![p] = None] /\ Saw' = [Saw EXCEPT ![p] = None]
  BY StepMap DEF Wants, Looks
<1>3. UNCHANGED Told
  BY StepMap
<1>4. /\ pc[p] = "restore" => Want[p] = None
      /\ pc[p] = "unpend" => Want[p] # None
  BY DEF Want, Wants, OwnInv, Own, ReplaceSteps
<1>5. \/ /\ Phase[p] \in {"install", "remove", "observe", "refusing"}
         /\ UNCHANGED Promise!trust
      \/ Phase[p] = "observed" /\ Can("rename") /\ UNCHANGED Promise!trust
      \/ Phase[p] = "installed" /\ Can("rename") /\ Promise!Remain(p)
      \/ /\ Phase[p] = "refusing" /\ Promise!Remain(p)
         /\ Can(IF Want[p] = None THEN "rename" ELSE "unlink")
  BY <1>1, <1>4, Phases DEF Promise!trust
<1>6. Promise!Refuse(p)
  BY <1>1, <1>2, <1>3, <1>5
     DEF Promise!Refuse, Promise!Enter, Promise!Forgotten, Promise!Can, Can
<1> QED BY <1>6, Serves DEF Promise!Serve

(* A step to a phase in which nft has refused.                             *)
LEMMA Failing ==
  ASSUME OwnInv, tainted \in BOOLEAN, NEW p \in Procs, NEW step,
         Goto(p, step), UNCHANGED <<live, orphans, arg, tainted>>,
         \/ pc[p] = "nftf" /\ step = "unpend"
         \/ pc[p] = "nftd" /\ step = "restore"
  PROVE  Served
<1>1. /\ Phase[p] \in {"install", "remove"}
      /\ Phase' = [Phase EXCEPT ![p] = "refusing"]
  BY StepMap, Phases
<1>2. UNCHANGED <<Want, Saw, Told>>
  BY StepMap DEF Wants, Looks
<1>3. ~Traces /\ ~Traces'
  BY StepMap DEF Inside
<1>4. UNCHANGED <<Sure, Dirty, Half>> /\ (Sure => ~Dirty)
  BY <1>3, TrustSame, NoTraces
<1>5. Promise!Fail(p)
  BY <1>1, <1>2, <1>4
     DEF Promise!Fail, Promise!Enter, Promise!trust, Promise!report
<1> QED BY <1>5, Serves DEF Promise!Serve

(* The first step of an install or a remove, over leftovers or not.        *)
LEMMA Entering ==
  ASSUME OwnInv, tainted \in BOOLEAN, NEW p \in Procs, NEW step,
         Goto(p, step), UNCHANGED <<live, orphans, arg, seen>>,
         tainted' = (tainted \/ Leftover),
         \/ pc[p] = "pend" /\ step = "nftf"
         \/ pc[p] = "mark" /\ step = "nftd"
  PROVE  Served
<1>1. UNCHANGED <<Phase, Want, Saw, Told>>
  BY Quiet, Phases DEF Wants, Looks
<1>2. ~Traces' /\ (Traces <=> Leftover)
  BY StepMap DEF Inside
<1>3. CASE tainted
  BY <1>1, <1>3, TrustLost, Stutter
<1>4. CASE ~tainted /\ Leftover
  <2>1. Phase[p] \in {"install", "remove"}
    BY StepMap, Phases
  <2>2. Dirty
    BY <1>2, <1>4, Zenon DEF Dirty
  <2>3. Promise!Lose(p)
    BY <1>1, <1>4, <2>1, <2>2, TrustDistrust
       DEF Promise!Lose, Promise!report
  <2> QED BY <2>3, Serves DEF Promise!Serve
<1>5. CASE ~tainted /\ ~Leftover
  BY <1>1, <1>2, <1>5, TrustKept, Stutter
<1> QED BY <1>3, <1>4, <1>5

LEMMA MapReplace ==
  ASSUME ClearInv, NEW p \in Procs, Replace(p)
  PROVE  Served
<1>0. OwnInv /\ tainted \in BOOLEAN /\ Own(p) /\ (~tainted => Progress(p))
  BY DEF ClearInv, RecoverInv, OwnInv, TypeOK
<1>1. CASE WritePending(p)
  <2>1. pc[p] = "pend" /\ UNCHANGED <<live, orphans, arg, seen, marker>>
    BY <1>1 DEF WritePending, locals
  <2>2. CASE Goto(p, "nftf") /\ tainted' = (tainted \/ Leftover)
    BY <1>0, <2>1, <2>2, Entering
  <2>3. CASE Goto(p, "refused") /\ UNCHANGED <<pending, tainted>>
    <3>1. Traces' <=> Traces
      BY <1>0, <2>1, <2>3, StepMap DEF Inside, Leftover
    <3> QED BY <1>0, <2>1, <2>3, <3>1, TrustSame, Refusing
  <2> QED BY <1>1, <2>2, <2>3, Zenon DEF WritePending
<1>2. CASE NftReplace(p)
  <2>1. pc[p] = "nftf" /\ UNCHANGED <<orphans, arg>>
    BY <1>2 DEF NftReplace, locals
  <2>2. CASE UNCHANGED <<live, tainted>> /\ Goto(p, "unpend")
    BY <1>0, <2>1, <2>2, Failing
  <2>3. CASE live' = TableOf(arg[p])
    <3>1. /\ live' = Shown[Want[p]]
          /\ Phase[p] = "install" /\ ~Traces
      <4>1. Want[p] = arg[p] /\ arg[p] \in Files
        BY <1>0, <2>1 DEF OwnInv, TypeOK, Want, Wants
      <4>2. PICK step \in {"commit", "unpend"} : Goto(p, step)
        BY <1>2 DEF NftReplace
      <4>3. Phase[p] = "install"
        BY <1>0, <2>1, <4>2, StepMap, Phases
      <4>4. ~Traces
        BY <1>0, <2>1, <4>2, StepMap DEF Inside
      <4> QED BY <2>3, <4>1, <4>3, <4>4 DEF Shown
    <3>2. Sure => ~Dirty
      BY <3>1, NoTraces
    <3>3. CASE Goto(p, "commit") /\ UNCHANGED tainted
      <4>1. /\ Phase' = [Phase EXCEPT ![p] = "installed"]
            /\ UNCHANGED <<Want, Saw, Told>> /\ ~Traces'
        BY <1>0, <2>1, <3>3, StepMap, Phases DEF Wants, Looks, Inside
      <4>2. UNCHANGED <<Sure, Dirty, Half>>
        BY <1>0, <3>1, <3>3, <4>1, TrustSame
      <4> QED
        BY <2>1, <3>1, <3>2, <4>1, <4>2, Serves
           DEF Promise!Serve, Promise!Install, Promise!Enter, Promise!trust,
               Promise!report
    <3>4. CASE Can("feed") /\ Goto(p, "unpend") /\ tainted' = TRUE
      <4>1. /\ Phase' = [Phase EXCEPT ![p] = "refusing"]
            /\ UNCHANGED <<Want, Saw, Told>>
        BY <1>0, <2>1, <3>4, StepMap, Phases DEF Wants, Looks
      <4>2. Promise!Distrust
        BY <3>4, TrustDistrust
      <4> QED
        BY <2>1, <3>1, <3>2, <3>4, <4>1, <4>2, Serves
           DEF Promise!Serve, Promise!Install, Promise!Enter, Promise!report,
               Promise!Can, Can
    <3> QED BY <1>2, <2>3, <3>3, <3>4, <2>2 DEF NftReplace
  <2> QED BY <1>2, <2>2, <2>3 DEF NftReplace
<1>3. CASE RemovePending(p)
  <2>1. /\ pc[p] = "unpend" /\ Goto(p, "refused")
        /\ UNCHANGED <<live, orphans, marker, arg, tainted>>
    BY <1>3 DEF RemovePending, locals
  <2>2. CASE pending' = None
    <3>1. ~tainted => ~Traces /\ ~Traces'
      BY <1>0, <2>1, <2>2, StepMap DEF Progress, Inside, Leftover
    <3> QED BY <1>0, <2>1, <3>1, TrustSame, Refusing
  <2>3. CASE Can("unlink") /\ UNCHANGED pending
    <3>1. pending' = Want[p] /\ pending' # None
      BY <1>0, <2>1, <2>3 DEF Own, ReplaceSteps, Want, Wants
    <3>2. Traces'
      BY <1>0, <2>1, <3>1, StepMap DEF Leftover, Inside
    <3> QED BY <1>0, <2>1, <2>3, <3>1, <3>2, TrustRemain, Refusing
  <2> QED BY <1>3, <2>2, <2>3 DEF RemovePending
<1>4. CASE Commit(p)
  <2>1. pc[p] = "commit" /\ UNCHANGED <<live, orphans, marker, arg>>
    BY <1>4 DEF Commit, locals
  <2>2. pending = arg[p] /\ pending # None /\ Want[p] = arg[p]
    BY <1>0, <2>1 DEF Own, ReplaceSteps, Want, Wants
  <2>3. CASE /\ pending' = None /\ Goto(p, "applied")
             /\ tainted' =
                  (tainted /\ ~(marker = None /\ live = TableOf(pending)))
    <3>1. Phase[p] = "installed" /\ Phase' = [Phase EXCEPT ![p] = "applied"]
      BY <1>0, <2>1, <2>3, StepMap, Phases DEF Replies
    <3>2. UNCHANGED <<Want, Saw, Told>>
      BY <1>0, <2>1, <2>3, StepMap DEF Wants, Looks
    <3>3. \/ live = Shown[Want[p]] /\ Promise!Vouch
          \/ ~Sure /\ UNCHANGED <<Sure, Dirty, Half>>
      <4>1. CASE marker = None /\ live = TableOf(pending)
        <5>1. ~tainted'
          BY <2>3, <4>1, Zenon
        <5>2. ~Traces'
          BY <1>0, <2>1, <2>3, <4>1, StepMap DEF Leftover
        <5>3. live = Shown[Want[p]]
          BY <1>0, <2>2, <4>1 DEF Shown, OwnInv, TypeOK
        <5> QED BY <5>1, <5>2, <5>3, TrustVouch
      <4>2. CASE ~(marker = None /\ live = TableOf(pending))
        <5>1. tainted
          BY <1>0, <2>1, <2>2, <4>2 DEF Progress
        <5>2. tainted'
          BY <2>3, <4>2, <5>1, Zenon
        <5> QED BY <5>1, <5>2, TrustLost
      <4> QED BY <4>1, <4>2
    <3> QED
      BY <2>1, <3>1, <3>2, <3>3, Serves
         DEF Promise!Serve, Promise!Applied, Promise!Enter, Promise!trust,
             Promise!report
  <2>4. CASE /\ Can("rename") /\ Goto(p, "refused")
             /\ UNCHANGED <<pending, tainted>>
    <3>1. Traces'
      BY <1>0, <2>1, <2>2, <2>4, StepMap DEF Leftover, Inside
    <3> QED BY <1>0, <2>1, <2>2, <2>4, <3>1, TrustRemain, Refusing
  <2> QED BY <1>4, <2>2, <2>3, <2>4, Zenon DEF Commit
<1> QED BY <1>1, <1>2, <1>3, <1>4 DEF Replace

LEMMA MapClean ==
  ASSUME ClearInv, NEW p \in Procs, Clean(p)
  PROVE  Served
<1>0. /\ OwnInv /\ tainted \in BOOLEAN /\ Own(p) /\ Cleared(p)
      /\ ~tainted => Progress(p)
  BY DEF ClearInv, RecoverInv, OwnInv, TypeOK
<1>1. /\ pc[p] = "clean" /\ Goto(p, "deleted") /\ journal = None
      /\ UNCHANGED <<live, orphans, marker, journal, arg>>
  BY <1>0 DEF Clean, locals, Own, DeleteSteps
<1>2. Phase[p] = "removed" /\ Phase' = [Phase EXCEPT ![p] = "deleted"]
  BY <1>0, <1>1, StepMap, Phases DEF Replies
<1>3. UNCHANGED <<Want, Saw, Told>> /\ Want[p] = None
  <2>1. UNCHANGED <<Want, Saw, Told>>
    BY <1>0, <1>1, StepMap DEF Wants, Looks
  <2>2. Want[p] = None
    BY <1>1 DEF Want, Wants
  <2> QED BY <2>1, <2>2
<1>4. Traces' <=> Leftover'
  BY <1>0, <1>1, StepMap DEF Inside
<1>5. marker = None \/ Can("unlink")
  BY <1>0, <1>1 DEF Cleared
<1>6. ~tainted => live = None /\ pending = None
  BY <1>0, <1>1 DEF Progress, DeleteSteps
<1>7. \/ live = None /\ Promise!Vouch
      \/ /\ Can("unlink") \/ (~Sure /\ live # None)
         /\ Promise!Remain(p)
  <2>1. CASE pending' = None
             /\ tainted' = (tainted /\ {marker, journal, live} # {None})
    <3>1. CASE marker = None /\ live = None
      <4>1. ~tainted'
        <5>1. {marker, journal, live} = {None}
          BY <1>1, <3>1
        <5> QED BY <2>1, <5>1, Zenon
      <4>2. ~Traces'
        BY <1>1, <1>4, <2>1, <3>1 DEF Leftover
      <4> QED BY <3>1, <4>1, <4>2, TrustVouch
    <3>2. CASE marker # None \/ live # None
      <4>1. UNCHANGED tainted
        <5>1. {marker, journal, live} # {None}
          BY <3>2
        <5> QED BY <1>0, <2>1, <5>1, Zenon
      <4>2. ~tainted => Traces' /\ pending' = Want[p]
        BY <1>1, <1>3, <1>4, <1>6, <2>1, <3>2 DEF Leftover
      <4>3. Promise!Remain(p)
        BY <1>0, <4>1, <4>2, TrustRemain
      <4>4. Can("unlink") \/ (~Sure /\ live # None)
        BY <1>5, <1>6, <3>2, Zenon DEF Sure
      <4> QED BY <4>3, <4>4
    <3> QED BY <3>1, <3>2
  <2>2. CASE Can("unlink") /\ UNCHANGED <<pending, tainted>>
    <3>1. CASE ~tainted /\ marker = None
      <4>1. ~Traces' /\ live = None
        BY <1>1, <1>4, <1>6, <2>2, <3>1 DEF Leftover
      <4> QED BY <2>2, <3>1, <4>1, TrustVouch
    <3>2. CASE tainted \/ marker # None
      <4>1. ~tainted => Traces' /\ pending' = Want[p]
        BY <1>1, <1>3, <1>4, <1>6, <2>2, <3>2 DEF Leftover
      <4> QED BY <1>0, <2>2, <4>1, TrustRemain
    <3> QED BY <3>1, <3>2
  <2> QED BY <2>1, <2>2 DEF Clean
<1> QED
  BY <1>1, <1>2, <1>3, <1>7, Serves
     DEF Promise!Serve, Promise!Deleted, Promise!Enter, Promise!report,
         Promise!Can, Can

LEMMA MapDelete ==
  ASSUME ClearInv, NEW p \in Procs, Delete(p)
  PROVE  Served
<1>0. OwnInv /\ tainted \in BOOLEAN /\ Own(p) /\ (~tainted => Progress(p))
  BY DEF ClearInv, RecoverInv, OwnInv, TypeOK
<1>1. CASE Mark(p)
  <2>1. pc[p] = "mark" /\ UNCHANGED <<live, orphans, pending, arg, seen>>
    BY <1>1 DEF Mark
  <2>2. CASE Goto(p, "nftd") /\ tainted' = (tainted \/ Leftover)
    BY <1>0, <2>1, <2>2, Entering
  <2>3. CASE Goto(p, "refused") /\ UNCHANGED <<marker, tainted>>
    <3>1. Traces' <=> Traces
      BY <1>0, <2>1, <2>3, StepMap DEF Inside, Leftover
    <3> QED BY <1>0, <2>1, <2>3, <3>1, TrustSame, Refusing
  <2> QED BY <1>1, <2>2, <2>3, Zenon DEF Mark
<1>2. CASE NftDelete(p)
  <2>1. pc[p] = "nftd" /\ UNCHANGED <<orphans, arg>>
    BY <1>2 DEF NftDelete, locals
  <2>2. CASE UNCHANGED <<live, tainted>> /\ Goto(p, "restore")
    BY <1>0, <2>1, <2>2, Failing
  <2>3. CASE Goto(p, "unmark")
    <3>1. /\ Phase[p] = "remove" /\ Phase' = [Phase EXCEPT ![p] = "removed"]
          /\ UNCHANGED <<Want, Saw, Told>> /\ ~Traces /\ ~Traces'
      BY <1>0, <2>1, <2>3, StepMap, Phases DEF Wants, Looks, Inside
    <3>2. Sure => ~Dirty
      BY <3>1, NoTraces
    <3>3. CASE live' = None /\ UNCHANGED tainted
      <4>1. UNCHANGED <<Sure, Dirty, Half>>
        BY <1>0, <3>1, <3>3, TrustSame
      <4> QED
        BY <2>1, <3>1, <3>2, <3>3, <4>1, Serves
           DEF Promise!Serve, Promise!Remove, Promise!Enter, Promise!trust,
               Promise!report
    <3>4. CASE Can("absent") /\ tainted' = TRUE /\ live # None
               /\ UNCHANGED live
      <4>1. Promise!Overlook
        BY <3>4, TrustDistrust DEF Promise!Overlook, Promise!Can, Can
      <4> QED
        BY <2>1, <3>1, <3>2, <3>4, <4>1, Serves
           DEF Promise!Serve, Promise!Remove, Promise!Enter, Promise!report
    <3>5. CASE live' = live /\ tainted' = (tainted \/ live # None)
               /\ Can("absent")
      <4>1. CASE live = None
        <5>1. tainted' = tainted
          BY <1>0, <3>5, <4>1, Zenon
        <5> QED BY <3>3, <3>5, <4>1, <5>1
      <4>2. CASE live # None
        <5>1. tainted' = TRUE
          BY <3>5, <4>2, Zenon
        <5> QED BY <3>4, <3>5, <4>2, <5>1
      <4> QED BY <4>1, <4>2
    <3>6. pc'[p] # "restore"
      BY <1>0, <2>3 DEF OwnInv, TypeOK, Goto
    <3>7. ~Goto(p, "restore")
      BY <1>0, <3>6 DEF OwnInv, TypeOK, Goto
    <3> QED BY <1>2, <3>3, <3>5, <3>7, Zenon DEF NftDelete
  <2> QED BY <1>2, <2>2, <2>3, Zenon DEF NftDelete
<1>3. CASE Restore(p)
  <2>1. /\ pc[p] = "restore" /\ Goto(p, "refused")
        /\ UNCHANGED <<live, orphans, pending, arg, tainted>>
    BY <1>3 DEF Restore, locals
  <2>2. ~tainted => ~Traces
    BY <1>0, <2>1, StepMap DEF Inside
  <2>3. CASE marker' = None \/ (UNCHANGED marker /\ (~had[p] \/ marker = None))
    <3>1. ~tainted => ~Leftover'
      BY <1>0, <2>1, <2>3 DEF Progress, DeleteSteps, Leftover
    <3>2. ~tainted => ~Traces'
      BY <1>0, <2>1, <3>1, StepMap
    <3> QED BY <1>0, <2>1, <2>2, <3>2, TrustSame, Refusing
  <2>4. CASE Can("rename") /\ UNCHANGED marker /\ marker # None
    <3>1. Traces'
      BY <1>0, <2>1, <2>4, StepMap DEF Leftover, Inside
    <3>2. Want[p] = None /\ (~tainted => pending' = None)
      BY <1>0, <2>1 DEF Progress, DeleteSteps, Want, Wants
    <3> QED BY <1>0, <2>1, <2>4, <3>1, <3>2, TrustRemain, Refusing
  <2> QED BY <1>3, <2>3, <2>4 DEF Restore
<1>4. CASE Unmark(p)
  <2>1. /\ pc[p] = "unmark" /\ Goto(p, "clean")
        /\ UNCHANGED <<live, orphans, pending, arg, seen, tainted>>
    BY <1>4 DEF Unmark, locals
  <2>2. UNCHANGED <<Phase, Want, Saw, Told>>
    BY <1>0, <2>1, Quiet, Phases DEF Wants, Looks
  <2>3. ~Traces /\ ~Traces'
    BY <1>0, <2>1, StepMap DEF Inside
  <2> QED BY <1>0, <2>1, <2>2, <2>3, TrustSame, Stutter
<1> QED BY <1>1, <1>2, <1>3, <1>4, MapClean DEF Delete

(* A reconciling step keeps the trust, if there is any, and clears traces. *)
LEMMA Tidying ==
  ASSUME NEW p \in Procs,
         UNCHANGED <<live, orphans, Phase, Want, Saw, Told>>,
         Phase[p] = "observed", ~tainted, ~tainted', ~Traces'
  PROVE  Served
<1>1. Sure = TRUE
  BY Zenon DEF Sure
<1>2. Promise!Tidy(p)
  BY <1>1, TrustVouch DEF Promise!Tidy, Promise!report, Promise!Vouch
<1> QED BY <1>2, Serves DEF Promise!Serve

(* A step to a report.                                                     *)
LEMMA Reporting ==
  ASSUME OwnInv, tainted \in BOOLEAN, NEW p \in Procs, Goto(p, "report"),
         pc[p] \in {"resolve", "forget"}, journal' \in Specs \cup {None},
         UNCHANGED <<live, orphans, arg, seen, tainted>>,
         ~tainted =>
           \/ TableOf(journal') = live /\ ~Leftover'
           \/ /\ TableOf(journal') = live \/ Can("rename")
              /\ Can("unlink") \/ Can("rename")
              /\ Leftover /\ Leftover' /\ UNCHANGED pending
  PROVE  Served
<1>1. Phase[p] = "observed" /\ Phase' = [Phase EXCEPT ![p] = "report"]
  BY StepMap, Phases DEF Replies
<1>2. UNCHANGED <<Want, Saw>>
  BY StepMap DEF Wants, Looks
<1>3. Told' = [Told EXCEPT ![p] = journal']
  BY StepMap
<1>4. (Traces' <=> Leftover') /\ (Traces <=> Leftover)
  BY StepMap DEF Inside
<1>5. Shown[journal'] = TableOf(journal')
  BY DEF Shown, Files
<1>6. CASE tainted
  <2>1. ~Sure /\ UNCHANGED <<Sure, Dirty, Half>>
    BY <1>6, TrustLost
  <2> QED
    BY <1>1, <1>2, <1>3, <2>1, Serves
       DEF Promise!Serve, Promise!Report, Promise!Enter, Promise!trust
<1>7. CASE ~tainted /\ TableOf(journal') = live /\ ~Leftover'
  <2>1. Sure /\ Promise!Vouch
    BY <1>4, <1>7, TrustVouch, Zenon DEF Sure
  <2> QED
    BY <1>1, <1>2, <1>3, <1>5, <1>7, <2>1, Serves
       DEF Promise!Serve, Promise!Report, Promise!Enter
<1>8. CASE /\ ~tainted
           /\ TableOf(journal') = live \/ Can("rename")
           /\ Can("unlink") \/ Can("rename")
           /\ Leftover /\ Leftover' /\ UNCHANGED pending
  <2>1. UNCHANGED <<Sure, Dirty, Half>> /\ Dirty
    <3>1. Dirty
      BY <1>4, <1>8, Zenon DEF Dirty
    <3> QED BY <1>4, <1>8, <3>1, TrustSame
  <2>2. (Dirty' => ~Can("rename")) => Shown[journal'] = live
    BY <1>5, <1>8, <2>1
  <2> QED
    BY <1>1, <1>2, <1>3, <1>8, <2>1, <2>2, Serves
       DEF Promise!Serve, Promise!Report, Promise!Enter, Promise!trust,
           Promise!Can, Can
<1> QED BY <1>6, <1>7, <1>8

LEMMA MapList ==
  ASSUME ClearInv, NEW p \in Procs, List(p)
  PROVE  Served
<1>0. OwnInv /\ TypeOK
  BY DEF ClearInv, RecoverInv, OwnInv
<1>1. pc[p] = "list" /\ UNCHANGED <<live, orphans, pending, marker, arg>>
  BY DEF List, files
<1>2. CASE Goto(p, "refused") /\ UNCHANGED tainted
  <2>1. Traces' <=> Traces
    BY <1>0, <1>1, <1>2, StepMap DEF Inside, Leftover
  <2> QED BY <1>0, <1>1, <1>2, <2>1, TrustSame, Refusing DEF TypeOK
<1>3. CASE Goto(p, "reconcile")
  <2>1. /\ Phase[p] = "observe" /\ Phase' = [Phase EXCEPT ![p] = "observed"]
        /\ UNCHANGED <<Want, Told>> /\ Saw' = [Saw EXCEPT ![p] = seen'[p]]
        /\ Traces' <=> Traces
    BY <1>0, <1>1, <1>3, StepMap, Phases DEF Wants, Looks, Inside, Leftover
  <2>2. CASE seen'[p] = live /\ UNCHANGED tainted
    <3>1. UNCHANGED <<Sure, Dirty, Half>>
      BY <1>0, <1>1, <2>1, <2>2, TrustSame DEF TypeOK
    <3> QED
      BY <1>1, <2>1, <2>2, <3>1, Serves
         DEF Promise!Serve, Promise!Look, Promise!Enter, Promise!trust
  <2>3. CASE Can("absent") /\ seen'[p] = None /\ tainted' = TRUE
             /\ live # None
    <3>1. Promise!Overlook
      BY <2>3, TrustDistrust DEF Promise!Overlook, Promise!Can, Can
    <3> QED
      BY <1>1, <2>1, <2>3, <3>1, Serves
         DEF Promise!Serve, Promise!Look, Promise!Enter
  <2>4. CASE Can("absent") /\ seen' = [seen EXCEPT ![p] = None]
             /\ tainted' = (tainted \/ live # None)
    <3>1. seen'[p] = None
      BY <1>0, <2>4 DEF TypeOK
    <3>2. CASE live = None
      <4>1. tainted' = tainted
        BY <1>0, <2>4, <3>2, Zenon DEF TypeOK
      <4> QED BY <2>2, <3>1, <3>2, <4>1
    <3>3. CASE live # None
      <4>1. tainted' = TRUE
        BY <2>4, <3>3, Zenon
      <4> QED BY <2>3, <2>4, <3>1, <3>3, <4>1
    <3> QED BY <3>2, <3>3
  <2>5. CASE seen' = [seen EXCEPT ![p] = live] /\ UNCHANGED tainted
    BY <1>0, <2>2, <2>5 DEF TypeOK
  <2>6. ~Goto(p, "refused")
    BY <1>0, <1>3 DEF TypeOK, Goto
  <2> QED BY <2>4, <2>5, <2>6, Zenon DEF List
<1> QED BY <1>2, <1>3, Zenon DEF List

LEMMA MapReconcile ==
  ASSUME ClearInv, NEW p \in Procs, Reconcile(p)
  PROVE  Served
<1>0. /\ OwnInv /\ tainted \in BOOLEAN /\ Recoverable
      /\ ~tainted => Progress(p)
  BY DEF ClearInv, RecoverInv, OwnInv, TypeOK
<1>1. /\ pc[p] = "reconcile"
      /\ UNCHANGED <<live, orphans, marker, arg, seen>>
  BY DEF Reconcile, locals
<1>2. CASE /\ Can("rename") /\ Goto(p, "refused")
           /\ UNCHANGED <<pending, tainted>>
  <2>1. Traces' <=> Traces
    BY <1>0, <1>1, <1>2, StepMap DEF Inside, Leftover
  <2> QED BY <1>0, <1>1, <1>2, <2>1, TrustSame, Refusing
<1>3. CASE /\ Goto(p, "resolve") /\ pending' \in {None, pending}
           /\ \/ PendingMatches(p) /\ pending' = None /\ UNCHANGED tainted
              \/ ~PendingMatches(p) /\ tainted' = (tainted \/ Misread)
  <2>1. UNCHANGED <<Phase, Want, Saw, Told>> /\ Phase[p] = "observed"
    BY <1>0, <1>1, <1>3, Quiet, StepMap, Phases DEF Wants, Looks
  <2>2. (Traces <=> Leftover) /\ (Traces' <=> Leftover')
    BY <1>0, <1>1, <1>3, StepMap DEF Inside
  <2>3. CASE tainted
    <3>1. tainted'
      BY <1>3, <2>3, Zenon
    <3> QED BY <1>1, <2>1, <2>3, <3>1, TrustLost, Stutter
  <2>4. CASE ~tainted /\ ~PendingMatches(p) /\ Misread
    <3>1. tainted'
      BY <1>3, <2>4, Zenon
    <3>2. /\ Traces /\ Half = pending
          /\ pending # None /\ Shown[pending] # pending
      BY <1>0, <1>1, <2>2, <2>4
         DEF Misread, PendingMatches, Progress, Half, Shown, Leftover, OwnInv,
             TypeOK
    <3>3. Dirty
      BY <3>2, Zenon DEF Dirty
    <3>4. Promise!Lose(p)
      BY <1>1, <2>1, <3>1, <3>2, <3>3, TrustDistrust
         DEF Promise!Lose, Promise!report
    <3> QED BY <3>4, Serves DEF Promise!Serve
  <2>5. CASE ~tainted /\ ~(~PendingMatches(p) /\ Misread)
    <3>1. ~tainted'
      BY <1>3, <2>5, Zenon
    <3>2. CASE UNCHANGED pending
      <4>1. Traces' <=> Traces
        BY <1>1, <2>2, <3>2 DEF Leftover
      <4> QED BY <1>1, <2>1, <2>5, <3>1, <3>2, <4>1, TrustKept, Stutter
    <3>3. CASE pending # None /\ pending' = None
      <4>1. marker = None
        BY <1>0, <2>5, <3>3 DEF Recoverable, Tells
      <4>2. ~Traces'
        BY <1>1, <2>2, <3>3, <4>1 DEF Leftover
      <4> QED BY <1>1, <2>1, <2>5, <3>1, <4>2, Tidying
    <3> QED BY <1>3, <3>2, <3>3
  <2> QED BY <2>3, <2>4, <2>5
<1>4. \/ /\ Goto(p, "resolve") /\ pending' \in {None, pending}
         /\ \/ PendingMatches(p) /\ pending' = None /\ UNCHANGED tainted
            \/ ~PendingMatches(p) /\ tainted' = (tainted \/ Misread)
      \/ /\ Can("rename") /\ Goto(p, "refused")
         /\ UNCHANGED <<pending, tainted>>
  <2>1. pending' = None \/ UNCHANGED pending => pending' \in {None, pending}
    OBVIOUS
  <2> QED BY <2>1, Zenon DEF Reconcile
<1> QED BY <1>2, <1>3, <1>4, Zenon

LEMMA MapResolve ==
  ASSUME ClearInv, NEW p \in Procs, Resolve(p)
  PROVE  Served
<1>0. /\ OwnInv /\ TypeOK /\ Recoverable /\ Cleared(p)
      /\ ~tainted => Progress(p)
  BY DEF ClearInv, RecoverInv, OwnInv
<1>1. /\ pc[p] = "resolve"
      /\ UNCHANGED <<live, orphans, pending, arg, seen, tainted>>
  BY DEF Resolve, locals
<1>2. ~tainted /\ marker # None =>
        journal = None /\ pending = None /\ live \in {None, TableOf(marker)}
  BY <1>0 DEF Recoverable, Tells
<1>3. CASE /\ marker = None /\ Goto(p, "report")
           /\ UNCHANGED <<marker, journal>>
  <2>1. pending = None \/ Can("unlink")
    BY <1>0, <1>1 DEF Cleared
  <2>2. ~tainted => TableOf(journal') = live
    BY <1>0, <1>1, <1>3 DEF Cleared
  <2> QED
    BY <1>0, <1>1, <1>3, <2>1, <2>2, Reporting DEF TypeOK, Files, Leftover
<1>4. CASE /\ marker # None /\ seen[p] = None /\ Goto(p, "forget")
           /\ marker' = None \/ UNCHANGED marker
  <2>1. UNCHANGED <<Phase, Want, Saw, Told>> /\ Phase[p] = "observed"
    BY <1>0, <1>1, <1>4, Quiet, StepMap, Phases DEF Wants, Looks
  <2>2. (Traces <=> Leftover) /\ (Traces' <=> Leftover')
    BY <1>0, <1>1, <1>4, StepMap DEF Inside
  <2>3. CASE tainted
    BY <1>1, <2>1, <2>3, TrustLost, Stutter
  <2>4. CASE ~tainted /\ marker' = None
    <3>1. ~Traces'
      BY <1>1, <1>2, <1>4, <2>2, <2>4 DEF Leftover
    <3> QED BY <1>1, <2>1, <2>4, <3>1, Tidying
  <2>5. CASE ~tainted /\ UNCHANGED marker
    <3>1. Traces' <=> Traces
      BY <1>1, <2>2, <2>5 DEF Leftover
    <3> QED BY <1>1, <2>1, <2>5, <3>1, TrustKept, Stutter
  <2> QED BY <1>4, <2>3, <2>4, <2>5
<1>5. CASE /\ marker # None /\ seen[p] # None /\ Goto(p, "report")
           /\ \/ journal' = marker /\ marker' = None
              \/ Can("rename") /\ UNCHANGED <<marker, journal>>
  <2>1. ~tainted => live = TableOf(marker)
    BY <1>0, <1>1, <1>2, <1>5 DEF Progress
  <2>2. ~tainted =>
          \/ TableOf(journal') = live /\ ~Leftover'
          \/ Can("rename") /\ Leftover /\ Leftover' /\ UNCHANGED pending
    BY <1>1, <1>2, <1>5, <2>1 DEF Leftover
  <2>3. journal' \in Specs \cup {None}
    BY <1>0, <1>5 DEF TypeOK, Files
  <2> QED BY <1>0, <1>1, <1>5, <2>2, <2>3, Reporting DEF TypeOK
<1> QED BY <1>3, <1>4, <1>5 DEF Resolve

LEMMA MapForget ==
  ASSUME ClearInv, NEW p \in Procs, Forget(p)
  PROVE  Served
<1>0. OwnInv /\ TypeOK /\ Cleared(p) /\ (~tainted => Progress(p))
  BY DEF ClearInv, RecoverInv, OwnInv
<1>1. /\ pc[p] = "forget" /\ Goto(p, "report")
      /\ journal' = None \/ UNCHANGED journal
      /\ UNCHANGED <<live, orphans, pending, marker, arg, seen, tainted>>
  BY DEF Forget, locals
<1>2. ~tainted => TableOf(journal') = live
  BY <1>0, <1>1 DEF Progress, TableOf
<1>3. Leftover => Can("unlink")
  BY <1>0, <1>1 DEF Cleared, Leftover
<1>4. Leftover' <=> Leftover
  BY <1>1 DEF Leftover
<1>5. journal' \in Specs \cup {None}
  BY <1>0, <1>1 DEF TypeOK, Files
<1> QED BY <1>0, <1>1, <1>2, <1>3, <1>4, <1>5, Reporting DEF TypeOK

LEMMA MapBegin ==
  ASSUME OwnInv, NEW p \in Procs, Begin(p)
  PROVE  Served
<1>0. TypeOK
  BY DEF OwnInv
<1>1. \A q \in Procs : pc[q] = "idle"
  BY ConstantsAssumption DEF Begin, LockFree, OwnInv, Own
<1>2. UNCHANGED <<live, orphans, pending, marker, tainted>>
  BY DEF Begin, files
<1>3. PICK step \in {"pend", "mark", "list"} :
        Goto(p, step) /\ (step # "pend" => UNCHANGED arg)
  BY DEF Begin
<1>4. /\ \A q \in Procs : pc'[q] = IF q = p THEN step ELSE "idle"
      /\ pc' \in [Procs -> Steps \cup {"idle", step}]
  BY <1>0, <1>1, <1>3 DEF TypeOK, Goto
<1>5. Phase' = [Phase EXCEPT ![p] = PhaseOf(step)]
  BY <1>1, <1>4 DEF Phase
<1>6. \A q \in Procs : Phase[q] = "idle"
  BY <1>1, Phases DEF Phase
<1>7. UNCHANGED <<Saw, Told>>
  BY <1>1, <1>4 DEF Saw, Told, Looks
<1>8. Traces' <=> Traces
  BY <1>1, <1>2, <1>4 DEF Traces, Inside, Leftover
<1>9. UNCHANGED <<Sure, Dirty, Half>>
  BY <1>0, <1>2, <1>8, TrustSame DEF TypeOK
<1>10. CASE step = "pend"
  <2>1. PICK s \in Specs : arg' = [arg EXCEPT ![p] = s]
    BY <1>3, <1>10, <1>0 DEF Begin, TypeOK, Goto
  <2>2. Want' = [Want EXCEPT ![p] = s]
    BY <1>0, <1>1, <1>4, <1>10, <2>1 DEF Want, Wants, TypeOK
  <2>3. PhaseOf(step) = "install"
    BY <1>10, Phases
  <2>4. Promise!Ask(p)
    BY <1>2, <1>5, <1>6, <1>7, <1>9, <2>2, <2>3
       DEF Promise!Ask, Promise!Enter, Promise!trust, Promise!report
  <2> QED BY <2>4, Zenon DEF Served, Promise!Next
<1>11. CASE step # "pend"
  <2>1. UNCHANGED Want
    BY <1>1, <1>4, <1>11 DEF Want, Wants
  <2>2. PhaseOf(step) \in {"remove", "observe"}
    BY <1>11, Phases
  <2>3. Promise!Ask(p)
    BY <1>2, <1>5, <1>6, <1>7, <1>9, <2>1, <2>2
       DEF Promise!Ask, Promise!Enter, Promise!trust, Promise!report
  <2> QED BY <2>3, Zenon DEF Served, Promise!Next
<1> QED BY <1>10, <1>11

(* What an applier that is gone leaves of its client's operation.          *)
LEMMA MapVanish ==
  ASSUME OwnInv, NEW p \in Procs, pc[p] # "idle", Vanish(p)
  PROVE  /\ Phase' = [Phase EXCEPT ![p] = "idle"]
         /\ Want' = [Want EXCEPT ![p] = None]
         /\ Saw' = [Saw EXCEPT ![p] = None]
         /\ Told' = [Told EXCEPT ![p] = None]
         /\ Traces' <=> Leftover'
         /\ Traces <=> Leftover /\ pc[p] \notin Inside
<1>1. \A q \in Procs : (q # p => pc[q] = "idle") /\ pc'[q] = "idle"
  BY OthersIdle DEF OwnInv, TypeOK, Vanish
<1>2. Phase' = [Phase EXCEPT ![p] = "idle"]
  BY <1>1, Phases DEF Phase
<1>3. Want' = [Want EXCEPT ![p] = None]
  BY <1>1 DEF Want, Wants
<1>4. Saw' = [Saw EXCEPT ![p] = None] /\ Told' = [Told EXCEPT ![p] = None]
  BY <1>1 DEF Saw, Told, Looks
<1>5. (Traces' <=> Leftover') /\ (Traces <=> Leftover /\ pc[p] \notin Inside)
  BY <1>1 DEF Traces, Inside
<1> QED BY <1>2, <1>3, <1>4, <1>5

LEMMA MapExit ==
  ASSUME OwnInv, NEW p \in Procs, Exit(p)
  PROVE  Served
<1>0. TypeOK
  BY DEF OwnInv
<1>1. /\ pc[p] \in Replies /\ Vanish(p)
      /\ UNCHANGED <<live, orphans, pending, marker, tainted>>
  BY DEF Exit, files
<1>2. pc[p] # "idle" /\ pc[p] \notin Inside
  BY <1>1 DEF Replies, Inside
<1>3. Traces' <=> Traces
  BY <1>0, <1>1, <1>2, MapVanish DEF Leftover
<1>4. UNCHANGED <<Sure, Dirty, Half>>
  BY <1>0, <1>1, <1>3, TrustSame DEF TypeOK
<1>5. Phase[p] \in Replies
  BY <1>1, Phases DEF Phase
<1>6. Promise!Leave(p)
  BY <1>0, <1>1, <1>2, <1>4, <1>5, MapVanish
     DEF Promise!Leave, Promise!Enter, Promise!Forgotten, Promise!trust,
         Replies, Promise!Replies
<1> QED BY <1>6, Zenon DEF Served, Promise!Next

LEMMA MapKill ==
  ASSUME ClearInv, NEW p \in Procs, Kill(p)
  PROVE  Served
<1>0. OwnInv /\ TypeOK /\ Own(p) /\ (~tainted => Progress(p))
  BY DEF ClearInv, RecoverInv, OwnInv
<1>1. /\ pc[p] # "idle" /\ Vanish(p)
      /\ UNCHANGED <<live, pending, marker, tainted>>
  BY DEF Kill, files
<1>2. (Traces' <=> Leftover) /\ (Traces <=> Leftover /\ pc[p] \notin Inside)
  BY <1>0, <1>1, MapVanish DEF Leftover
<1>3. Dirty' \in {Dirty, TRUE} /\ UNCHANGED Sure
  <2>1. CASE tainted
    BY <1>1, <2>1, TrustLost
  <2>2. CASE ~tainted /\ Leftover
    BY <1>1, <1>2, <2>2, Zenon DEF Dirty, Sure
  <2>3. CASE ~tainted /\ ~Leftover
    BY <1>1, <1>2, <2>3, Zenon DEF Dirty, Sure
  <2> QED BY <2>1, <2>2, <2>3
<1>4. Half' \in {Half} \cup (IF Sure /\ Dirty' THEN {Want[p]} ELSE {})
  <2>1. CASE tainted
    BY <1>1, <2>1, TrustLost
  <2>2. CASE ~tainted /\ pc[p] \notin Inside
    BY <1>1, <1>2, <2>2 DEF Half
  <2>3. CASE ~tainted /\ pc[p] \in Inside /\ pending = None
    BY <1>1, <1>2, <2>3 DEF Half
  <2>4. CASE ~tainted /\ pc[p] \in Inside /\ pending # None
    <3>1. pc[p] \in {"nftf", "unpend", "commit"}
      BY <1>0, <2>4 DEF Progress, Inside, DeleteSteps
    <3>2. Want[p] = pending
      BY <1>0, <3>1 DEF Own, Want, Wants
    <3>3. Sure /\ Dirty' /\ Half' = pending
      <4>1. Traces' /\ ~tainted'
        BY <1>1, <1>2, <2>4 DEF Leftover
      <4> QED BY <1>1, <2>4, <4>1 DEF Sure, Dirty, Half
    <3> QED BY <3>2, <3>3
  <2> QED BY <2>1, <2>2, <2>3, <2>4
<1>5. orphans' \in {orphans} \cup (IF Can("orphan")
                                   THEN {orphans \cup Promise!Pending(p)}
                                   ELSE {})
  <2>1. CASE UNCHANGED orphans
    BY <2>1
  <2>2. CASE /\ Can("orphan") /\ pc[p] = "nftf"
             /\ orphans' = orphans \cup {TableOf(arg[p])}
    <3>1. Phase[p] = "install" /\ Shown[Want[p]] = TableOf(arg[p])
      BY <1>0, <2>2, Phases DEF Phase, Want, Wants, Shown, TypeOK
    <3> QED BY <2>2, <3>1 DEF Promise!Pending
  <2>3. CASE /\ Can("orphan") /\ pc[p] = "nftd"
             /\ orphans' = orphans \cup {None}
    <3>1. Phase[p] = "remove"
      BY <2>3, Phases DEF Phase
    <3> QED BY <2>3, <3>1 DEF Promise!Pending
  <2> QED BY <2>1, <2>2, <2>3 DEF Kill
<1>6. Phase[p] # "idle"
  BY <1>0, <1>1, Phases
     DEF Phase, TypeOK, Steps, ReplaceSteps, DeleteSteps, InspectSteps, Replies
<1>7. Promise!Die(p)
  BY <1>0, <1>1, <1>3, <1>4, <1>5, <1>6, MapVanish
     DEF Promise!Die, Promise!Enter, Promise!Forgotten, Kill, Promise!Can, Can
<1> QED BY <1>7, Zenon DEF Served, Promise!Next

LEMMA MapReboot == ASSUME Reboot PROVE Served
<1>1. Phase' = [c \in Procs |-> "idle"]
  BY Phases DEF Reboot, Phase
<1>2. Want' = [c \in Procs |-> None]
  BY DEF Reboot, Want, Wants
<1>3. Saw' = [c \in Procs |-> None] /\ Told' = [c \in Procs |-> None]
  BY DEF Reboot, Saw, Told, Looks
<1>4. ~Traces' /\ ~tainted' /\ live' = None /\ orphans' = {}
  BY DEF Reboot, Traces, Leftover
<1>5. Promise!Restart
  BY <1>1, <1>2, <1>3, <1>4, TrustVouch
     DEF Promise!Restart, Promise!Vouch, Reboot, Promise!Can, Can
<1> QED BY <1>5, Zenon DEF Served, Promise!Next

(* Somebody else changes the table.                                        *)
LEMMA MapOutside == ASSUME OwnInv, Orphan \/ Flush PROVE Served
<1>0. tainted \in BOOLEAN
  BY DEF OwnInv, TypeOK
<1>1. /\ UNCHANGED <<pending, marker, journal, pc, arg, seen>>
      /\ tainted' = (tainted \/ live' # live)
  <2>1. CASE Orphan
    BY <2>1 DEF Orphan, files, locals
  <2>2. CASE Flush
    <3>1. (live' # live) <=> (live # None)
      BY <2>2 DEF Flush
    <3> QED BY <2>2, <3>1, Zenon DEF Flush, files, locals
  <2> QED BY <2>1, <2>2
<1>2. UNCHANGED <<Phase, Want, Saw, Told>> /\ (Traces' <=> Traces)
  BY <1>1 DEF Phase, Want, Saw, Told, Traces, Leftover
<1>3. live' = live => UNCHANGED <<Sure, Dirty, Half>>
  <2>1. ASSUME live' = live PROVE UNCHANGED tainted
    BY <1>0, <1>1, <2>1, Zenon
  <2> QED BY <1>0, <1>1, <1>2, <2>1, TrustSame
<1>4. live' # live => Promise!Distrust
  <2>1. ASSUME live' # live PROVE tainted'
    BY <1>1, <2>1, Zenon
  <2> QED BY <2>1, TrustDistrust
<1>5. CASE Orphan
  <2>1. Promise!Late
    BY <1>2, <1>3, <1>4, <1>5
       DEF Orphan, Promise!Late, Promise!trust, Promise!report
  <2> QED BY <2>1, Zenon DEF Served, Promise!Next
<1>6. CASE Flush /\ live # None
  <2>1. Promise!Flush
    BY <1>2, <1>4, <1>6
       DEF Flush, Promise!Flush, Promise!report, Promise!Can, Can
  <2> QED BY <2>1, Zenon DEF Served, Promise!Next
<1>7. CASE Flush /\ live = None
  BY <1>2, <1>3, <1>7, Stutter DEF Flush
<1> QED BY <1>5, <1>6, <1>7

LEMMA MapStep == ASSUME ClearInv, [Next]_vars PROVE Served
<1>0. OwnInv
  BY DEF ClearInv, RecoverInv
<1>1. CASE UNCHANGED vars
  <2>1. Phase' = Phase /\ Want' = Want /\ Saw' = Saw /\ Told' = Told
    BY <1>1 DEF vars, Phase, Want, Saw, Told
  <2>2. Traces' <=> Traces
    BY <1>1 DEF vars, Traces, Leftover
  <2>3. UNCHANGED <<Sure, Dirty, Half>>
    BY <1>0, <1>1, <2>2, TrustSame DEF vars, OwnInv, TypeOK
  <2> QED BY <1>1, <2>1, <2>3, Stutter DEF vars
<1>2. ASSUME NEW p \in Procs, Inspect(p) PROVE Served
  BY <1>2, MapList, MapReconcile, MapResolve, MapForget DEF Inspect
<1> QED
  BY <1>0, <1>1, <1>2, MapReplace, MapDelete, MapBegin, MapExit, MapKill,
     MapReboot, MapOutside DEF Next, Operate

LEMMA MapInitially == Init => Promise!Init
<1> SUFFICES ASSUME Init PROVE Promise!Init
  OBVIOUS
<1>1. Phase = [c \in Procs |-> "idle"]
  BY Phases DEF Init, Phase
<1>2. Want = [c \in Procs |-> None]
  BY DEF Init, Want, Wants
<1>3. Saw = [c \in Procs |-> None] /\ Told = [c \in Procs |-> None]
  BY DEF Init, Saw, Told, Looks
<1>4. ~Traces /\ ~tainted /\ live = None /\ orphans = {}
  BY DEF Init, Traces, Leftover
<1>5. Sure = TRUE /\ Dirty = FALSE /\ Half = None
  BY <1>4, Zenon DEF Sure, Dirty, Half
<1> QED BY <1>1, <1>2, <1>3, <1>4, <1>5 DEF Promise!Init

(* Every run of the applier is a run of Firewall with the same hazards: an *)
(* operation takes effect at most once, replies are true, a refused one    *)
(* did nothing, an Inspect never reports a wrong ruleset unless the ledger *)
(* was lost, and each exception needs the hazard that Firewall names.      *)
THEOREM ImplementsHolds == Spec => Implements
<1>1. ClearInv /\ [Next]_vars => Served
  BY MapStep
<1> QED
  BY MapInitially, ClearAlways, <1>1, PTL
     DEF Spec, Implements, Promise!Spec, Served
=============================================================================
