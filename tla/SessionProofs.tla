--------------------------- MODULE SessionProofs ---------------------------
(***************************************************************************)
(* Proofs about Session, for every set of codes, regions and relay lists:  *)
(* the plan shown is the change made, and no sequence of edits, feeds and  *)
(* applies leads to a ruleset the applier would refuse.                    *)
(***************************************************************************)
EXTENDS Session, PlanProofs

----------------------------------------------------------------------------
(* Desired state and journal stay within the feed's codes, and every       *)
(* ruleset ever applied is one that the applier admits. *)
THEOREM SessionTypeCorrect == Spec => []TypeOK
<1>1. Init => TypeOK
  BY DEF Init, TypeOK
<1>2. TypeOK /\ [Next]_session => TypeOK'
  <2> SUFFICES ASSUME TypeOK, [Next]_session PROVE TypeOK'
    OBVIOUS
  <2> USE DEF TypeOK
  <2>0. /\ Blockable(feed) \subseteq Codes
        /\ \A inputs : Selected(inputs, feed) \subseteq Codes
    BY BlockableIsCodes, SelectedIsBlockable
  <2>1. ASSUME NEW inputs \in Commands, BlockCmd(inputs) PROVE TypeOK'
    BY <2>0, <2>1 DEF BlockCmd, Block, Edit
  <2>2. ASSUME NEW inputs \in Commands, UnblockCmd(inputs) PROVE TypeOK'
    BY <2>2 DEF UnblockCmd, Unblock, Edit
  <2>3. ASSUME NEW inputs \in Commands, AllowCmd(inputs) PROVE TypeOK'
    BY <2>0, <2>3 DEF AllowCmd, Allow, Edit
  <2>4. CASE ResetCmd
    BY <2>4 DEF ResetCmd, Reset, Edit
  <2>5. CASE PresetSave
    BY <2>5 DEF PresetSave
  <2>6. CASE PresetLoad
    BY <2>6 DEF PresetLoad
  <2>7. CASE PresetRm
    BY <2>7 DEF PresetRm
  <2>8. CASE FeedChanges
    BY <2>8 DEF FeedChanges
  <2>9. CASE ApplyCmd
    BY <2>9, BuildIsRuleset DEF ApplyCmd
  <2>10. CASE TeardownCmd
    BY <2>10 DEF TeardownCmd
  <2>11. CASE UNCHANGED session
    BY <2>11 DEF session
  <2> QED
    BY <2>1, <2>2, <2>3, <2>4, <2>5, <2>6, <2>7, <2>8, <2>9, <2>10, <2>11
    DEF Next
<1> QED
  BY <1>1, <1>2, PTL DEF Spec

(* Whatever the feed became since the last apply, the diff a user confirms *)
(* is the change that is made, and an empty one means equality. *)
THEOREM PlanIsTheChangeHolds == Spec => []PlanIsTheChange
<1>1. TypeOK => PlanIsTheChange
  BY BuildIsRuleset, PatchedIsTarget, EmptyDiffIsEqual
  DEF TypeOK, PlanIsTheChange
<1> QED
  BY <1>1, SessionTypeCorrect, PTL

(* After an allow exactly the unselected blockable POPs are blocked. *)
THEOREM AllowIsExclusiveHolds == Spec => AllowIsExclusive
<1>1. [Next]_session => [\A inputs \in Commands :
        AllowCmd(inputs) =>
          /\ DOMAIN Build(desired', feed) =
               Blockable(feed) \ Selected(inputs, feed)
          /\ Missing(desired', feed) = {}]_session
  BY DEF AllowCmd, Allow, Edit, Build, Missing
<1> QED
  BY <1>1, PTL DEF Spec, AllowIsExclusive

(* No edit stages a POP that the following apply would leave out. *)
THEOREM EditsStayBlockableHolds == Spec => EditsStayBlockable
<1>1. ASSUME NEW inputs \in Commands, BlockCmd(inputs)
      PROVE  Missing(desired', feed) \subseteq Missing(desired, feed)
  BY <1>1, SelectedIsBlockable DEF BlockCmd, Block, Edit, Missing
<1>2. ASSUME NEW inputs \in Commands, UnblockCmd(inputs)
      PROVE  Missing(desired', feed) \subseteq Missing(desired, feed)
  BY <1>2 DEF UnblockCmd, Unblock, Edit, Missing
<1>3. ASSUME NEW inputs \in Commands, AllowCmd(inputs)
      PROVE  Missing(desired', feed) \subseteq Missing(desired, feed)
  BY <1>3 DEF AllowCmd, Allow, Edit, Missing
<1>4. [Next]_session => [\A inputs \in Commands :
        BlockCmd(inputs) \/ UnblockCmd(inputs) \/ AllowCmd(inputs) =>
          Missing(desired', feed) \subseteq Missing(desired, feed)]_session
  BY <1>1, <1>2, <1>3
<1> QED
  BY <1>4, PTL DEF Spec, EditsStayBlockable
=============================================================================
