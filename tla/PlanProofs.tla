----------------------------- MODULE PlanProofs -----------------------------
(***************************************************************************)
(* Lemmas about the operators of Plan, for every set of codes, regions and *)
(* relay lists, for the proofs about Session, Cli and Boot.                *)
(***************************************************************************)
EXTENDS Plan, FiniteSetsExt, WellFoundedInduction, TLAPS

(* A built ruleset has only known codes, each with a nonempty list: the    *)
(* NoIps rejection of Operation::validate cannot happen to it. *)
LEMMA BuildIsRuleset ==
  ASSUME NEW d, NEW f \in Feeds
  PROVE  Build(d, f) \in Rulesets
<1>1. PICK s \in SUBSET Codes : f \in [s -> Lists \cup {NoRelays}]
  BY DEF Feeds
<1>2. DOMAIN f = s /\ \A c \in s : f[c] \in Lists \cup {NoRelays}
  BY <1>1
<1> DEFINE dom == d \cap Blockable(f)
<1>3. dom \in SUBSET Codes /\ \A c \in dom : f[c] \in Lists
  BY <1>2 DEF Blockable
<1>4. Build(d, f) \in [dom -> Lists]
  BY <1>3 DEF Build
<1> QED
  BY <1>3, <1>4 DEF Rulesets

(* Rulesets are functions of their domains. *)
LEMMA RulesetIsFunction ==
  ASSUME NEW r \in Rulesets
  PROVE  r = [c \in DOMAIN r |-> r[c]]
BY DEF Rulesets

LEMMA NoPopsIsRuleset == NoPops \in Rulesets /\ DOMAIN NoPops = {}
<1>1. NoPops \in [{} -> Lists]
  BY DEF NoPops
<1> QED
  BY <1>1 DEF Rulesets, NoPops

(* PlanDiff::compute is complete: carrying out the diff of any two         *)
(* rulesets leads from the one to the other. *)
LEMMA PatchedIsTarget ==
  ASSUME NEW t \in Rulesets, NEW a \in Rulesets \cup {None}
  PROVE  Patched(a, Diff(t, a), t) = t
<1> DEFINE old == IF a = None THEN NoPops ELSE a
           dom == (DOMAIN old \ (DOMAIN old \ DOMAIN t))
                    \cup (DOMAIN t \ DOMAIN old)
<1>1. dom = DOMAIN t
  OBVIOUS
<1>2. Patched(a, Diff(t, a), t) =
        [c \in dom |->
           IF c \in (DOMAIN t \ DOMAIN old)
                      \cup {e \in DOMAIN t \cap DOMAIN old : old[e] # t[e]}
           THEN t[c] ELSE old[c]]
  BY DEF Patched, Diff
<1>3. \A c \in dom :
        (IF c \in (DOMAIN t \ DOMAIN old)
                    \cup {e \in DOMAIN t \cap DOMAIN old : old[e] # t[e]}
         THEN t[c] ELSE old[c]) = t[c]
  BY <1>1
<1>4. Patched(a, Diff(t, a), t) = [c \in DOMAIN t |-> t[c]]
  BY <1>1, <1>2, <1>3
<1> QED
  BY <1>4, RulesetIsFunction

(* "nothing to do" exactly when the journal already has the target. *)
LEMMA EmptyDiffIsEqual ==
  ASSUME NEW t \in Rulesets, NEW a \in Rulesets \cup {None}
  PROVE  IsEmptyDiff(Diff(t, a)) <=> t = (IF a = None THEN NoPops ELSE a)
<1> DEFINE old == IF a = None THEN NoPops ELSE a
<1>1. old \in Rulesets
  BY NoPopsIsRuleset
<1>2. IsEmptyDiff(Diff(t, a)) <=>
        /\ DOMAIN t = DOMAIN old
        /\ \A c \in DOMAIN t \cap DOMAIN old : old[c] = t[c]
  BY DEF IsEmptyDiff, Diff
<1>3. CASE /\ DOMAIN t = DOMAIN old
           /\ \A c \in DOMAIN t \cap DOMAIN old : old[c] = t[c]
  <2>1. [c \in DOMAIN t |-> t[c]] = [c \in DOMAIN old |-> old[c]]
    BY <1>3
  <2>2. t = old
    BY <2>1, <1>1, RulesetIsFunction
  <2> QED
    BY <1>2, <1>3, <2>2
<1>4. CASE ~(/\ DOMAIN t = DOMAIN old
             /\ \A c \in DOMAIN t \cap DOMAIN old : old[c] = t[c])
  BY <1>2, <1>4
<1> QED
  BY <1>3, <1>4

(* Feeds and selectors stay within the codes.                              *)
LEMMA BlockableIsCodes ==
  ASSUME NEW f \in Feeds
  PROVE  Blockable(f) \subseteq Codes
BY DEF Feeds, Blockable

LEMMA SelectedIsBlockable ==
  ASSUME NEW f, NEW inputs
  PROVE  Selected(inputs, f) \subseteq Blockable(f)
BY DEF Selected, Expand

(* The newest revision: Max picks a largest member of a finite range.      *)
LEMMA MaxIsLargest ==
  ASSUME NEW n \in Nat, NEW S \in SUBSET (1 .. n), S # {}
  PROVE  Max(S) \in S /\ \A y \in S : Max(S) >= y
<1> DEFINE gaps == {n - x : x \in S}
<1>1. gaps \subseteq Nat /\ gaps # {}
  <2>1. \A x \in S : x \in Nat /\ n - x \in Nat
    OBVIOUS
  <2> QED BY <2>1
<1>2. PICK g \in gaps : \A h \in gaps : ~(<<h, g>> \in OpToRel(<, Nat))
  BY <1>1, WFMin, NatLessThanWellFounded, Zenon
<1>3. \A h \in gaps : ~(h < g)
  BY <1>1, <1>2, Zenon DEF OpToRel
<1>4. PICK x \in S : g = n - x
  OBVIOUS
<1>5. \A y \in S : x >= y
  BY <1>3, <1>4
<1> QED BY <1>5 DEF Max
=============================================================================
