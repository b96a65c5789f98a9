----------------------------- MODULE MCApplier -----------------------------
(* Instances of Applier for TLC: two appliers, two rulesets, a third one   *)
(* that nft lists back as the first, because its addresses are not sorted, *)
(* and the empty one.  Nothing else needs a bound: every variable ranges   *)
(* over a finite set.                                                      *)
EXTENDS Applier, TLC

CONSTANTS a1, a2, ams, fra, sma

AsListed == [s \in Specs \ {Empty} |-> IF s = sma THEN ams ELSE s]

Symmetry == Permutations({a1, a2})
=============================================================================
