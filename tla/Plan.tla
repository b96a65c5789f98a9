-------------------------------- MODULE Plan --------------------------------
(***************************************************************************)
(* The pure part of regionlock-core: selectors, the edits of desired       *)
(* state, the ruleset a config and a feed determine, and the diff of a     *)
(* ruleset against the journal.  No variables: module Session walks        *)
(* through them, and module Cli calls them from concurrent commands.       *)
(*                                                                         *)
(* A feed is a function from POP codes to relay lists, which are only ever *)
(* compared and tested for being empty.  A ruleset is the function from    *)
(* blocked codes to relay lists that the code calls `pops`.                *)
(***************************************************************************)
CONSTANTS Codes,    \* POP codes of every feed
          Regions,  \* region aliases
          Class,    \* Class[r]: the codes the static table puts in region r
          Lists,    \* relay lists, each with at least one address
          NoRelays, \* the empty relay list, or none
          None      \* no journal

ASSUME PlanAssumption ==
  /\ Class \in [Regions -> SUBSET Codes]
  /\ NoRelays \notin Lists

Feeds    == UNION {[s -> Lists \cup {NoRelays}] : s \in SUBSET Codes}
Rulesets == UNION {[s -> Lists] : s \in SUBSET Codes}
NoPops   == [c \in {} |-> NoRelays]

ASSUME NoneAssumption == None \notin Rulesets

----------------------------------------------------------------------------
(* The feed and its selectors.                                             *)

(* Those with at least one relay. *)
Blockable(feed) == {c \in DOMAIN feed : feed[c] # NoRelays}

(* A region alias wins over a POP of that name; anything else is refused. *)
Known(input, feed) == input \in Regions \cup DOMAIN feed

(* Mutated form of Expand: a POP code expands to itself. *)
ExpandUnchecked(input, feed) ==
  IF input \in Regions THEN Blockable(feed) \cap Class[input]
  ELSE {input}

(* parse_selector and expand, for an input that is known. *)
Expand(input, feed) ==
  Blockable(feed) \cap (IF input \in Regions THEN Class[input] ELSE {input})

(* The union over the inputs of one command. *)
Selected(inputs, feed) == UNION {Expand(i, feed) : i \in inputs}

----------------------------------------------------------------------------
(* Desired state: the new blocklist, and what the command says changed.    *)

Edit(before, after) ==
  [blocked |-> after, now_blocked |-> after \ before,
   now_unblocked |-> before \ after]

Block(desired, pops) == Edit(desired, desired \cup pops)

Unblock(desired, pops) == Edit(desired, desired \ pops)

(* Mutated form of Allow: what was blocked before stays blocked. *)
AllowAdds(desired, pops, feed) ==
  Edit(desired, desired \cup (Blockable(feed) \ pops))

(* Exclusive: everything blockable except these. *)
Allow(desired, pops, feed) == Edit(desired, Blockable(feed) \ pops)

Reset(desired) == Edit(desired, {})

----------------------------------------------------------------------------
(* RulesetSpec::build and PlanDiff::compute.                               *)

(* Mutated form of Build: a desired POP that lost its relays is kept. *)
BuildKeepsEmpty(desired, feed) ==
  [c \in desired \cap DOMAIN feed |-> feed[c]]

Build(desired, feed) == [c \in desired \cap Blockable(feed) |-> feed[c]]

Missing(desired, feed) == desired \ Blockable(feed)

(* Mutated form of Diff: relay lists are not compared. *)
DiffByCode(target, applied) ==
  LET old == IF applied = None THEN NoPops ELSE applied
  IN [to_block   |-> DOMAIN target \ DOMAIN old,
      to_unblock |-> DOMAIN old \ DOMAIN target,
      to_update  |-> {},
      unchanged  |-> DOMAIN target \cap DOMAIN old]

(* No journal compares as an empty one. *)
Diff(target, applied) ==
  LET old  == IF applied = None THEN NoPops ELSE applied
      both == DOMAIN target \cap DOMAIN old
  IN [to_block   |-> DOMAIN target \ DOMAIN old,
      to_unblock |-> DOMAIN old \ DOMAIN target,
      to_update  |-> {c \in both : old[c] # target[c]},
      unchanged  |-> {c \in both : old[c] = target[c]}]

IsEmptyDiff(diff) ==
  diff.to_block = {} /\ diff.to_unblock = {} /\ diff.to_update = {}

----------------------------------------------------------------------------
(* What a diff means: the ruleset that carrying it out would leave.        *)
Patched(applied, diff, target) ==
  LET old == IF applied = None THEN NoPops ELSE applied
  IN [c \in (DOMAIN old \ diff.to_unblock) \cup diff.to_block |->
        IF c \in diff.to_block \cup diff.to_update THEN target[c] ELSE old[c]]
=============================================================================
