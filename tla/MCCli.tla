------------------------------- MODULE MCCli -------------------------------
(* Instances of Cli for TLC: two commands at a time, two POPs, and a feed   *)
(* in which a new revision moves the relays of one POP and leaves the other *)
(* none.                                                                    *)
EXTENDS Cli, TLC

CONSTANTS u1, u2, ams, fra, l1, l2

Symmetry == Permutations({u1, u2})

Classes == [r \in Regions |-> {}]

OneRevision == <<(ams :> l1) @@ (fra :> l1)>>
Moving      == <<(ams :> l1) @@ (fra :> l1), (ams :> l2) @@ (fra :> NoRelays)>>

Ask(op, inputs, now, yes) ==
  [op |-> op, inputs |-> inputs, now |-> now, yes |-> yes, offline |-> FALSE]

(* Edits that are applied at once or staged, and the other commands. *)
BlockNow    == Ask("block", {ams, fra}, TRUE, FALSE)
ResetLater  == Ask("reset", {}, FALSE, FALSE)
ApplyHere   == [Ask("apply", {}, FALSE, TRUE) EXCEPT !.offline = TRUE]
TeardownYes == Ask("teardown", {}, FALSE, TRUE)
TeardownAsk == Ask("teardown", {}, FALSE, FALSE)
Verify      == Ask("verify", {}, FALSE, FALSE)

Busy  == {BlockNow, ResetLater, TeardownAsk, Verify}
Short == {BlockNow, ApplyHere, TeardownYes}
=============================================================================
