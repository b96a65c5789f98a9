------------------------------- MODULE MCBoot -------------------------------
(* Instances of Boot for TLC: one POP and two revisions of the feed, the    *)
(* second of which moves its relays.                                        *)
EXTENDS Boot, TLC

CONSTANTS ams, l1, l2

Classes == [r \in Regions |-> {}]
Moving  == <<(ams :> l1), (ams :> l2)>>
=============================================================================
