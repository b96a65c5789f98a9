----------------------------- MODULE MCSession -----------------------------
(* Instances of Session for TLC: two POPs of one region and one that the    *)
(* static table does not know, each of them absent from the feed, without   *)
(* relays, or with one of two relay lists.                                  *)
EXTENDS Session

CONSTANTS ams, fra, xyz, eu, l1, l2

Classes == [r \in Regions |-> {ams, fra}]
=============================================================================
