----------------------------- MODULE MCPersist -----------------------------
(* Instances of Persist for TLC: three snapshots of two feed revisions, so *)
(* that a new snapshot can keep the revision, raise it or lower it.        *)
EXTENDS Persist

CONSTANTS s1, s2, s3

Revisions == [s \in Snaps |-> IF s = s1 THEN 1 ELSE 2]

Nothing == [n \in Names |-> None]

(* What others have there at first: nothing, or a file or a link at the    *)
(* feed of the higher revision, the only one that could come before an     *)
(* applier's feed, and entries of either kind at other names.              *)
Fresh     == [file |-> Nothing, bak |-> Nothing]
Files     == [file |-> [Nothing EXCEPT ![0] = Link, ![2] = Foreign],
              bak  |-> [Nothing EXCEPT ![0] = Foreign]]
Links     == [file |-> [Nothing EXCEPT ![0] = Foreign, ![2] = Link],
              bak  |-> [Nothing EXCEPT ![2] = Link]]
Alone     == {Fresh}
Cluttered == {Fresh, Files, Links}
=============================================================================
