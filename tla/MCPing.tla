------------------------------- MODULE MCPing -------------------------------
(* Instances of Ping for TLC: up to four targets for two threads, so that   *)
(* there are fewer targets than threads, as many, and more; the `ping` of   *)
(* one of them may hang.                                                    *)
EXTENDS Ping

CONSTANTS p1, p2, p3, p4
=============================================================================
