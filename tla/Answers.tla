------------------------------ MODULE Answers ------------------------------
(***************************************************************************)
(* What regionlock_core::ping promises its caller, and `regionlock ping`   *)
(* its user: one answer for every POP asked about, in any order, and then  *)
(* the end.  The caller may stop listening before that.  Of a silent POP   *)
(* there need not be an answer, nor then an end.                           *)
(***************************************************************************)
EXTENDS Sequences

CONSTANT Pops

VARIABLES left,   \* POPs asked about and not answered
          silent, \* POPs whose answer may never come
          out,    \* the answers, in the order they were given
          over    \* "no", "ended", or "quit" when the caller left

answers == <<left, silent, out, over>>

Init ==
  /\ left \in SUBSET Pops
  /\ silent \in SUBSET left
  /\ out = <<>>
  /\ over = "no"

Answer(p) ==
  /\ over = "no"
  /\ p \in left
  /\ left' = left \ {p} /\ out' = Append(out, p)
  /\ UNCHANGED <<silent, over>>

End ==
  /\ over = "no" /\ left = {}
  /\ over' = "ended"
  /\ UNCHANGED <<left, silent, out>>

Quit ==
  /\ over = "no"
  /\ over' = "quit"
  /\ UNCHANGED <<left, silent, out>>

Next == (\E p \in Pops : Answer(p)) \/ End \/ Quit

(* While the caller listens the next awaited answer comes, and the end.    *)
Progress == (\E p \in left \ silent : Answer(p)) \/ End

Spec == Init /\ [][Next]_answers /\ WF_answers(Progress)
=============================================================================
