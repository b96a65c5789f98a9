------------------------------ MODULE Firewall ------------------------------
(***************************************************************************)
(* What regionlock-apply promises to its clients, without files and        *)
(* without nft: one table that whole operations change, one at a time.     *)
(* An operation takes effect at most once, between its admission and its   *)
(* reply; Applied and Deleted mean that it did, Refused that it did not,   *)
(* and a client that dies never knows.  A report shows the table that was  *)
(* there when it was looked at, and while the ledger can be trusted, a     *)
(* ruleset that makes this table.                                          *)
(*                                                                         *)
(* Every exception is an alternative of its own that names the hazard it   *)
(* needs.  The ledger is lost when somebody changes the table behind it,   *)
(* when a table is overlooked, when an operation other than a report       *)
(* starts while traces of an unfinished one are there, and when a report   *)
(* meets the traces of an install whose ruleset nft lists differently.     *)
(***************************************************************************)
CONSTANTS Clients,   \* those who ask for operations
          Rulesets,  \* what an install may carry
          None,      \* no table, no ruleset
          Shown,     \* Shown[s]: the table a ruleset makes; Shown[None] = None
          Hazards    \* what may go wrong, as in Applier

VARIABLES
  table,  \* the live table
  sure,   \* the ledger names a ruleset of the live table, or can tell
  dirty,  \* traces of an operation that was not finished are there
  half,   \* the ruleset of an install among those traces, or None
  late,   \* what operations of dead clients may still make of the table
  phase,  \* phase[c]: how far the operation of client c has come
  want,   \* want[c]: the ruleset of an install
  saw,    \* saw[c]: the table that an observation found
  told    \* told[c]: the ledger's ruleset in the report to c

trust  == <<sure, dirty, half>>
report == <<saw, told>>
vars   == <<table, trust, late, phase, want, report>>

Replies == {"applied", "deleted", "report", "refused"}
Phases  == {"idle", "install", "installed", "remove", "removed", "refusing",
            "observe", "observed"} \cup Replies

Init ==
  /\ table = None
  /\ sure = TRUE /\ dirty = FALSE /\ half = None /\ late = {}
  /\ phase = [c \in Clients |-> "idle"]
  /\ want = [c \in Clients |-> None]
  /\ saw = [c \in Clients |-> None]
  /\ told = [c \in Clients |-> None]

Can(hazard) == hazard \in Hazards

Enter(c, p) == phase' = [phase EXCEPT ![c] = p]

Forgotten(f, c) == [f EXCEPT ![c] = None]

(* The ledger is whole, lost, or has traces of the operation of c in it.   *)
Vouch     == sure' = TRUE /\ dirty' = FALSE /\ half' = None
Distrust  == sure' = FALSE /\ dirty' = TRUE /\ half' = None
Remain(c) == /\ dirty' = TRUE
             /\ half' = IF sure THEN want[c] ELSE half
             /\ UNCHANGED sure

(* Without nft, a table that is there is taken for one that is not. *)
Overlook == Can("absent") /\ table # None /\ Distrust

(* Operations are served one at a time. *)
Ask(c) ==
  /\ \A d \in Clients : phase[d] = "idle"
  /\ \/ \E s \in Rulesets :
          Enter(c, "install") /\ want' = [want EXCEPT ![c] = s]
     \/ \E p \in {"remove", "observe"} : Enter(c, p) /\ UNCHANGED want
  /\ UNCHANGED <<table, trust, late, report>>

(* The ledger is lost over traces. *)
Lose(c) ==
  /\ dirty
  /\ \/ phase[c] \in {"install", "remove"}
     \/ phase[c] = "observed" /\ half # None /\ Shown[half] # half
  /\ Distrust
  /\ UNCHANGED <<table, late, phase, want, report>>

Install(c) ==
  /\ phase[c] = "install"
  /\ sure => ~dirty
  /\ table' = Shown[want[c]]
  /\ \/ Enter(c, "installed") /\ UNCHANGED trust
     \/ Can("feed") /\ Enter(c, "refusing") /\ Distrust
  /\ UNCHANGED <<late, want, report>>

Remove(c) ==
  /\ phase[c] = "remove"
  /\ sure => ~dirty
  /\ Enter(c, "removed")
  /\ \/ table' = None /\ UNCHANGED trust
     \/ Overlook /\ UNCHANGED table
  /\ UNCHANGED <<late, want, report>>

(* nft refuses. *)
Fail(c) ==
  /\ phase[c] \in {"install", "remove"}
  /\ sure => ~dirty
  /\ Enter(c, "refusing")
  /\ UNCHANGED <<table, trust, late, want, report>>

(* The new record is in the ledger, which may be whole again with it. *)
Applied(c) ==
  /\ phase[c] = "installed"
  /\ Enter(c, "applied")
  /\ \/ table = Shown[want[c]] /\ Vouch
     \/ ~sure /\ UNCHANGED trust
  /\ UNCHANGED <<table, late, want, report>>

(* No table and no trace: the ledger is whole again. *)
Deleted(c) ==
  /\ phase[c] = "removed"
  /\ Enter(c, "deleted")
  /\ \/ table = None /\ Vouch
     \/ /\ Can("unlink") \/ (~sure /\ table # None)
        /\ Remain(c)
  /\ UNCHANGED <<table, late, want, report>>

Look(c) ==
  /\ phase[c] = "observe"
  /\ Enter(c, "observed")
  /\ \/ saw' = [saw EXCEPT ![c] = table] /\ UNCHANGED trust
     \/ saw' = [saw EXCEPT ![c] = None] /\ Overlook
  /\ UNCHANGED <<table, late, want, told>>

(* A report clears the traces, at the latest when it is given. *)
Tidy(c) ==
  /\ phase[c] = "observed" /\ sure
  /\ dirty' = FALSE /\ half' = None
  /\ UNCHANGED <<table, sure, late, phase, want, report>>

(* What a report tells makes the table, unless a record stayed where it    *)
(* was because it could not be renamed. *)
Report(c) ==
  /\ phase[c] = "observed"
  /\ Enter(c, "report")
  /\ \E s \in Rulesets \cup {None} :
       /\ sure /\ (dirty' => ~Can("rename")) => Shown[s] = table
       /\ told' = [told EXCEPT ![c] = s]
  /\ \/ sure /\ Vouch
     \/ ~sure /\ UNCHANGED trust
     \/ dirty /\ (Can("unlink") \/ Can("rename")) /\ UNCHANGED trust
  /\ UNCHANGED <<table, late, want, saw>>

(* Nothing has happened, but for an install that could not be recorded;    *)
(* and what an operation that nft refused had noted down may remain. *)
Refuse(c) ==
  /\ \/ /\ phase[c] \in {"install", "remove", "observe", "refusing"}
        /\ UNCHANGED trust
     \/ phase[c] = "observed" /\ Can("rename") /\ UNCHANGED trust
     \/ phase[c] = "installed" /\ Can("rename") /\ Remain(c)
     \/ /\ phase[c] = "refusing"
        /\ Can(IF want[c] = None THEN "rename" ELSE "unlink")
        /\ Remain(c)
  /\ Enter(c, "refused")
  /\ want' = Forgotten(want, c) /\ saw' = Forgotten(saw, c)
  /\ UNCHANGED <<table, late, told>>

Leave(c) ==
  /\ phase[c] \in Replies
  /\ Enter(c, "idle")
  /\ want' = Forgotten(want, c)
  /\ saw' = Forgotten(saw, c) /\ told' = Forgotten(told, c)
  /\ UNCHANGED <<table, trust, late>>

(* What the operation of c may still do when c is gone. *)
Pending(c) ==
  CASE phase[c] = "install" -> {Shown[want[c]]}
    [] phase[c] = "remove"  -> {None}
    [] OTHER                -> {}

(* A client dies and may leave traces, of its install among others. *)
Die(c) ==
  /\ Can("kill")
  /\ phase[c] # "idle"
  /\ Enter(c, "idle")
  /\ dirty' \in {dirty, TRUE}
  /\ half' \in {half} \cup (IF sure /\ dirty' THEN {want[c]} ELSE {})
  /\ late' \in {late} \cup (IF Can("orphan") THEN {late \cup Pending(c)}
                                             ELSE {})
  /\ want' = Forgotten(want, c)
  /\ saw' = Forgotten(saw, c) /\ told' = Forgotten(told, c)
  /\ UNCHANGED <<table, sure>>

(* The operation of a dead client takes effect, or is gone. *)
Late ==
  /\ \E t \in late : late' = late \ {t} /\ table' \in {table, t}
  /\ IF table' = table THEN UNCHANGED trust ELSE Distrust
  /\ UNCHANGED <<phase, want, report>>

(* Somebody else removes the table. *)
Flush ==
  /\ Can("flush")
  /\ table # None /\ table' = None
  /\ Distrust
  /\ UNCHANGED <<late, phase, want, report>>

(* Table, ledger and clients are gone together. *)
Restart ==
  /\ Can("reboot")
  /\ table' = None
  /\ sure' = TRUE /\ dirty' = FALSE /\ half' = None /\ late' = {}
  /\ phase' = [c \in Clients |-> "idle"]
  /\ want' = [c \in Clients |-> None]
  /\ saw' = [c \in Clients |-> None]
  /\ told' = [c \in Clients |-> None]

Serve(c) ==
  \/ Lose(c) \/ Install(c) \/ Remove(c) \/ Fail(c) \/ Applied(c)
  \/ Deleted(c) \/ Look(c) \/ Tidy(c) \/ Report(c) \/ Refuse(c)

Next ==
  \/ \E c \in Clients : Ask(c) \/ Serve(c) \/ Leave(c) \/ Die(c)
  \/ Late \/ Flush \/ Restart

Spec == Init /\ [][Next]_vars
=============================================================================
