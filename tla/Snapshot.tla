------------------------------ MODULE Snapshot ------------------------------
(***************************************************************************)
(* What regionlock-apply promises of the boot snapshot, without files,     *)
(* backups and systemctl: one stored snapshot and one unit, which whole    *)
(* operations replace or remove, one at a time.  The unit starts from the  *)
(* stored snapshot unless that one is hidden.  Persisted means that all    *)
(* of the new snapshot is stored, Refused that the old one is; only where  *)
(* the refusal reports a rollback that failed, or the applier dies, may    *)
(* the store be torn.  A torn store stays suspect until a Persisted, or an *)
(* Unpersisted that left no unit on, vouches for it again.                 *)
(***************************************************************************)
CONSTANTS Snaps,   \* what may be stored
          None,    \* nothing is stored
          Torn,    \* parts are stored that are no snapshot
          Deaf,    \* TRUE if turning the unit off may be skipped
          Blind    \* TRUE if a unit may be taken for the operations' own

VARIABLES
  stored,  \* what operations have stored for the boot unit
  hidden,  \* snapshots that somebody else's feed comes before at boot
  unit,    \* the boot unit is on
  nix,     \* the unit is not the operations' own
  sure,    \* somebody vouches for the store
  phase,   \* how far the operation has come, "idle" if there is none
  want     \* the snapshot to persist

vars == <<stored, hidden, unit, nix, sure, phase, want>>

Stores  == Snaps \cup {None, Torn}
Busy    == {"persist", "unpersist"}
Replies == {"persisted", "unpersisted", "refused", "broken"}

Init ==
  /\ stored = None /\ hidden \subseteq Snaps
  /\ unit = FALSE /\ nix \in BOOLEAN
  /\ sure = TRUE /\ phase = "idle" /\ want = None

Ask ==
  /\ phase = "idle"
  /\ \/ \E s \in Snaps : want' = s /\ phase' = "persist"
     \/ phase' = "unpersist" /\ UNCHANGED want
  /\ UNCHANGED <<stored, hidden, unit, nix, sure>>

(* Half of the old, half of the new: what it can leave behind is one of    *)
(* the two, neither, or no snapshot at all, never one nobody asked for. *)
Rubble == IF sure THEN {stored, want, None, Torn} ELSE Stores

(* Whose unit it is. *)
Ours == ~nix \/ Blind

(* What an operation without effect may still have done to the unit. *)
Touched ==
  \/ phase = "persist" /\ Ours /\ unit' = TRUE
  \/ phase = "unpersist" /\ Ours /\ unit' = FALSE

(* What a dead operation left is put in order first. *)
Tidy ==
  /\ phase = "persist" /\ ~sure
  /\ stored' \in Stores
  /\ UNCHANGED <<hidden, unit, nix, sure, phase, want>>

(* Somebody else's feed is overwritten; no operation adds one. *)
Expose ==
  /\ phase = "persist"
  /\ hidden' \subseteq hidden
  /\ UNCHANGED <<stored, unit, nix, sure, phase, want>>

Commit ==
  /\ phase = "persist"
  /\ phase' = "persisted"
  /\ stored' = want
  /\ (Ours /\ unit' = TRUE) \/ (nix /\ UNCHANGED unit)
  /\ UNCHANGED <<hidden, nix, sure, want>>

TurnOff ==
  /\ phase = "unpersist" /\ Ours
  /\ unit' = FALSE
  /\ UNCHANGED <<stored, hidden, nix, sure, phase, want>>

Remove ==
  /\ phase = "unpersist"
  /\ unit => nix \/ Deaf
  /\ phase' = "unpersisted"
  /\ stored' = None
  /\ UNCHANGED <<hidden, unit, nix, sure, want>>

(* The store is as before.  So is the unit, unless a call to turn it on or *)
(* off failed: after a failed one to turn on nobody vouches for the two.   *)
Refuse ==
  /\ phase \in Busy
  /\ phase' = "refused"
  /\ \/ UNCHANGED <<unit, sure>>
     \/ phase = "persist" /\ sure' = FALSE /\ UNCHANGED unit
     \/ Touched /\ sure' = (sure /\ phase = "unpersist")
  /\ UNCHANGED <<stored, hidden, nix, want>>

(* A refusal that says that its rollback, or the removal, failed. *)
Break ==
  /\ phase \in Busy
  /\ phase' = "broken"
  /\ stored' \in Rubble /\ sure' = FALSE
  /\ Touched \/ UNCHANGED unit
  /\ UNCHANGED <<hidden, nix, want>>

(* The client has its reply.  Backups of a Persisted may be left over. *)
Leave ==
  /\ phase \in Replies
  /\ phase' = "idle" /\ want' = None
  /\ CASE phase = "persisted"   -> sure' \in BOOLEAN
       [] phase = "unpersisted" -> sure' = ~unit
       [] OTHER                 -> UNCHANGED sure
  /\ UNCHANGED <<stored, hidden, unit, nix>>

Die ==
  /\ phase # "idle"
  /\ phase' = "idle" /\ want' = None /\ sure' = FALSE
  /\ IF phase \in Busy THEN stored' \in Rubble ELSE UNCHANGED stored
  /\ Touched \/ UNCHANGED unit
  /\ UNCHANGED <<hidden, nix>>

Next ==
  \/ Ask \/ Tidy \/ Expose \/ Commit \/ TurnOff \/ Remove \/ Refuse \/ Break
  \/ Leave \/ Die

Spec == Init /\ [][Next]_vars
=============================================================================
