----------------------------- MODULE SlotHistory -----------------------------
(***************************************************************************)
(* What the archive of the lab promises (docs/VERSIONING.md,               *)
(* docs/EXTENDING.md): the slot of a floating target is overwritten by     *)
(* each refresh, but a hello is replaced by another one only after it was  *)
(* archived, and what is archived stays archived.                          *)
(***************************************************************************)
CONSTANTS Targets, Hellos, None

VARIABLES current,   \* the hello in the slot of each target, or None
          archived   \* the hellos in the archive

vars == <<current, archived>>

Init == current = [t \in Targets |-> None] /\ archived = {}

Archive(t) ==
  /\ current[t] # None
  /\ archived' = archived \cup {current[t]}
  /\ UNCHANGED current

Refresh(t, h) ==
  /\ current[t] \in archived \cup {None, h}
  /\ current' = [current EXCEPT ![t] = h]
  /\ UNCHANGED archived

Next == \E t \in Targets : Archive(t) \/ \E h \in Hellos : Refresh(t, h)

Spec == Init /\ [][Next]_vars
=============================================================================
