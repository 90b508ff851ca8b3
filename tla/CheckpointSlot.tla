---------------------------- MODULE CheckpointSlot ----------------------------
(***************************************************************************)
(* What checkpoint.rs promises of one checkpoint name, step-n: it behaves  *)
(* as a slot that always holds one of the packages it may hold.            *)
(*                                                                         *)
(* A save makes its package one that the slot may hold.  When the save     *)
(* returns Ok it is the only one; when it returns a plain error it is none *)
(* of them, for good; when its process dies, or when it returns            *)
(* PublicationAmbiguous, both outcomes stay possible.                      *)
(***************************************************************************)
EXTENDS Naturals

CONSTANT Packages      \* the packages that are saved; 0 is the empty slot

VARIABLES shown,       \* what a recovery would find now
          possible     \* what it may find

vars == <<shown, possible>>

Init == shown = 0 /\ possible = {0}

\* A save starts.
Begin(p) == p \notin possible /\ possible' = possible \cup {p}

\* It returns Ok, ...
Commit(p) == p \in possible /\ possible' = {p}

\* ... or a plain error.
Abort(p) == p \in possible /\ possible' = possible \ {p}

\* Its own renames, a crash and a recovery move the slot among the possible.
Move == UNCHANGED possible

Next ==
  /\ Move \/ \E p \in Packages : Begin(p) \/ Commit(p) \/ Abort(p)
  /\ shown' \in possible'

Spec == Init /\ [][Next]_vars
=============================================================================
