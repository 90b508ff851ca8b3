------------------------------ MODULE TrainingLog ------------------------------
(***************************************************************************)
(* What separated training promises as a whole: one log of the windows     *)
(* that were trained on, each by somebody.  It grows by one entry at a     *)
(* time, nothing in it is replaced, and what is settled stays; a power     *)
(* failure may cut off the end that is not.                                *)
(***************************************************************************)
EXTENDS Naturals, Sequences, SequencesExt

VARIABLES log,        \* what the newest continuation has been trained on
          settled     \* how much of it no power failure can take away

vars == <<log, settled>>

Init == log = << >> /\ settled = 0

Extend == Len(log') = Len(log) + 1 /\ IsPrefix(log, log') /\ settled' = settled

Settle == settled' \in settled..Len(log) /\ UNCHANGED log

Cut == IsPrefix(log', log) /\ Len(log') >= settled /\ settled' \in settled..Len(log')

Next == Extend \/ Settle \/ Cut

Spec == Init /\ [][Next]_vars
=============================================================================
