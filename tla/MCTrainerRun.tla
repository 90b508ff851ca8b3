---------------------------- MODULE MCTrainerRun ----------------------------
(* Instances of TrainerRun for TLC: two ranks, rank 0 first. *)
EXTENDS TrainerRun

CONSTANTS r0, r1
RanksDef == {r0, r1}
OnlyR1 == {r1}
AllRanks == {r0, r1}
=============================================================================
