---------------------------- MODULE MCRolloutLedger ----------------------------
(* Instances of RolloutLedger for TLC: two ranks, rank 0 first. *)
EXTENDS RolloutLedger, PureChecks

CONSTANTS r0, r1
RanksDef == {r0, r1}
=============================================================================
