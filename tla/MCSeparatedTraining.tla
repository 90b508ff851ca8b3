-------------------------- MODULE MCSeparatedTraining --------------------------
(***************************************************************************)
(* Separated training on a small instance: two ranks, places for two jobs. *)
(***************************************************************************)
EXTENDS SeparatedTraining

CONSTANTS r0, r1, j1, j2

TwoRanks == {r0, r1}
TwoJobs == {j1, j2}

\* Bound: of the failing calls, the kills and the outages, two in all.
TwoMishapsSpec ==
  Init /\ [][Next /\ faults' + kills' + outages' <= 2]_vars /\ Fairness
=============================================================================
