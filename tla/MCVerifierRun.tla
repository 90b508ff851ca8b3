----------------------------- MODULE MCVerifierRun -----------------------------
(***************************************************************************)
(* Two requests of a service whose predecessor has left one directory.     *)
(***************************************************************************)
EXTENDS VerifierRun, GradingChecks

CONSTANTS q1, q2

OneLeftover == {1}

\* Bound: one of the programs at a time has forked, or fills its directory.  Only
\* steps of the programs are barred by it, of which nothing is assumed.
Unruly == {q \in Requests : run[q].rest # "none" \/ run[q].over}
OneUnrulySpec == Init /\ [][Next /\ Cardinality(Unruly') <= 1]_vars /\ Fairness
=============================================================================
