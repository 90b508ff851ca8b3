---------------------------- MODULE CandidateChoice ----------------------------
(***************************************************************************)
(* Which candidate is good enough.  A discovery                            *)
(* (src/crates/ferrl/src/discovery.rs, finish_discovery_completed) has its *)
(* candidates verified one after the other, and publishes the strongest of *)
(* those that win, or gives a reason why there is none.  An audit          *)
(* (artifact.rs) runs one candidate against the reference in blocks, each  *)
(* of them first in turn, and counts the blocks that it wins.              *)
(***************************************************************************)
EXTENDS Integers, Sequences, FiniteSets

(***************************************************************************)
(* Discovery.  A verdict says whether the verifier has measured the        *)
(* candidate, whether held-out correctness is proved, and the metric.      *)
(***************************************************************************)

\* A contract has the direction of the metric, its baseline and the margin.
Improvement(contract, metric) ==
  IF contract.higher THEN metric - contract.baseline ELSE contract.baseline - metric

IsMaterialWin(contract, metric) == Improvement(contract, metric) > contract.margin

IsStronger(contract, metric, current) ==
  IF contract.higher THEN metric > current ELSE metric < current

Nothing == [best |-> 0, measured |-> FALSE, reason |-> "CandidatesRejected"]

\* One candidate, when so much is known of those before it.
Consider(contract, verdicts, i, so) ==
  LET v == verdicts[i]
      known == [so EXCEPT !.measured = TRUE]
  IN  IF ~v.measured
      THEN [so EXCEPT !.reason = IF so.measured THEN @ ELSE "CandidatesRejected"]
      ELSE IF ~v.correct THEN [known EXCEPT !.reason = "HeldOutIncorrect"]
      ELSE IF ~IsMaterialWin(contract, v.metric)
           THEN [known EXCEPT !.reason = "NoMaterialMetricWin"]
      ELSE IF so.best = 0 \/ IsStronger(contract, v.metric, verdicts[so.best].metric)
           THEN [known EXCEPT !.best = i]
      ELSE known

Choice(contract, verdicts) ==
  LET after[i \in 0 .. Len(verdicts)] ==
        IF i = 0 THEN Nothing ELSE Consider(contract, verdicts, i, after[i - 1])
  IN  after[Len(verdicts)]

(***************************************************************************)
(* The audit.  Speedups are in percent.                                    *)
(***************************************************************************)
Blocks == 11
RequiredWins == 9

\* artifact_audit_schedule: who runs first in block i.
First(startsWithReference, i) ==
  IF (i % 2 = 0) = startsWithReference THEN "reference" ELSE "candidate"

\* Whichever ran first, the reference's time is divided by the candidate's.
Speedup(first, timeOfFirst, timeOfSecond) ==
  IF first = "reference" THEN (100 * timeOfFirst) \div timeOfSecond
  ELSE (100 * timeOfSecond) \div timeOfFirst

\* artifact_acceptance_from_speedups.
Accepted(speedups, material) ==
  /\ Len(speedups) = Blocks
  /\ \A i \in DOMAIN speedups : speedups[i] > 0
  /\ Cardinality({i \in DOMAIN speedups : speedups[i] > material}) >= RequiredWins
=============================================================================
