------------------------------- MODULE RunHealth -------------------------------
(***************************************************************************)
(* The health policy of a launch (src/crates/ferrl/src/orchestration.rs,   *)
(* CliRunHealthPolicy::evaluate), over the metrics of a run and the        *)
(* candidates that it logged.  A rule that cannot be evaluated counts as   *)
(* broken.                                                                 *)
(*                                                                         *)
(* A row of the history has a step, a reward, a gradient norm, dropped     *)
(* rows and the tokens with captured log-probabilities.  A candidate has a *)
(* step, a prompt, a row of its group, a source, and its correctness:      *)
(* "yes", "no" or "unknown".  A run without candidate file and one with an *)
(* empty file have an empty log.  A policy is a function of the rules that *)
(* it has.  Fractions are in percent.                                      *)
(***************************************************************************)
EXTENDS Integers, Sequences, FiniteSetsExt

\* A shape has the rows of a group and the prompts of a step.
SourcesOf(log) == {log[i].source : i \in DOMAIN log}
At(log, steps) == {i \in DOMAIN log : log[i].step \in steps}
With(log, what) == {i \in DOMAIN log : log[i].correct \in what}

Sum(history, field) == MapThenSumSet(LAMBDA i : history[i][field], DOMAIN history)

Tail_(history, window) == SubSeq(history, Len(history) - window + 1, Len(history))
StepsOf(history) == {history[i].step : i \in DOMAIN history}

(***************************************************************************)
(* Coverage: each prompt of a step with each row of its group.             *)
(***************************************************************************)
Prompts(log, step) == {log[i].prompt : i \in At(log, {step})}
RowsOf(log, step, prompt) == {log[i].row : i \in {j \in At(log, {step}) : log[j].prompt = prompt}}

Missing(log, steps) == {s \in steps : At(log, {s}) = {}}

FullCoverage(log, step, shape) ==
  /\ Cardinality(Prompts(log, step)) = shape.prompts
  /\ \A p \in Prompts(log, step) : RowsOf(log, step, p) = 0 .. shape.rows - 1

Covers(log, steps, shape) ==
  /\ log # <<>>
  /\ Missing(log, steps) = {}
  /\ \A s \in steps : FullCoverage(log, s, shape)

(***************************************************************************)
(* The rules: is one broken?                                               *)
(***************************************************************************)
RewardCollapses(rule, history) ==
  \/ Len(history) < rule.window
  \/ Sum(Tail_(history, rule.window), "reward") < rule.min * rule.window

DropsRows(rule, history) == Sum(history, "dropped") > rule.max

Positive(history) == {i \in DOMAIN history : history[i].grad > 0}

\* The upper one of two in the middle.
IsMedian(history, i) ==
  /\ i \in Positive(history)
  /\ LET below == {j \in Positive(history) : history[j].grad < history[i].grad}
         notAbove == {j \in Positive(history) : history[j].grad <= history[i].grad}
         middle == Cardinality(Positive(history)) \div 2
     IN  Cardinality(below) <= middle /\ middle < Cardinality(notAbove)

GradSpikes(rule, history) ==
  \E i, j \in Positive(history) :
    IsMedian(history, i) /\ history[j].grad > rule.factor * history[i].grad

TelemetryDark(history) == history # <<>> /\ Sum(history, "captured") = 0

CorrectnessCollapses(rule, history, log, shape) ==
  \/ Len(history) < rule.window
  \/ LET steps == StepsOf(Tail_(history, rule.window))
         Known(s) == At(log, s) \cap With(log, {"yes", "no"})
     IN  \/ ~Covers(log, steps, shape)
         \/ \E s \in steps : Known({s}) = {}
         \/ 100 * Cardinality(Known(steps) \cap With(log, {"yes"})) < rule.min * Cardinality(Known(steps))

SourceDominates(rule, history, log, shape) ==
  \/ ~Covers(log, StepsOf(history), shape)
  \/ \E source \in SourcesOf(log) :
       100 * Cardinality({i \in DOMAIN log : log[i].source = source}) > rule.max * Len(log)

(***************************************************************************)
(* The verdict.                                                            *)
(***************************************************************************)
Broken(policy, history, log, shape) ==
  {rule \in DOMAIN policy :
     \/ rule = "reward_collapse" /\ RewardCollapses(policy[rule], history)
     \/ rule = "dropped_rows" /\ DropsRows(policy[rule], history)
     \/ rule = "grad_spike" /\ GradSpikes(policy[rule], history)
     \/ rule = "telemetry_dark" /\ TelemetryDark(history)
     \/ rule = "correctness_collapse" /\ CorrectnessCollapses(policy[rule], history, log, shape)
     \/ rule = "source_dominance" /\ SourceDominates(policy[rule], history, log, shape)}

\* The gravest action of a broken rule.
Verdict(policy, history, log, shape) ==
  LET actions == {policy[rule].action : rule \in Broken(policy, history, log, shape)}
  IN  IF "fail" \in actions THEN "fail" ELSE IF "warn" \in actions THEN "warn" ELSE "healthy"
=============================================================================
