-------------------------------- MODULE Grading --------------------------------
(***************************************************************************)
(* What the log of a verifier is worth (src/crates/ferrl/src/trimul.rs).   *)
(* The verifier writes a grade: the log of its tests and, if they pass, a  *)
(* separator and the log of its benchmarks.  The reward reads it           *)
(* leniently, as a candidate that fails is no error; the evidence of an    *)
(* artifact is read strictly.                                              *)
(*                                                                         *)
(* An outcome has the status of the sandbox and the grade, the logs        *)
(* between the separators.  A line has a key, the case it is about, and a  *)
(* value.  A latency is the exponent of a power of two, in microseconds;   *)
(* rewards are in percent.  Lines that cannot be parsed, latencies that    *)
(* are not numbers, and the spread of a benchmark are left out.            *)
(***************************************************************************)
EXTENDS Integers, SequencesExt, FiniteSetsExt

CONSTANT Hardened    \* the records that validate_runtime_hardening_record accepts

Metric(tier) == IF tier = "same uid" THEN "apptainer latency" ELSE "service latency"

(***************************************************************************)
(* Reading a log.  A value that may be missing is a set.                   *)
(***************************************************************************)
TestLog(grade) == IF Len(grade) = 1 THEN Head(grade) ELSE FlattenSeq(Front(grade))
BenchLog(grade) == IF Len(grade) = 1 THEN <<>> ELSE Last(grade)
Phases(grade) == {TestLog(grade)} \cup (IF Len(grade) = 1 THEN {} ELSE {BenchLog(grade)})

Lines(log, key) == SelectSeq(log, LAMBDA line : line.key = key)
FirstOf(log, key) == IF Lines(log, key) = <<>> THEN {} ELSE {Head(Lines(log, key)).value}
LastOf(log, key) == FirstOf(Reverse(log), key)
Only(log, key) == IF Len(Lines(log, key)) = 1 THEN FirstOf(log, key) ELSE {}
CasesOf(log, key) == {line.case : line \in Range(Lines(log, key))}

\* Each of the cases has this line once, and there are no others.
ExactCases(log, key, n) == CasesOf(log, key) = 0 .. n - 1 /\ Len(Lines(log, key)) = n
Of(log, key, case) == (CHOOSE line \in Range(Lines(log, key)) : line.case = case).value

(***************************************************************************)
(* Has the verifier run at all?  If not, nobody is to blame but the        *)
(* platform, and the outcome is an error and no reward.                    *)
(***************************************************************************)
PhaseReached(log, phase) == FirstOf(log, "entry") = {phase} \/ FirstOf(log, "rejected") = {phase}

RuntimeEvidence(grade, tier) ==
  \A log \in Phases(grade) :
    /\ FirstOf(log, "tier") = {tier} /\ FirstOf(log, "metric") = {Metric(tier)}
    /\ FirstOf(log, "hardening") \cap Hardened # {}

EntryProved(outcome, tier) ==
  /\ outcome.status # "exit 114"
  /\ \A i \in DOMAIN outcome.grade : Lines(outcome.grade[i], "infrastructure") = <<>>
  /\ PhaseReached(TestLog(outcome.grade), "test")
  /\ Len(outcome.grade) > 1 => PhaseReached(BenchLog(outcome.grade), "benchmark")
  /\ RuntimeEvidence(outcome.grade, tier)

\* A reward has its tier, the hardening of its preflight, its profile, the least latency
\* that it believes, and the baseline.
Judged(outcome, reward) ==
  /\ EntryProved(outcome, reward.tier)
  /\ \A log \in Phases(outcome.grade) : FirstOf(log, "hardening") = {reward.preflight}

(***************************************************************************)
(* The lenient reading.                                                    *)
(***************************************************************************)
TestPassed(log) == FirstOf(log, "check") = {"pass"}
MeansOf(log) == [i \in DOMAIN Lines(log, "benchmark.mean") |-> Lines(log, "benchmark.mean")[i].value]
Geomean(means) == FoldSeq(LAMBDA mean, sum : mean + sum, 0, means) \div Len(means)
PlausibleGeomean(means, reward) ==
  IF means = <<>> \/ \E i \in DOMAIN means : means[i] < reward.floor THEN {} ELSE {Geomean(means)}

Evaluated(outcome, reward) ==
  LET test == TestLog(outcome.grade)
      bench == BenchLog(outcome.grade)
      means == IF TestPassed(test) THEN MeansOf(bench) ELSE <<>>
  IN  [correct |-> TestPassed(test), means |-> means, geomean |-> PlausibleGeomean(means, reward),
       success |-> outcome.status = "exit 0", check |-> FirstOf(test, "check"),
       testExit |-> LastOf(test, "test-exit"), benchExit |-> LastOf(bench, "benchmark-exit"),
       benchmarks |-> Len(outcome.grade) > 1, test |-> test]

Implausible(eval) == eval.means # <<>> /\ eval.geomean = {}

\* A case with several lines has passed if all of them say so.
Progress(log) ==
  LET declared == FirstOf(log, "test-count")
      Passed(case) == \A line \in Range(Lines(log, "test.status")) : line.case = case => line.value = "pass"
      passed == {case \in CasesOf(log, "test.status") : Passed(case) /\ \A n \in declared : case < n}
  IN  [passed |-> Cardinality(passed),
       cases |-> IF declared = {} THEN Cardinality(CasesOf(log, "test.status")) ELSE Max(declared)]
Fraction(whole, progress) ==
  IF progress.cases = 0 THEN 0 ELSE (whole * Min({progress.passed, progress.cases})) \div progress.cases

RunnableProgress(eval, profile) == profile.runnable + Fraction(profile.partial, Progress(eval.test))

Speed(eval, reward) ==
  LET Faster(geomean) == IF geomean <= reward.baseline THEN 100 * 2 ^ (reward.baseline - geomean)
                         ELSE 100 \div 2 ^ (geomean - reward.baseline)
  IN  IF eval.geomean = {} THEN 0 ELSE Min({reward.profile.cap, Faster(Max(eval.geomean))})

RewardFromEval(eval, reward) ==
  LET profile == reward.profile IN
  IF ~eval.success \/ eval.testExit = {} \/ Implausible(eval) THEN 0
  ELSE IF eval.testExit = {0} /\ eval.correct /\ eval.benchmarks /\ eval.benchExit # {}
  THEN profile.correct + (IF eval.benchExit = {0} THEN Speed(eval, reward) ELSE 0)
  ELSE RunnableProgress(eval, profile)

RewardOf(eval, reward) ==
  IF Implausible(eval) THEN 0 ELSE Max({RewardFromEval(eval, reward), reward.profile.format})

Diagnostic(eval) ==
  CASE ~eval.success -> "sandbox"
    [] eval.success /\ eval.testExit = {} -> "missing test exit"
    [] eval.success /\ eval.testExit \notin {{}, {0}} -> "test process failed"
    [] OTHER ->
       CASE eval.benchExit \notin {{}, {0}} -> "benchmark process failed"
         [] eval.benchExit = {} /\ eval.correct /\ eval.geomean # {} -> "missing benchmark exit"
         [] eval.benchExit = {0} /\ eval.correct /\ eval.geomean # {} -> "none"
         [] OTHER ->
            CASE ~eval.correct -> IF eval.check = {} THEN "no pass grade" ELSE "test failed"
              [] eval.correct /\ ~eval.benchmarks -> "no benchmark section"
              [] eval.correct /\ eval.benchmarks /\ eval.means = <<>> -> "no benchmark means"
              [] OTHER -> "implausible benchmark"

\* A profile may not turn the ladder round.
ValidProfile(profile) ==
  /\ \A rung \in {"format", "runnable", "partial", "correct", "cap"} : profile[rung] >= 0
  /\ profile.format <= profile.runnable
  /\ profile.runnable + profile.partial <= profile.correct

(***************************************************************************)
(* The strict reading, for so many tests and benchmarks.                   *)
(***************************************************************************)
ExitOf == [test |-> "test-exit", benchmark |-> "benchmark-exit"]
StrictPhase(log, phase, tier) ==
  /\ Only(log, "entry") = {phase} /\ Only(log, "tier") = {tier} /\ Only(log, "metric") = {Metric(tier)}
  /\ Only(log, "hardening") \cap Hardened # {}
  /\ Only(log, "check") = {"pass"} /\ Only(log, ExitOf[phase]) = {0}

BenchmarkHolds(log, case) ==
  /\ Of(log, "benchmark.runs", case) >= 3
  /\ Of(log, "benchmark.best", case) <= Of(log, "benchmark.mean", case)
  /\ Of(log, "benchmark.mean", case) <= Of(log, "benchmark.worst", case)

Evidence(outcome, reward, tests, benches) ==
  LET grade == outcome.grade
      test == TestLog(grade)
      bench == BenchLog(grade)
      eval == Evaluated(outcome, reward)
  IN  /\ tests > 0 /\ benches > 0 /\ outcome.status = "exit 0" /\ Len(grade) = 2
      /\ StrictPhase(test, "test", reward.tier) /\ StrictPhase(bench, "benchmark", reward.tier)
      /\ Only(test, "test-count") = {tests} /\ Only(bench, "benchmark-count") = {benches} /\ eval.correct
      /\ \A key \in {"test.spec", "test.status"} : ExactCases(test, key, tests)
      /\ \A case \in 0 .. tests - 1 : Of(test, "test.status", case) = "pass"
      /\ \A key \in {"spec", "runs", "mean", "best", "worst"} : ExactCases(bench, "benchmark." \o key, benches)
      /\ \A case \in 0 .. benches - 1 : BenchmarkHolds(bench, case)
      /\ eval.means = [i \in 1 .. benches |-> Of(bench, "benchmark.mean", i - 1)]
      /\ eval.geomean = {Geomean(eval.means)}
      /\ Only(test, "device") # {} /\ Only(test, "device") = Only(bench, "device")
=============================================================================
