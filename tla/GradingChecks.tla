----------------------------- MODULE GradingChecks -----------------------------
(***************************************************************************)
(* The two readings of a grade, evaluated by TLC over the grades that are  *)
(* at most two faults away from a whole one.                               *)
(***************************************************************************)
LOCAL INSTANCE Integers
LOCAL INSTANCE Sequences
LOCAL INSTANCE SequencesExt
LOCAL G == INSTANCE Grading WITH Hardened <- {"hard", "harder"}

LOCAL Line(key, case, value) == [key |-> key, case |-> case, value |-> value]
LOCAL Opening(phase) ==
  <<Line("entry", 0, phase), Line("tier", 0, "same uid"), Line("metric", 0, "apptainer latency"),
    Line("hardening", 0, "hard"), Line("check", 0, "pass"), Line("device", 0, "gpu")>>
LOCAL Tests(n) ==
  [i \in 1 .. n |-> Line("test.spec", i - 1, "spec")] \o [i \in 1 .. n |-> Line("test.status", i - 1, "pass")]
LOCAL Test == Opening("test") \o <<Line("test-count", 0, 2)>> \o Tests(2) \o <<Line("test-exit", 0, 0)>>
LOCAL Benchmark(case, mean) ==
  <<Line("benchmark.spec", case, "spec"), Line("benchmark.runs", case, 3), Line("benchmark.mean", case, mean),
    Line("benchmark.best", case, mean - 1), Line("benchmark.worst", case, mean + 1)>>
LOCAL Bench(mean) ==
  Opening("benchmark") \o <<Line("benchmark-count", 0, 2)>> \o Benchmark(0, mean) \o Benchmark(1, mean + 1)
  \o <<Line("benchmark-exit", 0, 0)>>

LOCAL Profiles ==
  {profile \in [format : {2, 10}, runnable : {5, 10}, partial : {75, 90}, correct : {90, 100}, cap : {200}] :
     G!ValidProfile(profile)}
LOCAL Reward(profile) ==
  [tier |-> "same uid", preflight |-> "hard", profile |-> profile, floor |-> 1, baseline |-> 4]
LOCAL Statuses == {"exit 0", "exit 1", "exit 114", "timeout"}

\* What can be wrong with a log: a line is lost, or there twice, or says something else.
LOCAL Otherwise(line) ==
  CASE line.key \in {"entry", "device"} -> {"other"}
    [] line.key = "tier" -> {"dedicated"} [] line.key = "metric" -> {"service latency"}
    [] line.key = "hardening" -> {"harder", "soft"}
    [] line.key \in {"check", "test.status"} -> {"fail"}
    [] line.key \in {"test-exit", "benchmark-exit", "benchmark.runs"} -> {1}
    [] line.key \in {"test-count", "benchmark-count"} -> {0, 3}
    [] line.key = "benchmark.best" -> {9} [] line.key \in {"benchmark.mean", "benchmark.worst"} -> {0}
    [] OTHER -> {}
LOCAL Faults(log) ==
  {RemoveAt(log, i) : i \in DOMAIN log} \cup {InsertAt(log, i, log[i]) : i \in DOMAIN log}
  \cup UNION {{[log EXCEPT ![i].value = v] : v \in Otherwise(log[i])} : i \in DOMAIN log}
  \cup UNION {{InsertAt(log, i, [log[i] EXCEPT !.value = v]) : v \in Otherwise(log[i])} : i \in DOMAIN log}
  \cup {log \o <<Line("infrastructure", 0, "v1")>>}
  \cup {Append(log, IF log[1].value = "test" THEN Line("test.status", 5, "pass") ELSE Line("benchmark.mean", 5, 2))}
LOCAL Whole(mean) == <<Test, Bench(mean)>>
LOCAL Split(log) == {<<SubSeq(log, 1, i), SubSeq(log, i + 1, Len(log))>> : i \in 1 .. Len(log) - 1}
LOCAL Without(log, key) == SelectSeq(log, LAMBDA line : line.key # key)
LOCAL Faulty(mean) ==
  {<<log, Bench(mean)>> : log \in Faults(Test)} \cup {<<Test, log>> : log \in Faults(Bench(mean))}
  \cup {<<Test>>, <<Bench(mean)>>, <<Bench(mean), Test>>, <<Test, Test, Bench(mean)>>, <<Test, Bench(mean), <<>> >>}
  \cup {logs \o <<Bench(mean)>> : logs \in Split(Test)} \cup {<<Test>> \o logs : logs \in Split(Bench(mean))}
  \cup {<<Test, Reverse(Bench(mean))>>, <<Without(Test, "device"), Without(Bench(mean), "device")>>}
LOCAL TwiceFaulty ==
  Faulty(2) \cup {<<log, bench>> : log \in Faults(Test), bench \in Faults(Bench(2))}
  \cup {<<log>> : log \in UNION {Faults(log) : log \in Faults(Test)}}
LOCAL Outcomes == [status : Statuses, grade : TwiceFaulty \cup {Whole(mean) : mean \in 0..6}]

LOCAL Accepted(o, reward) == G!Judged(o, reward) /\ G!Evidence(o, reward, 2, 2)

\* A whole grade is evidence, and any one fault makes it none.
ASSUME OneFaultIsNoEvidence ==
  LET reward == Reward(CHOOSE profile \in Profiles : TRUE) IN
  /\ \A mean \in 1..6 : Accepted([status |-> "exit 0", grade |-> Whole(mean)], reward)
  /\ \A status \in Statuses, mean \in 0..3 : \A grade \in Faulty(mean) :
       ~Accepted([status |-> status, grade |-> grade], reward)

\* What is strict enough for evidence is rewarded as correct, with nothing to complain about.
ASSUME EvidenceIsRewarded ==
  \A profile \in Profiles : \A o \in Outcomes :
    LET eval == G!Evaluated(o, Reward(profile)) IN
    Accepted(o, Reward(profile)) =>
      G!Diagnostic(eval) = "none" /\ G!RewardOf(eval, Reward(profile)) >= profile.correct

\* The ladder: only what is correct and has finished its benchmarks rises above the rung of
\* partial progress, what was cut off stays on the lowest, and nothing is worth nothing but
\* a benchmark too good to be true.
ASSUME LadderHolds ==
  \A profile \in Profiles : \A o \in Outcomes :
    LET eval == G!Evaluated(o, Reward(profile))
        value == G!RewardOf(eval, Reward(profile))
    IN  /\ value \in 0 .. profile.correct + profile.cap
        /\ value > profile.correct => G!Diagnostic(eval) = "none"
        /\ G!Diagnostic(eval) = "none" => value >= profile.correct
        /\ ~eval.correct \/ eval.benchExit = {} => value <= profile.correct /\ value <= profile.runnable + profile.partial
        /\ ~eval.success => value <= profile.format
        /\ value = 0 <=> eval.correct /\ \E mean \in Range(eval.means) : mean < 1

\* Progress pays: of three tests each one that passes is worth something, a test that nobody
\* declared and one that has failed before are not, and a candidate cannot take back a check
\* or an exit that is written, nor gain by cutting its log in two.
LOCAL Failing(k) ==
  [Opening("test") EXCEPT ![5].value = "fail"] \o <<Line("test-count", 0, 3)>>
  \o [i \in 1 .. 3 |-> Line("test.status", i - 1, IF i <= k THEN "pass" ELSE "fail")]
LOCAL Value(grade, profile) ==
  G!RewardOf(G!Evaluated([status |-> "exit 0", grade |-> grade], Reward(profile)), Reward(profile))
LOCAL FailingValue(k, more, profile) == Value(<<Failing(k) \o more \o <<Line("test-exit", 0, 1)>> >>, profile)
ASSUME ProgressPays ==
  \A profile \in Profiles :
    /\ \A k \in 1 .. 3 : FailingValue(k - 1, <<>>, profile) < FailingValue(k, <<>>, profile)
    /\ \A k \in 0 .. 2, case \in 0 .. 3 :
         FailingValue(k, <<Line("test.status", case, "pass")>>, profile) = FailingValue(k, <<>>, profile)
    /\ Value(<<Test \o <<Line("test-exit", 0, 1)>>, Bench(2)>>, profile) < Value(Whole(2), profile)
    /\ \A logs \in Split(Test) : Value(logs \o <<Bench(2)>>, profile) = Value(Whole(2), profile)
    /\ Value(<<[Test EXCEPT ![5].value = "fail"] \o <<Test[5]>>, Bench(2)>>, profile) < Value(Whole(2), profile)

\* A failure of the platform is an error whatever stands in the rest of the grade, and no
\* grade speaks for two tiers.
ASSUME PlatformFailuresAreErrors ==
  \A o \in Outcomes :
    /\ \/ o.status = "exit 114"
       \/ \E i \in DOMAIN o.grade : \E line \in Range(o.grade[i]) : line.key = "infrastructure"
       => ~G!EntryProved(o, "same uid")
    /\ (\E log \in G!Phases(o.grade) : \A line \in Range(log) : line.key # "entry") => ~G!EntryProved(o, "same uid")
    /\ ~(G!EntryProved(o, "dedicated") /\ G!EntryProved(o, "same uid"))
=============================================================================
