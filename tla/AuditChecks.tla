------------------------------ MODULE AuditChecks ------------------------------
(***************************************************************************)
(* Audits of the candidates of two runs, evaluated by TLC: what is bound,  *)
(* what is measured, what is written, and what a reader can tell from it.  *)
(***************************************************************************)
LOCAL INSTANCE Integers
LOCAL INSTANCE Sequences
LOCAL INSTANCE FiniteSets

\* The leading bits of two contracts and of their ids, so that all cases occur: the
\* training of run 1 has used the seed that the contract would give, and the audits of the
\* two runs begin with different roles.
LOCAL PrefixOf(digest) ==
  IF "contract" \in DOMAIN digest THEN digest.seed ELSE IF digest.source = "source 1" THEN 4 ELSE 6
LOCAL A == INSTANCE AuditEvidence WITH Prefix <- PrefixOf, Hardened <- {"hard", "harder"}, Material <- 102

LOCAL Tiers == {"same uid", "dedicated"}
LOCAL Isolation(tier) ==
  [tier |-> tier, boundary |-> IF tier = "same uid" THEN "same" ELSE "distinct", requester |-> 1,
   launcher |-> IF tier = "same uid" THEN 1 ELSE 2]
LOCAL MetricOf == [tier \in Tiers |-> IF tier = "same uid" THEN "apptainer latency" ELSE "service latency"]
LOCAL Verifier(n, tier, hardening) ==
  [isolation |-> Isolation(tier), isolationSha |-> Isolation(tier), metric |-> MetricOf[tier],
   assets |-> <<"assets", n>>,
   preflight |-> [isolationSha |-> Isolation(tier), hardening |-> <<hardening>>]]

(***************************************************************************)
(* The runs, and requests about them.                                      *)
(***************************************************************************)
LOCAL Profile(n) == [format |-> 2, runnable |-> 5, partial |-> 75, correct |-> 100, cap |-> 100 * n]
LOCAL Source(n) == IF n = 1 THEN "source 1" ELSE "source 2"
LOCAL PayloadOf(n) ==
  [run |-> n, key |-> <<"key", n>>, prompt |-> <<"prompt", n>>, verifier |-> Verifier(n, "same uid", "hard"),
   resolved |-> [seed |-> 3 + n, profile |-> Profile(n), scratch |-> 0, parallelism |-> n - 1, procs |-> 8]]
LOCAL Launch(n) == [payload |-> PayloadOf(n), sha |-> PayloadOf(n)]
LOCAL Row(n, key, launch) ==
  LET bound == A!BindToLaunch([launch |-> PayloadOf(1), step |-> n, source |-> Source(n),
                               completion |-> <<"completion", n>>, record |-> 0, signature |-> 0], launch)
  IN  [bound EXCEPT !.signature = A!Signature(key, bound)]
LOCAL Candidate(n) == Row(n, PayloadOf(n).key, PayloadOf(n))

LOCAL Request(n, tier) ==
  LET hardening == IF tier = "same uid" THEN "hard" ELSE "harder"
      identity == A!AuditIdentity(Launch(n), Candidate(n), Source(n), <<"assets", n>>, 3 + n)
  IN  [launch |-> Launch(n), launchBytes |-> Launch(n), candidate |-> Candidate(n), row |-> Candidate(n),
       completion |-> <<"completion", n>>, prompt |-> <<"prompt", n>>, submission |-> Source(n),
       identity |-> identity, verifier |-> Verifier(n, tier, hardening), inspection |-> "clean",
       tests |-> n, benches |-> 1,
       config |-> [seed |-> 3 + n, profile |-> Profile(n), scratch |-> 1024, parallelism |-> 1, procs |-> 8],
       reward |-> [assets |-> <<"assets", n>>, seed |-> identity.seed, profile |-> Profile(n), tests |-> n,
                   benches |-> 1, tier |-> tier, preflight |-> hardening, floor |-> 1, baseline |-> 4]]
LOCAL Requests == {Request(n, tier) : n \in 1..2, tier \in Tiers}

\* The binding: no part of a request comes from another run than the rest.
LOCAL Linked ==
  {"launch", "launchBytes", "candidate", "row", "completion", "prompt", "submission", "identity", "verifier",
   "config", "reward"}
ASSUME BoundToOneRun ==
  LET one == Request(1, "dedicated")
      two == Request(2, "dedicated")
      Mix(F) == [field \in DOMAIN one |-> IF field \in F THEN two[field] ELSE one[field]]
  IN  /\ \A r \in Requests : A!Bound(r)
      /\ \A F \in SUBSET Linked, cases \in {{}, {"tests"}} :
           A!Bound(Mix(F \cup cases)) <=> F \cup cases \in {{}, Linked \cup {"tests"}}

\* Nor is it enough to make things up that fit together: a row that the launch's key has not
\* signed, a launch that has been edited, a verifier that does not prove its tier, settings
\* that the run did not resolve to.
LOCAL Swap(r, row) == [r EXCEPT !.candidate = row, !.row = row]
LOCAL Renamed(r) ==
  LET identity == A!AuditIdentity(r.launch, r.candidate, r.submission, r.reward.assets, r.config.seed)
  IN  [r EXCEPT !.identity = identity, !.reward.seed = identity.seed]
LOCAL Relaunched(r, payload, sha, signed) ==
  LET launch == [payload |-> payload, sha |-> sha]
      row == Row(r.tests, payload.key, payload)
      s == [r EXCEPT !.launch = launch, !.launchBytes = launch]
  IN  Renamed(IF signed THEN Swap(s, row) ELSE s)
LOCAL Forgeries(r, n) ==
  LET p == PayloadOf(n) IN
  {Renamed(Swap(r, Row(n, <<"key", 0>>, p))), Renamed(Swap(r, [r.candidate EXCEPT !.step = 7])),
   Renamed(Swap(r, [r.candidate EXCEPT !.step = 7, !.record.step = 7])),
   Renamed([r EXCEPT !.submission = "source 0"]), [r EXCEPT !.launchBytes.payload.run = 0],
   Relaunched(r, [p EXCEPT !.run = 0], p, FALSE), Relaunched(r, [p EXCEPT !.run = 0], [p EXCEPT !.run = 0], FALSE)}
  \cup {Relaunched(r, payload, payload, TRUE) :
          payload \in {[p EXCEPT !.verifier.assets = <<"assets", 0>>], [p EXCEPT !.verifier.metric = "other"]}}
  \cup {[r EXCEPT !.reward.seed = @ + 2], [r EXCEPT !.reward.profile.cap = 0],
        [r EXCEPT !.identity.seed = @ + 2, !.identity.id.seed = @ + 2, !.reward.seed = @ + 2]}
  \cup {[r EXCEPT !.config.scratch = 0], [r EXCEPT !.config.parallelism = 2], [r EXCEPT !.config.procs = 64]}
  \cup {[r EXCEPT !.verifier.isolationSha.requester = 3, !.verifier.preflight.isolationSha.requester = 3],
        [r EXCEPT !.verifier.metric = "other"],
        [r EXCEPT !.verifier.preflight.hardening = <<>>], [r EXCEPT !.verifier.preflight.hardening = <<"soft">>],
        [r EXCEPT !.verifier.preflight.isolationSha.launcher = 3]}
  \cup {[r EXCEPT !.verifier.isolation = i, !.verifier.isolationSha = i, !.verifier.preflight.isolationSha = i] :
          i \in {[r.verifier.isolation EXCEPT !.launcher = 0], [r.verifier.isolation EXCEPT !.launcher = 3 - @],
                 [r.verifier.isolation EXCEPT !.boundary = "none"]}}
  \cup {[r EXCEPT !.tests = 0, !.reward.tests = 0], [r EXCEPT !.benches = 0, !.reward.benches = 0]}
ASSUME ForgeriesAreNotBound ==
  \A n \in 1..2, tier \in Tiers : \A r \in Forgeries(Request(n, tier), n) : ~A!Bound(r)

(***************************************************************************)
(* The measurements.                                                       *)
(***************************************************************************)
LOCAL Line(key, case, value) == [key |-> key, case |-> case, value |-> value]
LOCAL Opening(phase, tier, hardening, device) ==
  <<Line("entry", 0, phase), Line("tier", 0, tier), Line("metric", 0, MetricOf[tier]),
    Line("hardening", 0, hardening), Line("check", 0, "pass"), Line("device", 0, device)>>
LOCAL Grade(tests, tier, hardening, device, mean) ==
  <<Opening("test", tier, hardening, device) \o <<Line("test-count", 0, tests), Line("test-exit", 0, 0)>>
      \o [i \in 1 .. tests |-> Line("test.spec", i - 1, "spec")]
      \o [i \in 1 .. tests |-> Line("test.status", i - 1, "pass")],
    Opening("benchmark", tier, hardening, device) \o
      <<Line("benchmark-count", 0, 1), Line("benchmark.spec", 0, "spec"), Line("benchmark.runs", 0, 3),
        Line("benchmark.mean", 0, mean), Line("benchmark.best", 0, mean), Line("benchmark.worst", 0, mean),
        Line("benchmark-exit", 0, 0)>> >>
LOCAL Result(r, device, mean) ==
  [isolation |-> r.verifier.isolation,
   outcome |-> [status |-> "exit 0",
                grade |-> Grade(r.tests, r.verifier.isolation.tier, r.reward.preflight, device, mean)]]

\* The candidate is twice as fast as the reference but in the blocks in slow.
LOCAL Times(r, slow) ==
  [k \in 1 .. 2 * A!Blocks |->
     LET block == (k - 1) \div 2
         role == IF k % 2 = 1 THEN A!Starts(r.identity.id, block)
                 ELSE CHOOSE other \in {"reference", "candidate"} : other # A!Starts(r.identity.id, block)
     IN  IF role = "candidate" /\ block \notin slow THEN 3 ELSE 4]
LOCAL Results(r, device, slow) == [k \in 1 .. 2 * A!Blocks |-> Result(r, device, Times(r, slow)[k])]

LOCAL Slow == {{}, {0}, {3, 10}, {0, 1, 2}, {4, 6, 8, 9}, 0..10}
LOCAL Inspected == {[r EXCEPT !.inspection = inspection] : r \in Requests, inspection \in {"clean", "suspicious"}}

\* What is built stands up to its own checks, and is accepted for nine wins in eleven.
ASSUME ManifestsHold ==
  \A r \in Inspected, slow \in Slow : \E m \in A!Published(r, Results(r, "gpu", slow)) :
    /\ LET checks == A!Checks(m) IN \A check \in DOMAIN checks : checks[check] \/ check = "inspection"
    /\ m.accepted <=> Cardinality(slow) <= 2 /\ r.inspection = "clean"
    /\ m.seed # r.config.seed

\* One bad measurement among the twenty-two, and nothing is published.
LOCAL BadResults(r, good) ==
  LET tier == r.verifier.isolation.tier
      other == CHOOSE t \in Tiers : t # tier
      grade == good.outcome.grade
  IN  {Result(r, "other gpu", 4), [good EXCEPT !.isolation = Isolation(other)],
       [good EXCEPT !.outcome.status = "timeout"],
       [good EXCEPT !.outcome.grade = <<grade[1]>>]}
      \cup {[good EXCEPT !.outcome.grade[phase][4].value = IF @ = "hard" THEN "harder" ELSE "hard"] : phase \in 1..2}
      \cup {[good EXCEPT !.outcome.grade[1][5].value = "fail"], [good EXCEPT !.outcome.grade[2] = Tail(@)]}
ASSUME OneBadMeasurementIsEnough ==
  \A r \in Requests : LET good == Results(r, "gpu", {}) IN
    \A k \in DOMAIN good : \A bad \in BadResults(r, good[k]) : A!Published(r, [good EXCEPT ![k] = bad]) = {}

(***************************************************************************)
(* Whoever changes one thing in a manifest is found out.  The seed of the  *)
(* training is vouched for by the launch alone.                            *)
(***************************************************************************)
LOCAL ManifestOf(r, device, slow) == CHOOSE m \in A!Published(r, Results(r, device, slow)) : TRUE
LOCAL Tellable(m) == DOMAIN m \ {"trainingSeed"}
LOCAL Edits(m, other) ==
  {[m EXCEPT ![field] = other[field]] : field \in {f \in Tellable(m) : m[f] # other[f]}}
  \cup {[m EXCEPT !.accepted = ~@], [m EXCEPT !.decision.accepted = ~@], [m EXCEPT !.decision.wins = @ - 1],
        [m EXCEPT !.inspection = IF @ = "clean" THEN "suspicious" ELSE "clean"],
        [m EXCEPT !.isolationSha = other.isolation, !.preflight.isolationSha = other.isolation],
        [m EXCEPT !.preflight.isolationSha = other.isolation], [m EXCEPT !.id.seed = @ + 2],
        [m EXCEPT !.seed = @ + 2, !.id.seed = @ + 2],
        LET fewer == SubSeq(m.blocks, 1, Len(m.blocks) - 1) IN
        [m EXCEPT !.blocks = fewer, !.decision = A!Decision(fewer), !.accepted = FALSE],
        [m EXCEPT !.metric = other.metric,
                  !.blocks = [i \in DOMAIN m.blocks |-> [m.blocks[i] EXCEPT !.reference.metric = other.metric,
                                                                         !.candidate.metric = other.metric]]]}
LOCAL BlockEdits(m, other) ==
  LET b == m.blocks IN
  {[m EXCEPT !.blocks = SubSeq(@, 1, i - 1) \o SubSeq(@, i + 1, Len(@))] : i \in DOMAIN b}
  \cup {[m EXCEPT !.blocks[i] = b[j]] : <<i, j>> \in {ij \in (DOMAIN b) \X (DOMAIN b) : ij[1] # ij[2]}}
  \cup UNION {{[m EXCEPT !.blocks[i].win = ~@], [m EXCEPT !.blocks[i].speedup = @ + 1],
               [m EXCEPT !.blocks[i].first = IF @ = "reference" THEN "candidate" ELSE "reference"],
               [m EXCEPT !.blocks[i].reference = b[i].candidate, !.blocks[i].candidate = b[i].reference],
               [m EXCEPT !.blocks[i].candidate = b[i].reference], [m EXCEPT !.blocks[i].candidate.time = 1],
               [m EXCEPT !.blocks[i].candidate.file[1] = @ + 1]} : i \in DOMAIN b}
  \cup UNION {{[m EXCEPT !.blocks[i].candidate[field] = other.blocks[i].candidate[field]] :
                 field \in {f \in DOMAIN b[i].candidate : b[i].candidate[f] # other.blocks[i].candidate[f]}} : i \in DOMAIN b}
ASSUME EditsAreSeen ==
  \A n \in 1..2, tier \in Tiers, slow \in {{1, 2}, {0, 1, 2}} :
    LET m == ManifestOf(Request(n, tier), "gpu", slow)
        other == ManifestOf(Request(3 - n, CHOOSE t \in Tiers : t # tier), "other gpu", {5})
    IN  \A edited \in Edits(m, other) \cup BlockEdits(m, other) :
          LET checks == A!Checks(edited) IN \E check \in DOMAIN checks : ~checks[check]

\* An audit of something else is another audit, and the cases of the training come up in none.
ASSUME AuditsAreApart ==
  LET Identity(args) ==
        A!AuditIdentity(Launch(args[1]), Candidate(args[2]), Source(args[3]), <<"assets", args[4]>>, args[5])
      Args == {<<a, b, c, d, seed>> : a \in 1..2, b \in 1..2, c \in 1..2, d \in 1..2, seed \in 3..7}
  IN  /\ \A x, y \in Args : Identity(x).id = Identity(y).id => SubSeq(x, 1, 4) = SubSeq(y, 1, 4)
      /\ \A x \in Args : Identity(x).seed # x[5] /\ Identity(x).seed \in 0..7
      /\ {A!Starts(Identity(x).id, 0) : x \in Args} = {"reference", "candidate"}
=============================================================================
