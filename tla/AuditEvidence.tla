----------------------------- MODULE AuditEvidence -----------------------------
(***************************************************************************)
(* What an audited artifact says, and what it rests on                     *)
(* (src/crates/ferrl/src/artifact.rs).  A request names one candidate of   *)
(* one launch; it is bound before anything is measured.  The audit runs    *)
(* the candidate against the reference in blocks, on one device, under a   *)
(* seed that nobody has chosen.  The manifest records all of it, and its   *)
(* checks can be made again by whoever holds it.                           *)
(*                                                                         *)
(* A digest is the value it is made of.  Signatures belong to a key.       *)
(* Encodings, the form of digests and of notes, file lengths, and the      *)
(* fields that are copied into the manifest for the reader's sake only are *)
(* left out.                                                               *)
(***************************************************************************)
EXTENDS CandidateChoice

CONSTANTS Prefix(_),     \* the leading bits of a digest, as a number
          Hardened,      \* the records that validate_runtime_hardening_record accepts
          Material       \* the speedup that counts as a win, in percent

LOCAL G == INSTANCE Grading

(***************************************************************************)
(* Candidate rows (telemetry.rs).                                          *)
(***************************************************************************)
RecordSha(row) == [launch |-> row.launch, step |-> row.step, source |-> row.source, completion |-> row.completion]
BindToLaunch(row, launch) == [row EXCEPT !.launch = launch, !.record = RecordSha([row EXCEPT !.launch = launch])]
Signature(key, row) == [key |-> key, launch |-> row.launch, record |-> row.record]
SignedProvenance(row, key) == row.record = RecordSha(row) /\ row.signature = Signature(key, row)

(***************************************************************************)
(* The identity of an audit.                                               *)
(***************************************************************************)
Contract(launch, candidate, submission, assets) ==
  [launch |-> launch, candidate |-> candidate, source |-> submission, assets |-> assets,
   blocks |-> Blocks, wins |-> RequiredWins, material |-> Material]

\* The seed of the cases is never the one that the training has used.
SecretSeed(contract, trainingSeed) ==
  LET prefix == Prefix(contract) IN
  IF prefix # trainingSeed THEN prefix ELSE IF prefix % 2 = 0 THEN prefix + 1 ELSE prefix - 1

AuditId(contract, seed) == [contract |-> contract, seed |-> seed]

AuditIdentity(launch, candidate, submission, assets, trainingSeed) ==
  LET contract == Contract(launch.sha, candidate.record, submission, assets)
      seed == SecretSeed(contract, trainingSeed)
  IN  [contract |-> contract, seed |-> seed, id |-> AuditId(contract, seed)]

Starts(id, i) == First(Prefix(id) % 2 = 0, i)

(***************************************************************************)
(* A verifier, and the evidence that it is isolated.                       *)
(***************************************************************************)
Boundaries == {<<"same uid", "same">>, <<"dedicated", "distinct">>}

ProvesItsTier(isolation) ==
  /\ <<isolation.tier, isolation.boundary>> \in Boundaries
  /\ isolation.requester # 0 /\ isolation.launcher # 0
  /\ isolation.tier = "same uid" <=> isolation.requester = isolation.launcher

Consistent(verifier) ==
  /\ ProvesItsTier(verifier.isolation) /\ verifier.isolationSha = verifier.isolation
  /\ verifier.metric = G!Metric(verifier.isolation.tier)
  /\ verifier.preflight.isolationSha = verifier.isolationSha
  /\ Len(verifier.preflight.hardening) = 1 /\ verifier.preflight.hardening[1] \in Hardened

(***************************************************************************)
(* A request is about one launch, one row and one configuration.           *)
(***************************************************************************)
\* What a raw setting means: zero, or nothing, is the default.
Effective(resolved, item) ==
  LET default == [scratch |-> 1024, parallelism |-> 1, procs |-> 64]
  IN  IF item \in DOMAIN default /\ resolved[item] = 0 THEN default[item] ELSE resolved[item]
ResolvedConfig(resolved, config) == \A item \in DOMAIN config : config[item] = Effective(resolved, item)

Bound(r) ==
  /\ r.launchBytes = r.launch /\ r.launch.sha = r.launch.payload
  /\ SignedProvenance(r.candidate, r.launch.payload.key)
  /\ r.row = r.candidate /\ r.candidate.launch = r.launch.sha
  /\ r.candidate.completion = r.completion /\ r.candidate.source = r.submission
  /\ r.launch.payload.prompt = r.prompt
  /\ Consistent(r.launch.payload.verifier) /\ Consistent(r.verifier)
  /\ r.launch.payload.verifier.assets = r.reward.assets /\ r.verifier.assets = r.reward.assets
  /\ r.reward.seed = r.identity.seed /\ r.reward.profile = r.config.profile
  /\ r.reward.tests = r.tests /\ r.reward.benches = r.benches /\ r.tests # 0 /\ r.benches # 0
  /\ r.identity = AuditIdentity(r.launch, r.candidate, r.submission, r.reward.assets, r.config.seed)
  /\ ResolvedConfig(r.launch.payload.resolved, r.config)

(***************************************************************************)
(* The measurements, in the order in which they are made.                  *)
(***************************************************************************)
\* A result has the isolation of the verifier, and the outcome of its sandbox.
Hardening(result) ==
  {G!FirstOf(log, "hardening") : log \in G!Phases(result.outcome.grade)}
DeviceOf(result) == G!Only(G!TestLog(result.outcome.grade), "device")
TimeOf(result, r) == 2 ^ G!Geomean(G!Evaluated(result.outcome, r.reward).means)

ExecutionHolds(result, r) ==
  /\ Consistent(r.verifier) /\ result.isolation = r.verifier.isolation
  /\ Len(result.outcome.grade) = 2 /\ Hardening(result) = {{r.verifier.preflight.hardening[1]}}
  /\ G!Evidence(result.outcome, r.reward, r.tests, r.benches)

Execution(role, i, result, r) ==
  [role |-> role, file |-> <<i, role>>, isolation |-> result.isolation, hardening |-> Hardening(result),
   metric |-> G!Metric(result.isolation.tier), device |-> DeviceOf(result), time |-> TimeOf(result, r),
   tests |-> r.tests, benches |-> r.benches]

Block(results, i, r) ==
  LET first == Starts(r.identity.id, i)
      reference == IF first = "reference" THEN results[2 * i + 1] ELSE results[2 * i + 2]
      candidate == IF first = "reference" THEN results[2 * i + 2] ELSE results[2 * i + 1]
      speedup == Speedup(first, TimeOf(results[2 * i + 1], r), TimeOf(results[2 * i + 2], r))
  IN  [index |-> i, first |-> first, reference |-> Execution("reference", i, reference, r),
       candidate |-> Execution("candidate", i, candidate, r), speedup |-> speedup, win |-> speedup > Material]

AuditHolds(results, r) ==
  /\ \A i \in DOMAIN results : ExecutionHolds(results[i], r)
  /\ \A i, j \in DOMAIN results : DeviceOf(results[i]) = DeviceOf(results[j])

(***************************************************************************)
(* The manifest, and what anybody can check in it.                         *)
(***************************************************************************)
Decision(blocks) ==
  LET speedups == [i \in DOMAIN blocks |-> blocks[i].speedup] IN
  [blocks |-> Len(blocks), wins |-> Cardinality({i \in DOMAIN blocks : speedups[i] > Material}),
   accepted |-> Accepted(speedups, Material)]

BundleManifest(r, blocks) ==
  [launch |-> r.launch.sha, candidate |-> r.candidate.record, source |-> r.submission,
   inspection |-> r.inspection, trainingSeed |-> r.config.seed, assets |-> r.verifier.assets,
   tests |-> r.tests, benches |-> r.benches, contract |-> r.identity.contract, seed |-> r.identity.seed,
   id |-> r.identity.id, isolation |-> r.verifier.isolation, isolationSha |-> r.verifier.isolationSha,
   metric |-> r.verifier.metric, preflight |-> r.verifier.preflight, device |-> blocks[1].reference.device,
   blocks |-> blocks, decision |-> Decision(blocks),
   accepted |-> Decision(blocks).accepted /\ r.inspection = "clean"]

\* What is published of a request and its measurements, if anything is.
Published(r, results) ==
  LET blocks == [i \in 1 .. Blocks |-> Block(results, i - 1, r)]
  IN  IF Bound(r) /\ AuditHolds(results, r) THEN {BundleManifest(r, blocks)} ELSE {}

ExecutionChecks(execution, block, m) ==
  /\ execution.file = <<block.index, execution.role>>
  /\ execution.isolation = m.isolation /\ execution.metric = m.metric /\ execution.device = m.device
  /\ execution.hardening = {{m.preflight.hardening[1]}}
  /\ execution.tests = m.tests /\ execution.benches = m.benches

BlockChecks(block, m) ==
  /\ block.reference.role = "reference" /\ block.candidate.role = "candidate"
  /\ ExecutionChecks(block.reference, block, m) /\ ExecutionChecks(block.candidate, block, m)
  /\ block.speedup = Speedup("reference", block.reference.time, block.candidate.time)
  /\ block.win <=> block.speedup > Material

Checks(m) ==
  [seed |-> m.seed # m.trainingSeed,
   cases |-> m.tests > 0 /\ m.benches > 0,
   identity |-> /\ m.contract = Contract(m.launch, m.candidate, m.source, m.assets)
                /\ m.seed = SecretSeed(m.contract, m.trainingSeed) /\ m.id = AuditId(m.contract, m.seed),
   verifier |-> /\ <<m.isolation.tier, m.isolation.boundary>> \in Boundaries
                /\ m.isolation.requester # 0 /\ m.isolation.launcher # 0 /\ m.isolationSha = m.isolation
                /\ m.metric = G!Metric(m.isolation.tier) /\ m.preflight.isolationSha = m.isolationSha
                /\ Len(m.preflight.hardening) = 1,
   pairs |-> Len(m.blocks) = Blocks /\ \A i \in DOMAIN m.blocks :
               m.blocks[i].index = i - 1 /\ m.blocks[i].first = Starts(m.id, i - 1),
   executions |-> \A i \in DOMAIN m.blocks : BlockChecks(m.blocks[i], m),
   decision |-> m.decision = Decision(m.blocks) /\ m.decision.blocks = Blocks,
   inspection |-> m.inspection = "clean",
   verdict |-> m.accepted <=> m.decision.accepted /\ m.inspection = "clean"]
=============================================================================
