------------------------------ MODULE TrainerRun ------------------------------
(***************************************************************************)
(* The distributed run of src/crates/ferrl/src/trainer.rs: every rank of   *)
(* one execution world calls resume_latest(), and run() then trains window *)
(* by window, writing telemetry and checkpoints, until the steps are done  *)
(* or a preemption flag stops the world.  A launcher starts the job again  *)
(* after every stop that left work to do.                                  *)
(*                                                                         *)
(* What keeps the ranks together is a chain of collectives.  A rank does   *)
(* the local work of one call (an action named for it), enters the status  *)
(* reduction of that call (Join), and goes on from the reduced result      *)
(* (Reduce), which every rank receives in one instant: the contract of     *)
(* AllReduce, which Rendezvous implements.  pos[r] is where rank r is: the *)
(* call it is in, and the loop variables that matter after it.             *)
(*                                                                         *)
(* A run is data-parallel or, when Sharded, tensor-parallel: the code has  *)
(* no run that is both (validate_tensor_parallel_comm rejects it).         *)
(***************************************************************************)
EXTENDS Integers, Sequences, SequencesExt, FiniteSets, Functions

CONSTANTS Ranks, Primary,    \* the execution world and its rank 0
          Sharded,           \* tensor-parallel (TRUE) or data-parallel execution
          Steps,             \* config.steps
          Accum,             \* config.grad_accum_steps
          Mu,                \* config.mu: epochs per window
          Every,             \* config.checkpoint_every; 0 when it is None
          KL,                \* beta > 0: a degenerate group still has a loss
          LogCandidates,     \* config.candidate_log_top_k > 0
          Flagged,           \* the ranks whose launcher installed a preemption flag
          MaxAttempts,       \* bound: launches of the job
          MaxFaults          \* bound: failures, kills and preemption signals

ASSUME RunAssumption ==
  /\ IsFiniteSet(Ranks) /\ Primary \in Ranks /\ Flagged \subseteq Ranks
  /\ Sharded \in BOOLEAN /\ KL \in BOOLEAN /\ LogCandidates \in BOOLEAN
  /\ Steps \in Nat /\ Every \in Nat
  /\ Accum \in Nat \ {0} /\ Mu \in Nat \ {0}
  /\ MaxAttempts \in Nat /\ MaxFaults \in Nat

VARIABLES
  pos,        \* pos[r]: the call rank r is in, with its loop variables
  entered,    \* the ranks waiting in the reduction of that call
  gives,      \* gives[r]: what r contributes to it
  comm,       \* "live", or "dead" once a collective has failed
  policy,     \* policy[r]: the updates in the weights, groups sampled, adapter mode
  prestate,   \* prestate[r]: the snapshot a rollback restores
  live,       \* live[r]: the groups of the window r holds to be non-degenerate
  mark,       \* mark[r]: the rollback boundary of r's candidate stream
  flag,       \* flag[r]: the preemption flag of r
  store,      \* store[n]: the policy state in checkpoints/step-n
  metrics,    \* metrics[r]: the steps in r's metrics.jsonl
  candidates, \* candidates[r]: the windows in r's candidates.jsonl
  torn,       \* has a stream been left with rows that were not rolled back?
  attempts, faults               \* counters that the bounds cap

world == <<pos, entered, gives, comm>>
memory == <<policy, prestate, live, mark>>
disk == <<store, metrics, candidates, torn>>
vars == <<world, memory, flag, disk, attempts, faults>>

(***************************************************************************)
(* The straight-line parts of the code, as the calls that rendezvous in    *)
(* them.  A call stands for the consecutive status reductions of one       *)
(* function between which no state changes.                                *)
(***************************************************************************)
ResumeLatest == IF Sharded THEN <<"capture", "validate", "discover">>
                           ELSE <<"identity", "discover">>
LoadResumePoint == IF Sharded THEN <<"binding", "payload", "apply">>
                              ELSE <<"capture", "binding", "payload", "apply">>
Prepare == IF Sharded THEN <<"contract", "publication", "rebinding", "vars", "optimizer">>
           ELSE <<"reidentity", "publication", "rebinding", "vars", "schema", "optimizer">>
CollectGroup ==
  IF Sharded THEN <<"preflight", "request", "generate", "decode", "reward", "canonical",
                    "result", "finalize">>
  ELSE <<"preflight", "generate", "decode", "reward", "result", "finalize">>
WriteCandidates == <<"boundary", "append">>
AccumulateStep == <<"backward", "reduction", "post">>
WriteCheckpoint == <<"rebind", "state", "publish">>

StraightLines == {ResumeLatest, LoadResumePoint, Prepare, CollectGroup,
                  WriteCandidates, AccumulateStep, WriteCheckpoint}

\* The call after c in the straight-line code that c belongs to.
Following(c) ==
  LET line == CHOOSE s \in StraightLines : Contains(s, c)
  IN  line[(CHOOSE i \in 1..Len(line) : line[i] = c) + 1]

\* The calls that only check something: they touch no state of the model.
Checks == {"validate", "identity", "binding", "payload", "contract",
           "reidentity", "rebinding", "vars", "schema", "optimizer", "request",
           "decode", "result", "finalize", "backward", "idle", "rebind", "state"}

\* How resume_latest returned.  "restored": the failed transaction was rolled
\* back on every rank; "discard": the rollback failed somewhere; "aborted":
\* an error outside of a transaction; "terminal": the communicator died.
Start == [call |-> Head(ResumeLatest), step |-> 0, group |-> 0, epoch |-> 0,
          resumed |-> FALSE, stop |-> FALSE, verdict |-> "none"]
Goto(p, c) == [p EXCEPT !.call = c]
Return(p, v) == [p EXCEPT !.verdict = v]
Over(r) == pos[r].verdict # "none"

FreshPolicy == [updates |-> <<>>, sampled |-> 0, adapter |-> TRUE]
NoPolicy == [updates |-> <<>>, sampled |-> -1, adapter |-> FALSE]
Nothing == [failed |-> FALSE, value |-> 0]

\* Mutant: the first step directory found.
OldestFound == LET S == {n \in 1..Steps : store[n] # NoPolicy}
               IN IF S = {} THEN 0 ELSE CHOOSE n \in S : \A m \in S : m >= n

\* latest_checkpoint: the newest published step, 0 when there is none.
Newest == LET S == {n \in 1..Steps : store[n] # NoPolicy}
          IN IF S = {} THEN 0 ELSE CHOOSE n \in S : \A m \in S : m <= n

\* Under tensor parallelism only the primary holds the run's streams.
Writes(r) == Sharded => r = Primary

Boot ==
  /\ pos = [r \in Ranks |-> Start]
  /\ entered = {}
  /\ gives = [r \in Ranks |-> Nothing]
  /\ comm = "live"
  /\ policy = [r \in Ranks |-> FreshPolicy]
  /\ prestate = [r \in Ranks |-> NoPolicy]
  /\ live = [r \in Ranks |-> {}]
  /\ mark = [r \in Ranks |-> 0]
  /\ flag = [r \in Ranks |-> FALSE]

Init ==
  /\ Boot
  /\ store = [n \in 1..Steps |-> NoPolicy]
  /\ metrics = [r \in Ranks |-> <<>>]
  /\ candidates = [r \in Ranks |-> <<>>]
  /\ torn = FALSE
  /\ attempts = 1
  /\ faults = 0

(***************************************************************************)
(* Where a rank goes from a reduction.                                     *)
(***************************************************************************)
\* A degenerate group has no loss, unless beta > 0; items of a window.
Items(r) == IF KL THEN 1..Accum ELSE live[r]

\* coordinate_comm_call of the data-parallel path wraps every group; under
\* tensor parallelism only a group that is scored rendezvouses.
Rendezvouses(r, g) == ~Sharded \/ g \in Items(r)

\* run(): the window of the step, or the end of the loop.
Window(p) ==
  IF p.step = Steps THEN Return(p, "completed")
  ELSE IF LogCandidates THEN [p EXCEPT !.call = "preflight", !.group = 1]
  ELSE Goto(p, "snapshot")

NextStep(p) == Window([p EXCEPT !.step = @ + 1, !.group = 0, !.epoch = 0])

\* update_window: an epoch, or the telemetry of the window.
Epoch(p) == IF p.epoch < Mu THEN [p EXCEPT !.call = "backward", !.epoch = @ + 1]
            ELSE Goto(p, "metrics")

\* Mutant: a rank whose own groups are all degenerate skips the update.
UpdateLocally(p, r, nLive) ==
  IF Items(r) = {} THEN Goto(p, "metrics") ELSE Epoch(p)

\* run_window: skip the update of a window without a live item.
Update(p, r, nLive) == IF nLive = 0 THEN Goto(p, "metrics") ELSE Epoch(p)

\* run_window, after its groups: the counts cross the trainer's communicator,
\* whose world is 1 under tensor parallelism.
Collected(p, r) ==
  IF Sharded THEN Update(p, r, Cardinality(Items(r))) ELSE Goto(p, "tokens")

\* The first of the groups G to materialize, or the end of the window's groups.
MaterializeFirst(p, r, G) ==
  IF G = {} THEN Collected(p, r)
  ELSE [p EXCEPT !.call = "materialize",
                 !.group = CHOOSE h \in G : \A k \in G : h <= k]

\* From group g on, only the groups that rendezvous.
MaterializeFrom(p, r, g) ==
  MaterializeFirst(p, r, {h \in g..Accum : Rendezvouses(r, h)})

CollectFrom(p, r, g) ==
  IF g > Accum THEN Collected(p, r)
  ELSE [p EXCEPT !.call = "preflight", !.group = g]

\* A group has passed its validation.
GroupCollected(p, r) ==
  IF LogCandidates
  THEN IF p.group < Accum THEN CollectFrom(p, r, p.group + 1)
       ELSE Goto(p, "boundary")
  ELSE IF Rendezvouses(r, p.group) THEN Goto(p, "materialize")
  ELSE CollectFrom(p, r, p.group + 1)

GroupMaterialized(p, r) ==
  IF LogCandidates THEN MaterializeFrom(p, r, p.group + 1)
  ELSE CollectFrom(p, r, p.group + 1)

\* Mutant: the cadence alone, without the final step.
DueByCadence(n) == Every > 0 /\ n % Every = 0

\* maybe_checkpoint: on the cadence, and always at the final step.
Due(n) == Every > 0 /\ (n % Every = 0 \/ n = Steps)

MaybeCheckpoint(p) ==
  IF Due(p.step + 1) THEN Goto(p, Head(WriteCheckpoint)) ELSE Goto(p, "poll")

\* A preemption that arrives after the final step is moot.
MaybePreempt(p, requests) ==
  IF requests > 0 /\ p.step + 1 < Steps
  THEN [p EXCEPT !.call = Head(WriteCheckpoint), !.stop = TRUE]
  ELSE NextStep(p)

\* coordinate_resume_step: -1 is a failed scan, 0 a fresh start, n + 1 step n.
Branch(p, signal) ==
  IF signal = 0 THEN Goto(p, Head(Prepare))
  ELSE [p EXCEPT !.call = Head(LoadResumePoint), !.step = signal - 1,
                 !.resumed = TRUE]

\* The two transactions that are rolled back: a resume, up to the handoff to
\* the optimizer, and the groups of a window.
InResume(p) ==
  \/ p.resumed /\ p.call \in ToSet(LoadResumePoint \o Prepare)
  \/ Sharded /\ p.call \in {"validate", "discover"}
InCollection(p) ==
  p.call \in ToSet(CollectGroup \o WriteCandidates) \cup {"materialize", "truncate"}

Fail(p, sum) ==
  IF p.call = "append" THEN Goto(p, "truncate")
  ELSE IF p.call \in {"capture", "rollback", "unresume"} THEN Return(p, "discard")
  ELSE IF InResume(p) THEN Goto(p, "unresume")
  ELSE IF InCollection(p) THEN Goto(p, "rollback")
  ELSE IF p.call = "publish" /\ sum > 1 THEN Return(p, "ambiguous")
  ELSE Return(p, "aborted")

Succeed(p, r, sum) ==
  CASE p.call = "discover"    -> Branch(p, sum)
    [] p.call = "apply"       -> Goto(p, Head(Prepare))
    [] p.call = "publication" -> Goto(p, IF sum > 0 THEN "rebinding" ELSE "vars")
    [] p.call = "optimizer"   -> Window(p)
    [] p.call = "snapshot"    -> CollectFrom(p, r, 1)
    [] p.call = "finalize"    -> GroupCollected(p, r)
    [] p.call = "append"      -> MaterializeFrom(p, r, 1)
    [] p.call = "truncate"    -> Goto(p, "rollback")
    [] p.call = "materialize" -> GroupMaterialized(p, r)
    [] p.call = "tokens"      -> Goto(p, "livecount")
    [] p.call = "livecount"   -> Update(p, r, sum)
    [] p.call = "reduction"   -> Goto(p, IF sum > 0 THEN "post" ELSE "idle")
    [] p.call \in {"post", "idle"} -> Epoch(p)
    [] p.call = "metrics"     -> MaybeCheckpoint(p)
    [] p.call = "publish"     -> IF p.stop THEN Return(p, "preempted")
                                 ELSE Goto(p, "poll")
    [] p.call = "poll"        -> MaybePreempt(p, sum)
    [] p.call \in {"rollback", "unresume"} -> Return(p, "restored")
    [] OTHER                  -> Goto(p, Following(p.call))

(***************************************************************************)
(* The local work of the calls.                                            *)
(***************************************************************************)
Fault == faults < MaxFaults /\ faults' = faults + 1

\* A rank ends its local work and enters the reduction of its call.
Enter(r, bad, value) ==
  /\ entered' = entered \cup {r}
  /\ gives' = [gives EXCEPT ![r] = [failed |-> bad, value |-> value]]
  /\ UNCHANGED <<pos, comm, flag, attempts>>

Join(r, bad, value) ==
  /\ Enter(r, bad, value)
  /\ IF bad THEN Fault ELSE UNCHANGED faults

At(r, c) == pos[r].call = c /\ ~Over(r) /\ r \notin entered

Check(r) ==
  /\ \E c \in Checks : At(r, c)
  /\ \E bad \in BOOLEAN : Join(r, bad, 0)
  /\ UNCHANGED <<memory, disk>>

\* preflight_checkpoint_publication: a rank may be the only one with a flag.
AnnouncePublication(r) ==
  /\ At(r, "publication")
  /\ Join(r, FALSE, IF Every > 0 \/ r \in Flagged THEN 1 ELSE 0)
  /\ UNCHANGED <<memory, disk>>

\* capture_ordinary_resume_prestate
CapturePrestate(r) ==
  /\ At(r, "capture")
  /\ \/ /\ Join(r, FALSE, 0)
        /\ prestate' = [prestate EXCEPT ![r] = policy[r]]
     \/ /\ Join(r, TRUE, 0)
        /\ UNCHANGED prestate
  /\ UNCHANGED <<policy, live, mark, disk>>

\* scan_local_resume: only the primary scans; its peers add zero.
ScanLocalResume(r) ==
  /\ At(r, "discover")
  /\ \/ r # Primary /\ Join(r, FALSE, 0)
     \/ r = Primary /\ Join(r, FALSE, IF Newest = 0 THEN 0 ELSE Newest + 1)
     \/ r = Primary /\ Join(r, TRUE, -1)
  /\ UNCHANGED <<memory, disk>>

\* Mutant: the adapter is loaded and the sampler is left where it was.
ApplyAdapterOnly(r) ==
  /\ At(r, "apply")
  /\ Join(r, FALSE, 0)
  /\ policy' = [policy EXCEPT ![r].updates = store[pos[r].step].updates]
  /\ UNCHANGED <<prestate, live, mark, disk>>

\* Apply the prepared adapter, then the sampler; either may fail half way.
ApplyCheckpoint(r) ==
  /\ At(r, "apply")
  /\ LET saved == store[pos[r].step]
         half == [policy[r] EXCEPT !.updates = saved.updates]
         whole == [half EXCEPT !.sampled = saved.sampled]
     IN  \/ Join(r, FALSE, 0) /\ policy' = [policy EXCEPT ![r] = whole]
         \/ /\ Join(r, TRUE, 0)
            /\ \E q \in {policy[r], half, whole} : policy' = [policy EXCEPT ![r] = q]
  /\ UNCHANGED <<prestate, live, mark, disk>>

\* Mutant: the sampler keeps the position the failed window left it at.
RestoreWeightsOnly(r) ==
  \/ /\ prestate[r] # NoPolicy
     /\ Join(r, FALSE, 0)
     /\ policy' = [policy EXCEPT ![r].updates = prestate[r].updates,
                                 ![r].adapter = prestate[r].adapter]
  \/ /\ IF prestate[r] = NoPolicy THEN Enter(r, TRUE, 0) /\ UNCHANGED faults
                                 ELSE Join(r, TRUE, 0)
     /\ UNCHANGED policy

\* Put the snapshot back: adapter mode, sampler and weights, or report an error.
Restore(r) ==
  \/ /\ prestate[r] # NoPolicy
     /\ Join(r, FALSE, 0)
     /\ policy' = [policy EXCEPT ![r] = prestate[r]]
  \/ /\ IF prestate[r] = NoPolicy THEN Enter(r, TRUE, 0) /\ UNCHANGED faults
                                 ELSE Join(r, TRUE, 0)
     /\ UNCHANGED policy

RollbackResume(r) ==
  /\ At(r, "unresume")
  /\ Restore(r)
  /\ UNCHANGED <<prestate, live, mark, disk>>

RollbackGroups(r) ==
  /\ At(r, "rollback")
  /\ Restore(r)
  /\ UNCHANGED <<prestate, live, mark, disk>>

SnapshotWindow(r) ==
  /\ At(r, "snapshot")
  /\ \E bad \in BOOLEAN : Join(r, bad, 0)
  /\ prestate' = [prestate EXCEPT ![r] = IF gives'[r].failed THEN NoPolicy ELSE policy[r]]
  /\ UNCHANGED <<policy, live, mark, disk>>

\* Mutant: every group takes the snapshot anew.
PreflightAndSnapshot(r) ==
  /\ At(r, "preflight")
  /\ Join(r, FALSE, 0)
  /\ live' = IF pos[r].group = 1 THEN [live EXCEPT ![r] = {}] ELSE live
  /\ prestate' = [prestate EXCEPT ![r] = policy[r]]
  /\ policy' = [policy EXCEPT ![r].adapter = TRUE]
  /\ UNCHANGED <<mark, disk>>

\* collect_group, up to the first rollout hook: with candidate logging the
\* first group takes the snapshot of the window.
PreflightGroup(r) ==
  /\ At(r, "preflight")
  /\ \E bad \in BOOLEAN : Join(r, bad, 0)
  /\ LET first == pos[r].group = 1 IN
     /\ live' = IF first THEN [live EXCEPT ![r] = {}] ELSE live
     /\ IF first /\ LogCandidates
        THEN \E q \in {policy[r]} \cup (IF gives'[r].failed THEN {NoPolicy} ELSE {}) :
               prestate' = [prestate EXCEPT ![r] = q]
        ELSE UNCHANGED prestate
  /\ policy' = [policy EXCEPT ![r].adapter = TRUE]
  /\ UNCHANGED <<mark, disk>>

\* A rollout advances the sampler, also one that fails afterwards.
Generate(r) ==
  /\ At(r, "generate")
  /\ \E bad \in BOOLEAN : Join(r, bad, 0)
  /\ \E n \in IF gives'[r].failed THEN {0, 1} ELSE {1} :
       policy' = [policy EXCEPT ![r].sampled = @ + n]
  /\ UNCHANGED <<prestate, live, mark, disk>>

\* coordinate_reward_group: a data-parallel rank scores its own group; under
\* tensor parallelism only the primary scores.
ScoreGroup(r) ==
  /\ At(r, "reward")
  /\ \E bad \in BOOLEAN :
       /\ bad => (Sharded => r = Primary)
       /\ Join(r, bad, 0)
  /\ \E G \in {live[r]} \cup (IF Sharded THEN {} ELSE {live[r] \cup {pos[r].group}}) :
       live' = [live EXCEPT ![r] = G]
  /\ UNCHANGED <<policy, prestate, mark, disk>>

\* Mutant: every rank keeps the rewards it computed.
BroadcastNothing(r) ==
  /\ At(r, "canonical")
  /\ Join(r, FALSE, 0)
  /\ \E G \in {live[r], live[r] \cup {pos[r].group}} : live' = [live EXCEPT ![r] = G]
  /\ UNCHANGED <<policy, prestate, mark, disk>>

\* ... and broadcasts the rewards, which decide whether the group is live.
BroadcastRewards(r) ==
  /\ At(r, "canonical")
  /\ \/ r = Primary /\ \E v \in {0, 1} : Join(r, FALSE, v)
     \/ r # Primary /\ Join(r, FALSE, 0)
  /\ UNCHANGED <<memory, disk>>

\* materialize_collected_group: reference scoring turns the adapter off and on.
MaterializeGroup(r) ==
  /\ At(r, "materialize")
  /\ \E bad \in BOOLEAN : Join(r, bad, 0)
  /\ \E on \in IF gives'[r].failed /\ KL THEN BOOLEAN ELSE {TRUE} :
       policy' = [policy EXCEPT ![r].adapter = on]
  /\ UNCHANGED <<prestate, live, mark, disk>>

\* write_candidate_records: boundary, append, and the truncation of every
\* stream when an append failed anywhere.
CandidateBoundary(r) ==
  /\ At(r, "boundary")
  /\ \E bad \in BOOLEAN : (bad => Writes(r)) /\ Join(r, bad, 0)
  /\ mark' = [mark EXCEPT ![r] = Len(candidates[r])]
  /\ UNCHANGED <<policy, prestate, live, disk>>

AppendCandidates(r) ==
  /\ At(r, "append")
  /\ \E bad \in BOOLEAN : (bad => Writes(r)) /\ Join(r, bad, 0)
  /\ \/ ~gives'[r].failed /\ ~Writes(r) /\ UNCHANGED candidates
     \/ gives'[r].failed /\ UNCHANGED candidates
     \/ /\ Writes(r)
        /\ candidates' = [candidates EXCEPT ![r] = Append(@, pos[r].step)]
  /\ UNCHANGED <<memory, store, metrics, torn>>

\* Mutant: only the rank whose append failed truncates.
TruncateOwnFailure(r) ==
  /\ At(r, "truncate")
  /\ Join(r, FALSE, 0)
  /\ candidates' = IF gives[r].failed
                   THEN [candidates EXCEPT ![r] = SubSeq(@, 1, mark[r])] ELSE candidates
  /\ UNCHANGED <<memory, store, metrics, torn>>

TruncateCandidates(r) ==
  /\ At(r, "truncate")
  /\ \/ /\ Join(r, FALSE, 0)
        /\ candidates' = [candidates EXCEPT ![r] = SubSeq(@, 1, mark[r])]
        /\ UNCHANGED torn
     \/ /\ Writes(r)
        /\ Join(r, TRUE, 0)
        /\ torn' = TRUE
        /\ UNCHANGED candidates
  /\ UNCHANGED <<memory, store, metrics>>

\* run_window: the token count and the live count of the whole world.
CountWindow(r) ==
  /\ \/ At(r, "tokens") /\ Join(r, FALSE, 1)
     \/ At(r, "livecount") /\ Join(r, FALSE, Cardinality(Items(r)))
  /\ UNCHANGED <<memory, disk>>

\* reduce_epoch and the verdict on the reduced gradient: an uncovered variable
\* of one rank fails every rank; only a rank with items brings a signal.
ReduceEpoch(r) ==
  /\ At(r, "reduction")
  /\ \E bad \in BOOLEAN : \E v \in IF Items(r) = {} THEN {0} ELSE {0, 1} : Join(r, bad, v)
  /\ UNCHANGED <<memory, disk>>

\* Mutant: a failed optimizer step is logged and forgotten.
StepOrLog(r) ==
  /\ At(r, "post")
  /\ Join(r, FALSE, 0)
  /\ LET update == [step |-> pos[r].step, epoch |-> pos[r].epoch] IN
     \/ policy' = [policy EXCEPT ![r].updates = Append(@, update)]
     \/ UNCHANGED policy
  /\ UNCHANGED <<prestate, live, mark, disk>>

\* The optimizer step precedes the status reduction that would abort it.
StepOptimizer(r) ==
  /\ At(r, "post")
  /\ \E bad \in BOOLEAN : Join(r, bad, 0)
  /\ LET update == [step |-> pos[r].step, epoch |-> pos[r].epoch] IN
     \/ policy' = [policy EXCEPT ![r].updates = Append(@, update)]
     \/ gives'[r].failed /\ UNCHANGED policy
  /\ UNCHANGED <<prestate, live, mark, disk>>

\* Mutant: telemetry is best effort.
AppendMetricsOrNot(r) ==
  /\ At(r, "metrics")
  /\ Join(r, FALSE, 0)
  /\ \/ UNCHANGED metrics
     \/ Writes(r) /\ metrics' = [metrics EXCEPT ![r] = Append(@, pos[r].step)]
  /\ UNCHANGED <<memory, store, candidates, torn>>

\* append_metrics: a failure is made global, the rows of the others stay.
AppendMetrics(r) ==
  /\ At(r, "metrics")
  /\ \E bad \in BOOLEAN : (bad => Writes(r)) /\ Join(r, bad, 0)
  /\ metrics' = IF Writes(r) /\ ~gives'[r].failed
                THEN [metrics EXCEPT ![r] = Append(@, pos[r].step)] ELSE metrics
  /\ UNCHANGED <<memory, store, candidates, torn>>

\* write_checkpoint, from the state capture on.  An ambiguous publication (2)
\* may or may not be visible; an earlier failure (1) is not.
PublishCheckpoint(r) ==
  /\ At(r, "publish")
  /\ LET Save == store' = [store EXCEPT ![pos[r].step + 1] = policy[r]] IN
     \/ r # Primary /\ Join(r, FALSE, 0) /\ UNCHANGED store
     \/ r = Primary /\ Join(r, FALSE, 0) /\ Save
     \/ r = Primary /\ Join(r, TRUE, 1) /\ UNCHANGED store
     \/ r = Primary /\ Join(r, TRUE, 2) /\ (Save \/ UNCHANGED store)
  /\ UNCHANGED <<memory, metrics, candidates, torn>>

\* preempt_requested: every rank polls after every step, flag or no flag.
PollPreemption(r) ==
  /\ At(r, "poll")
  /\ Join(r, FALSE, IF flag[r] THEN 1 ELSE 0)
  /\ UNCHANGED <<memory, disk>>

LocalWork(r) ==
  \/ Check(r) \/ AnnouncePublication(r) \/ CapturePrestate(r)
  \/ ScanLocalResume(r) \/ ApplyCheckpoint(r)
  \/ RollbackResume(r) \/ RollbackGroups(r)
  \/ SnapshotWindow(r) \/ PreflightGroup(r) \/ Generate(r) \/ ScoreGroup(r)
  \/ BroadcastRewards(r) \/ MaterializeGroup(r)
  \/ CandidateBoundary(r) \/ AppendCandidates(r) \/ TruncateCandidates(r)
  \/ CountWindow(r) \/ ReduceEpoch(r) \/ StepOptimizer(r)
  \/ AppendMetrics(r) \/ PublishCheckpoint(r) \/ PollPreemption(r)

(***************************************************************************)
(* The collectives.                                                        *)
(***************************************************************************)
\* coordinate_comm_result: a failure of any rank is a failure of all.
AnyFailure(r) == \E s \in Ranks : gives[s].failed

Sum == SumFunction([r \in Ranks |-> gives[r].value])

\* One reduction: every rank is in it, and every rank goes on.
Reduce ==
  /\ comm = "live" /\ entered = Ranks
  /\ pos' = [r \in Ranks |-> IF AnyFailure(r) THEN Fail(pos[r], Sum)
                             ELSE Succeed(pos[r], r, Sum)]
  /\ live' = [r \in Ranks |-> IF pos[r].call = "canonical" /\ Sum > 0 /\ ~AnyFailure(r)
                              THEN live[r] \cup {pos[r].group} ELSE live[r]]
  /\ entered' = {}
  /\ UNCHANGED <<gives, comm, policy, prestate, mark, flag, disk, attempts, faults>>

\* A collective fails: the transport broke, or a slow rank met the deadline.
CommFails ==
  /\ comm = "live" /\ entered # {}
  /\ comm' = "dead"
  /\ Fault
  /\ UNCHANGED <<pos, entered, gives, memory, flag, disk, attempts>>

\* The deadline of a rank that waits for a process that is gone.
Deadline ==
  /\ comm = "live" /\ entered # {}
  /\ \E r \in Ranks : pos[r].verdict = "killed"
  /\ comm' = "dead"
  /\ UNCHANGED <<pos, entered, gives, memory, flag, disk, attempts, faults>>

\* A rank returns from a dead collective: no further rendezvous, only its own
\* best-effort recovery.
CommError(r) ==
  /\ comm = "dead" /\ r \in entered /\ ~Over(r)
  /\ pos' = [pos EXCEPT ![r] = Return(@, "terminal")]
  /\ entered' = entered \ {r}
  /\ LET p == pos[r]
         tracked == prestate[r] # NoPolicy /\ (InResume(p) \/ InCollection(p))
     IN  \/ /\ tracked
            /\ policy' = [policy EXCEPT ![r] = prestate[r]]
         \/ UNCHANGED policy
  /\ IF pos[r].call = "append" /\ Writes(r)
     THEN \/ /\ candidates' = [candidates EXCEPT ![r] = SubSeq(@, 1, mark[r])]
             /\ UNCHANGED torn
          \/ torn' = TRUE /\ UNCHANGED candidates
     ELSE UNCHANGED <<candidates, torn>>
  /\ UNCHANGED <<gives, comm, prestate, live, mark, flag, store, metrics, attempts, faults>>

(***************************************************************************)
(* The environment: signals, crashes, and the launcher.                    *)
(***************************************************************************)
Signal(r) ==
  /\ r \in Flagged /\ ~flag[r] /\ ~Over(r)
  /\ flag' = [flag EXCEPT ![r] = TRUE]
  /\ Fault
  /\ UNCHANGED <<world, memory, disk, attempts>>

\* The processes of the ranks in K are killed.
Kill(K) ==
  /\ K # {} /\ \A r \in K : ~Over(r)
  /\ pos' = [r \in Ranks |-> IF r \in K THEN Return(pos[r], "killed") ELSE pos[r]]
  /\ entered' = entered \ K
  /\ torn' = TRUE
  /\ Fault
  /\ UNCHANGED <<gives, comm, memory, flag, store, metrics, candidates, attempts>>

\* The launcher starts the job again unless it completed.
Relaunch ==
  /\ \A r \in Ranks : Over(r)
  /\ \E r \in Ranks : pos[r].verdict # "completed"
  /\ attempts < MaxAttempts
  /\ attempts' = attempts + 1
  /\ pos' = [r \in Ranks |-> Start]
  /\ entered' = {} /\ comm' = "live"
  /\ gives' = [r \in Ranks |-> Nothing]
  /\ policy' = [r \in Ranks |-> FreshPolicy]
  /\ prestate' = [r \in Ranks |-> NoPolicy]
  /\ live' = [r \in Ranks |-> {}]
  /\ mark' = [r \in Ranks |-> 0]
  /\ flag' = [r \in Ranks |-> FALSE]
  /\ UNCHANGED <<disk, faults>>

Finished ==
  /\ \A r \in Ranks : Over(r)
  /\ (\A r \in Ranks : pos[r].verdict = "completed") \/ attempts = MaxAttempts
  /\ UNCHANGED vars

Next ==
  \/ \E r \in Ranks : LocalWork(r) \/ CommError(r) \/ Signal(r)
  \/ Reduce \/ CommFails \/ Deadline \/ Relaunch \/ Finished
  \/ \E K \in {{r} : r \in Ranks} \cup {Ranks} : Kill(K)

Spec == Init /\ [][Next]_vars

\* The ranks run, a collective whose peer is gone reaches its deadline, and
\* the launcher relaunches.  Failures, kills and signals have no fairness.
FairSpec ==
  /\ Spec
  /\ \A r \in Ranks : WF_vars(LocalWork(r)) /\ WF_vars(CommError(r))
  /\ WF_vars(Reduce) /\ WF_vars(Deadline) /\ WF_vars(Relaunch)

(***************************************************************************)
(* Properties.                                                             *)
(***************************************************************************)

Alive == {r \in Ranks : pos[r].verdict # "killed"}

\* While the communicator lives, every rank that was not killed is in the same
\* call of the same window, or has returned with the same verdict: no local
\* failure, degenerate shard, flag or scan makes one rank leave the sequence of
\* collectives that its peers are in.
SameCall == comm = "live" => \A r, s \in Alive : pos[r] = pos[s]

\* n windows lie behind a state: all their groups were sampled, and their
\* epochs were applied in order, none twice.
Before(u, v) == u.step < v.step \/ (u.step = v.step /\ u.epoch < v.epoch)
StateAfter(q, n) ==
  /\ q.sampled = n * Accum
  /\ \A i \in DOMAIN q.updates :
       /\ q.updates[i].step < n
       /\ i > 1 => Before(q.updates[i - 1], q.updates[i])

\* A published checkpoint of step n is the state after exactly n windows, over
\* any number of failures, kills and resumes that came before it.
CheckpointIsItsStep == \A n \in 1..Steps : store[n] # NoPolicy => StateAfter(store[n], n)

\* What rank 0 publishes is the state of every rank of the world.
PublishesTheWorldsState ==
  [][\A n \in 1..Steps : store'[n] # store[n] => \A r \in Ranks : policy[r] = store'[n]]_vars

\* A published checkpoint never runs ahead of the telemetry: every rank that
\* has a metrics stream has a row for every step the checkpoint contains.
MetricsReachCheckpoint ==
  \A n \in 1..Steps : store[n] # NoPolicy =>
    \A r \in Ranks : Writes(r) => 0..(n - 1) \subseteq ToSet(metrics[r])

\* A rank reports a failed transaction as rolled back only if every rank is
\* back: at the start of the window, or where the resume found it.
RestoredMeansRestored ==
  \A r \in Ranks : pos[r].verdict = "restored" =>
    \A s \in Ranks :
      /\ policy[s] = policy[r]
      /\ IF pos[r].call = "unresume" THEN policy[s] = FreshPolicy
         ELSE StateAfter(policy[s], pos[r].step)

\* A preempted run has left work and published exactly the state it stopped
\* in; a completed run that checkpoints has published its final state.
VerdictsAreBacked ==
  \A r \in Ranks :
    /\ pos[r].verdict = "preempted" =>
         pos[r].step + 1 < Steps /\ store[pos[r].step + 1] = policy[r]
    /\ pos[r].verdict = "completed" =>
         StateAfter(policy[r], Steps) /\ (Every > 0 /\ Steps > 0 => store[Steps] # NoPolicy)

\* No update is computed again for a step that a published checkpoint already
\* contains: a relaunch resumes the newest one, on every rank.
NoPublishedWorkIsRedone ==
  [][\A r \in Ranks : policy'[r].updates # policy[r].updates /\ pos[r].call = "post" =>
       \A n \in 1..Steps : store[n] # NoPolicy => pos[r].step >= n]_vars

\* The candidate streams of the ranks hold the same windows: a window that
\* failed to append anywhere has been taken out everywhere, unless a
\* truncation failed or a process was killed.
CandidateStreamsAgree ==
  ~torn => \A r, s \in Ranks :
    /\ Writes(r) /\ Writes(s)
    /\ pos[r].call \notin {"append", "truncate"} /\ pos[s].call \notin {"append", "truncate"}
    => candidates[r] = candidates[s]

\* A job that is relaunched after every stop completes once the failures and
\* signals cease.
RunCompletes == <>(\A r \in Ranks : pos[r].verdict = "completed")
=============================================================================
