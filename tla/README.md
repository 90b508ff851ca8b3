# ferrl in TLA+

`ferrl` trains a language model with reinforcement learning (GRPO) on one or several ranks,
publishes checkpoints and rollout windows on a file system, verifies untrusted candidates in a
sandbox, and turns runs into audited artifacts. Much of its source is tensor code. What is specified
here is the part that decides whether a run can be trusted: which rank is in which collective, what
is on disk after a failure, what a relaunch makes of it, what a supervisor leaves behind, and the
integer algorithms on which all of that rests.

The implementation is `src/crates/ferrl/src`; every path below is relative to it unless it says
otherwise. `PROJECT.json` maps every definition to the lines it stands for.

## 1. The system

| component | state it keeps | operations | what makes it hard |
|---|---|---|---|
| in-process collectives, `comm.rs` | per operation type: slots, `arrived`, `departed`, `outcome` under a mutex with a condition variable; one poison cell per world | `all_reduce_sum`, `all_reduce_scalar_sum` (both `exchange`) | threads, reusable rounds, spurious wakeups, a deadline, panics with the mutex held |
| NCCL transport, `comm/nccl.rs`, `comm/nccl/real.rs` | a communicator; the rendezvous file with its id | bootstrap, reductions | a file that outlives its launch and is used by the next |
| distributed run loop, `trainer.rs` (`resume_latest`, `run`) | policy weights, sampler position, adapter mode, optimizer; snapshots for rollback; streams; checkpoints; preemption flag | find and load the resume point, collect groups, score, update, append, checkpoint, poll, roll back | every rank has to take part in the same sequence of collectives whatever fails on one of them; crash, relaunch |
| separated loop, `trainer.rs` (`collect_`, `train_`, `restore_rollout_ledger_*`) | the chain C_k -> L_k -> C_k+1 of continuations and windows | collect and publish a window, train on it, save and restore a continuation | two programs that meet only on disk; publication by several ranks; retries; jobs that linger |
| checkpoints, `checkpoint.rs` | `step-n` packages, hidden stages and asides, a writer lock | ordinary save (replaces), continuation save (never replaces), reconcile, scan | power failure between any two file operations, renames whose error is ambiguous, readers beside writers |
| rollout windows, `rollout_ledger.rs` | `step-k` directories, hidden stages, owner markers | stage, write a shard, commit, reconcile what is there already, read and validate | no lock between two publishers; the manifest link is the commit point; every shard can be whole and the window still wrong |
| launches, `orchestration.rs` | group identity, run directories, launch record, report | consensus by sums, identity, training, health, evaluation, report, candidates | a failure at any stage on one rank; two launches of one second |
| telemetry, `telemetry.rs` | `metrics.jsonl`, `candidates.jsonl`, run directories, reports | create, append, boundary, truncate, compare runs | a stream torn by a crash; directories that exist already; evidence that is missing on one rank |
| audited artifacts, `artifact.rs` | claims, stages, outputs | claim, measure, stage, link, fence, commit | two audits with one output, failure at the commit, power failure |
| discovery, `discovery.rs` | an output and its stage | train, verify candidates, choose, publish | the stage has a fixed name; every outcome but one has no winner |
| verifier executor, `verifier_executor.rs` | request directories, a sequence number, threads | serve a request, clean up, answer | a restart under the old process id, directories that cannot be removed |
| sandbox, `sandbox.rs` | a process group, pipes, a scratch monitor, a deadline | spawn, poll, kill, drain | the program under test is not trusted; processes outlive their leader |
| evaluation, `eval.rs` | adapter mode, sampler position of the policy it borrows | evaluate a set of prompts with and without adapter | any call may fail or panic |
| schedules, prompt selection, masks, advantages, sampler streams, `trainer.rs`, `grpo.rs`, `lm_policy.rs` | none | pure functions | boundaries, agreement between ranks |
| weight reading, `sharded_safetensors.rs` | chunks of a file | which bytes belong to a rank, authenticated sweep | bands across chunks |
| models, kernels, loaders, command line | tensors, text | numerics and parsing | none of it is control |

How they interact. The command line starts a launch on every rank; the launch meets its peers through
the rendezvous file, agrees with them by reductions, and calls the trainer. The trainer calls the
communicator for every decision that has to be common (`coordinate_comm_result`: each rank adds 1
for a failure, everybody acts on the sum); rank 0 (under tensor parallelism the execution primary)
alone publishes checkpoints, and tells the others by a reduction. The run loop meets its own past
only through `checkpoints/` and the streams. The collector and the learner of the separated loop
meet only through the ledger and the continuations. Rewards may come from a verifier service, one
connection per request, and each request is a process group under the sandbox. An audit reads what a
launch has left in its run directory and publishes a bundle; a discovery trains by itself and
publishes its winner through the same last steps.

What has to hold: of the collectives, that rounds never mix and nobody waits for ever; of a launch
and a run, that the ranks stay in one sequence of collectives and that what is published, resumed,
rolled back and reported is the state it says it is; of checkpoints, windows and artifacts, that
each is an atomic object in spite of crashes; of the separated loop, that all jobs write one log and
no rank takes back a sampler whose window may have been read; of the verifier, that nothing is left
running and every request is answered. The `hazards` of `PROJECT.json` list, line by line, where
each of these can go wrong.

## 2. The modules

```
AllReduce <-refined by- Rendezvous               MCRendezvous         RendezvousProofs
    ^ its contract is what one Reduce step of every module below assumes
TrainerRun                                       MCTrainerRun         TrainerRunProofs
LedgerWindow <-refined by- RolloutLedger         MCRolloutLedger      RolloutLedgerProofs
CheckpointSlot <-refined by- CheckpointPublication
                                          MCCheckpointPublication     CheckpointPublicationProofs
    ^ its contract is what store[n] of TrainerRun assumes
TrainingLog <-refined by- SeparatedTraining      MCSeparatedTraining  SeparatedTrainingProofs
    ^ over windows and continuations as LedgerWindow and CheckpointSlot show them
ArtifactSlot <-refined by- AuditedRun = LaunchRun + ArtifactPublication
                                                 MCAuditedRun         AuditedRunProofs
VerifierRun                                      MCVerifierRun        VerifierRunProofs

pure: WorkAssignment, Schedules, GroupDecode, LossWeights, CandidateChoice,
      ShardReads, RunHealth, Evaluation, RunComparison,
      WindowData (uses WorkAssignment, GroupDecode)       <- PureChecks
      CheckpointData                                      <- PackageChecks
      Grading                                             <- GradingChecks
      AuditEvidence (uses CandidateChoice, Grading)       <- AuditChecks
      proofs about all of these but RunHealth and Grading: PureProofs
```

**AllReduce** is what `Comm` promises, with no thread in it: the n-th collective of a kind is
decided at one instant from what all ranks have pending, each rank then receives it or fails, and a
world in which a call has failed decides nothing any more.

**Rendezvous** is `LocalComm`: `exchange`, `wait_round_open`, `wait_outcome`, `wait_or_poison` and
`lock_round`, one action per stretch that runs under the mutex, and a separate action for each read
of the poison cell, because that cell is the one thing another thread can change under a rank that
holds a mutex. Threads are parked and woken explicitly, deadlines expire at any time, a wait may
wake spuriously, a rank may panic in the combiner. `decided`, `used` and `seen` are history
variables that no guard reads.

**TrainerRun** is `resume_latest` and `run`, data-parallel or tensor-parallel. `pos[r]` is the call
rank r is in and its loop variables. An action named for the function does the local work of a call
(success or failure, with every state change the function has made by then) and enters the
reduction; `Reduce` moves all ranks on, each by what it alone knows (`Succeed`, `Fail`). That the
ranks go the same way is a theorem, not an assumption. Kills, communicator failures, signals and
relaunches are actions. The policy is reduced to what a rollback can get wrong: the list of updates
applied, the number of groups sampled, the adapter mode.

**CheckpointPublication** is one checkpoint name with its stages and asides: `save_checkpoint`
(`write_staged`, `commit_stage`, the reconciliation of what a crash has left, and every branch that
recovers from a rename with an unclear outcome), `save_checkpoint_no_replace`, and
`latest_checkpoint` as a reader that lists first and looks later. Each action is one file operation.
The disk is modelled by the sets of states that a power failure may leave (`onDisk` for directory
entries, `kept` for contents), shrunk by a sync only. **CheckpointSlot** is the promise: the name is
a slot; what a save reported as done stays, what it reported as failed is gone for good.

**CheckpointData** is what is in a package: what the writers of adapters, ordinary checkpoints and
continuations put into the files and the manifest (`WriteAdapter`, `WriteOrdinary`,
`WriteContinuation`), what the readers demand, from the matrix of fields (`FieldMatrix`) over the
binding to the digests (`OrdinaryLoads`, `ContinuationRestores`), and which package of a directory
the two discoveries take (`LatestCheckpoint`, `LatestContinuation`).

**RolloutLedger** is the publication of one window by worlds of several ranks, up to `MaxWorlds` of
them at once on one directory (a job started again while the former one lingers):
`publish_distributed_rollout_ledger_step` and `publish_tensor_parallel_rollout_ledger_step` over
`create_distributed_stage`, `write_distributed_shard`, `abort_distributed_stage`,
`commit_distributed_stage`, `reconcile_existing_distributed_package` and `publish_staged`. The
commit is one file operation per action; the ranks go from phase to phase by reductions. `verdict`
is what a rank does with its sampler. **LedgerWindow** is the promise: written once, never replaced,
permanent once success was reported.

**WindowData** is what is in those files: the controls, rows, lengths, masks, advantages and
statistics that collectors write (`collect_group` and `rollout_ledger_payload`: `CollectGroup`,
`Window`), the check they make of all shards before anything is visible (`Preflight`), and what
`read_step` and `read_distributed_step` demand of a row, a group, a shard and the shards together
(`Reads`), the captured log-probabilities and the state of the sampler included. `Collected` is the group a collector would have trained on, `ReadBack` what a learner
makes of the file.

**SeparatedTraining** is the learner job rank by rank: `restore_latest_rollout_ledger_continuation`,
`train_rollout_ledger_step`, `save_rollout_ledger_continuation`, with a caller that repeats a call
after a plain error and ends the job after any other. A state is the log of windows it was trained
on, each with the job that did it, since two jobs need not come to the same bits; the digests of the
code are comparisons of such logs. Jobs are started again while the old one lingers. What is visible
and not `settled` a power failure may take. **TrainingLog** is the promise: one log, which grows by
one entry at a time.

**LaunchRun** is `run_cli_train_setup` and the stages of the engine: `Program` lists the reductions
in order, each with the work before it. Agreement is tested as the code does it, by sums of the
bytes of an item, in which a rank whose byte is the mean of all sees no difference. The bootstrap of
NCCL is in it: rank 0 clears and writes the rendezvous file, the others read it, and the guard that
removes it may fail or die. Run directories are looked up and made in two steps. A launch may be
preempted instead of completed, and one without held-out samples has nothing to evaluate (`After`).

**ArtifactPublication** is the output of an audit or a discovery from claim to manifest, one action
per file operation, with `anchored` and `durable` for what a power failure keeps. **AuditedRun**
composes it with LaunchRun: `LoadCandidate` is `trimul-artifact` reading a run directory, `Discover`
and `Search` are a discovery. **ArtifactSlot** is the promise.

**VerifierRun** is a request from connection to answer: the executor's directory, staging, sequence
number, cleanup and restart, and `supervise_with_protected_output` with polling, deadline, scratch
monitor, last scan, guard and drains. The program under test is a process group that may do anything
that a group can.

The pure modules are operators or recursive functions:
**WorkAssignment** (which prompt, row, random substream, axis shard and verifier device belongs to
whom), **Schedules** (learning rate and beta, warmup, the exponent of the bias correction),
**GroupDecode** (`batched_group_decode` and the mask of a loss), **LossWeights** (what a token
counts under every cut of the backward pass and split over ranks), **CandidateChoice** (the winner of
a discovery, the verdict of an audit), **ShardReads** (which bytes a rank asks for and the chunked
sweep), **RunHealth** (the rules of the health policy), **Evaluation** (the calls of an evaluation,
any of which fails or panics) and **RunComparison** (`compare_metrics` and
`compare_distributed_metrics`).

**Grading** is what the log of a verifier is worth (`trimul.rs`): whether the verifier was entered at
all (`EntryProved`; if not, the outcome is an error and no reward), the lenient reading that a reward
makes of it (`Evaluated`, `RewardOf`), and the strict one that is evidence for an artifact
(`Evidence`). **AuditEvidence** is what an artifact rests on (`artifact.rs`): that a request is about
one launch, one signed row and one configuration (`Bound`), under an identity and a seed that follow
from them (`AuditIdentity`), which measurements an audit accepts (`AuditHolds`), what the manifest
says (`BundleManifest`), and the checks that are printed with it (`Checks`).

**PureChecks**, **PackageChecks**, **GradingChecks** and **AuditChecks** compare
the pure modules with reference definitions over bounded inputs, as named assumptions that TLC
evaluates.

Lines marked `Mutant:` define the faulty variants that show that each property can fail; nothing
uses them.

### What the models leave out on purpose

- *Rendezvous.* Tensors that agree can be added. An addition that failed would give every rank the
  error that a mismatch gives.
- *TrainerRun.* A call stands for the consecutive status reductions of one function between which no
  state changes. `Reduce` delivers to all ranks at once, which is `AllReduce` seen from outside,
  except that a rank which loses the communicator does so in `CommError`. The distributed
  same-prompt reward scope is not in this module (WindowData has it). A world of one rank is the
  instance with one rank. The verdict on uncovered gradients is part of the failure of "reduction".
  `TensorParallelExecutionTerminal` is `CommError`. A relaunch repeats the steps after the last
  checkpoint, and their metrics rows repeat with them. A checkpoint is published in one step: that
  is CheckpointSlot.
- *CheckpointPublication.* One name; each save in a process of its own, with the writer lock; a run
  uses one kind of writer, and the specification of the run says so (`OneKindSpec`). Creation of the
  lock file and of parent directories is left out. Nobody else touches the name, so that the owner
  marker and the fingerprints of `verify_visible_owned_package` always match; what is left of it is
  a read that fails (`FenceManifest`). Contents and discovery over several names are in
  CheckpointData. A power failure keeps any subset of the
  unsynced directory operations, each rename whole. `save_adapter` is the same `write_staged`.
- *RolloutLedger.* One step. The reductions of the nonce belong to phase "claim". A link that
  reports an error is not applied, as the code itself takes it (`manifest_linked`); a file is written and synced in one step (`write_new_synced`),
  and its name is durable once its directory is synced. What remains of hidden stages is not
  tracked. The comparisons that guard against somebody else changing the files are failures to read.
  The rollback of the sampler after an error is one decision ("rewound"). A publisher that panics is
  ambiguous, as `catch_unwind` makes it. The bytes of a world are those of an earlier world or new
  ones: samplers repeat themselves, rewards need not.
- *WindowData.* Rewards are integers and an advantage is kept without its positive denominators, so
  that its sign and equality are right. Text, digests and the fields of the identity that are only
  compared are left out.
- *CheckpointData.* Digests are the digested values themselves, so that they never collide; how
  tensors are encoded, dtypes beyond float or not, devices, overflowing step numbers, and names with
  leading zeros are left out. Discovery sees one listing of a directory that does not change.
- *Grading.* Latencies are exponents of two, rewards percents. Lines that cannot be parsed, the
  spread of a benchmark, a reward without a baseline and the diagnostic of a wrong shape are left out.
- *AuditEvidence.* Digests are the digested values, and a signature belongs to a key. Encodings, the
  form of digests and notes, file lengths, and the fields that are copied into a manifest for its
  reader's sake only are left out.
- *SeparatedTraining.* Collectors and the two directories appear by their abstract modules. A world
  of one rank, which appends its row without a boundary, is not modelled; the numerics of an update
  are one log entry.
- *LaunchRun.* A task with a rendered prompt and the data-parallel engine. Training is one step, and
  all ranks end it alike, completed, preempted or failed: that is `SameCall` of TrainerRun, for which
  `Try("train")` stands, since the code has no reduction there. Consecutive calls of the consensus
  about one item are one; of the items that are compared before training (end token, policy,
  variables, held-out samples) one stands for all, since a difference has one effect whichever it is
  in. A failure to encode what goes into a reduction is a failure of the work before it. The
  tensor-parallel mode of the engine is not modelled.
- *ArtifactPublication.* Nobody removes an output whose publisher still runs, so that
  `require_owner` holds at every step. The training of a discovery, that of a world of one, is the
  step `Search`.
- *VerifierRun.* The bytes of stdout and of the protected channel; checks of paths, seals and
  identities, which fail or not before anything runs. SIGKILL takes effect at once on what a process
  may start to do; a process in a system call ends later or never.
  Fewer than 1024 directories of former executors are in the way of a request, so that
  `create_request_root` does not give up; and the guard that is dropped can wait for its own child:
  a failure of that last wait, which the code ignores, is not modelled.
- *RunComparison.* Ratios in hundredths, limits without their floating point slack, means as sums;
  the warnings of stalled rewards and saturated values are left out.

## 3. The runs

| run | instance | states | what it shows |
|---|---|---|---|
| `rendezvous` | 2 threads, 4 calls each of both kinds and 2 shapes, 2 spurious wakeups | 242,108 | rounds do not mix, nobody skips one, no wakeup is lost, a dead world decides nothing; every call returns, ranks that are all there need no deadline; the rendezvous implements AllReduce |
| `rendezvous_comment` | 2 threads, 1 call | violated | a finding, section 6 |
| `run_data_parallel` | 2 ranks, 3 steps of 1 group, checkpoint every 2, candidate logging, beta > 0, flag on rank 1 only, 2 launches, 2 faults | 930,924 | what is published, resumed and reported is true, and not done again; streams agree after a failed append |
| `run_tensor_parallel` | 2 ranks, 2 steps of 2 groups, 2 epochs, 3 launches, 2 faults | 364,947 | one sequence of collectives although only groups with a loss rendezvous; what is reported as rolled back is; the job completes |
| `checkpoint_writers` | 3 saves of either kind of writer, up to 2 failing operations and 3 crashes, 3 in all, a reader | 894,200 | the name is a slot; what is published stays whole; crashes alone never wedge it; a scan of unchanged entries does not miss a published checkpoint; on the way TLC evaluates PackageChecks |
| `checkpoint_comment`, `checkpoint_reader` | 2 saves | violated | findings, section 6 |
| `rollout_ledger` | 2 worlds of 2 ranks, both schemes, 1 failing operation or collective, 2 crashes | 478,943 | visible windows are whole, success is durable, ranks keep or rewind together, everybody returns, the window is written once; on the way TLC evaluates PureChecks |
| `separated_training` | 2 ranks, 2 places for jobs, 2 steps, two of 1 failure, 1 kill, 1 power failure | 178,346 | all jobs write one log; a receipt tells what its rank holds; no window of another policy is trained on; rows come before continuations; the chain is completed unless an operator is needed |
| `verifier_run` | 2 requests, 1 directory left behind, 1 failing call or crash, one program at a time that forks or fills its directory | 389,470 | directories stay apart, nothing is left running, limits hold at the exit, every request ends; on the way TLC evaluates GradingChecks |
| `verifier_comment` | the same | violated | a finding, section 6 |
| `audited_run` | launches of 3 and 2 ranks in one second, one or two rendezvous files, held-out samples in one of them, one odd item or 1 failure; 2 audits or 2 discoveries of one output, 2 failures | 928,833 | ranks of a launch come to one verdict; a run directory and its report belong to one launch; ids are stranded only by a kill or a failed removal; the output is an artifact slot; on the way TLC evaluates AuditChecks |

*The pure checks.* An `ASSUME` of a check module compares an operator with a reference definition or
with another operator, over all inputs of a small set: rows and prompts of a world against those of
one process, up to the edge of the machine word; a batch of rollouts against the same rollouts row by
row; a loss cut into chunks and split over ranks against the uncut one; bands of a matrix against the
matrix; a choice against the definition of a best; a health verdict with evidence taken away; an
evaluation with each of its calls failing, the restoring one included; a comparison of a run with itself, with a worse one, and
of one rank with its stream; what collectors write against what readers accept; a checkpoint package
against every reader, after a swap of files with two others and after each of some forty changes to
it; a discovery over all directories that killed runs may leave of three steps, before and after
damage; the grades that are up to two faults away from a whole one against both readings; requests
put together from the parts of two runs, or made up; an audit with one bad measurement among its
twenty-two; a manifest with any one thing in it changed. Each has been seen to fail on faulty
variants of its operators.

*Why the bounds are enough.* Two threads and four calls let a fast rank enter a round while the other
drains the one before it, twice, in both kinds; that more ranks bring nothing new is proved. Two
ranks are what a disagreement needs, and a step counts only as first, between or last for cadence and
preemption, hence three steps with a checkpoint every second one: one on the cadence, one because it
is final. Two faults let a recovery itself fail; two launches let a resume meet what the first left.
Three saves let the third meet what the recovery of the second made of the crash of the first. Two
worlds are what a race for a claim needs, two jobs and two steps are what a job needs that lingers
past the continuation it raced for. Three ranks in a launch let one differ from two that agree, so
that the sums of the consensus see a rank at the mean. Two requests and a directory from before give
the three ways in which a directory can be taken: by a neighbour, by the past and by nobody. Every
bound is a guard on a counter, so that what is cut off is more failures or more work of the same
kind. Four bounds are on combinations, and are conjuncts of the next-state relation in an MC module
(`ThreeMishapsSpec`, `TwoMishapsSpec`, `OneUnrulySpec`, `OneTrouble`): they bar mishaps and steps of
the programs under test, to which no fairness is given. Several
groups in a step are the tensor run's to follow, where they can differ in the collectives they enter.
For every safety property of the passing runs the theorems of section 4 remove the bounds.

*Deadlock* is checked in every run; `Finished` and `AllDone` are the only ways in which a model may
stop.

*Fairness.* Rendezvous: each thread runs (weak fairness of its `Step`), as an operating system
grants. That time passes (`ClockRuns`) is not assumed of the specification; it is the premise of
`EveryCallReturns`, and `FullHouseNeedsNoDeadline` does without. TrainerRun: every rank runs, a
reduction that all have entered ends, a collective whose peer is gone meets its deadline
(`wait_or_poison`, or the timeout of NCCL), and the launcher relaunches; failures, kills and signals
have no fairness. RolloutLedger: as long as some process can run or some deadline can pass, one
does; this is weaker than fairness to each, and enough since no world waits for another.
SeparatedTraining: collectors run, a job whose ranks can run does, and somebody starts jobs again.
VerifierRun: threads of the service run, time passes, and a leader that was killed ends; nothing is
assumed of the program, of the rest of its group or of the monitor, so that every request ends even
if some process never dies. There is no fairness in CheckpointPublication, whose saves are straight
code, nor in AuditedRun, all of whose properties are safety.

## 4. The proofs

Checked by TLAPS, for all values of the constants that the `ASSUME`s allow, from nothing but those.

**RendezvousProofs.** `IInv` of `Rendezvous.tla` adds to the type and the safety properties who owns
which mutex at which program point (`LockDiscipline`), what slots and `arrived` say of an open round
(`OpenRound`) and outcome and `departed` of one that drains (`DrainingRound`, `Leftovers`), how both
relate to the history (`History`, `Latest`), and that in a dead world the round that is open lacks a
rank for good (`DeadWorldLacksARank`). The safety properties alone are not inductive: that a round
combines one contribution of each rank, for instance, needs that a rank which has deposited in it
either waits for it or has yet to collect it, and that the mutex keeps two ranks from being in
between at once. `NextKeepsIInv` goes action by action (`EnterKeepsIInv`, ..., `LeaveKeepsIInv`; the
two places where a rank goes on with the mutex, after a wait and after the last arrival, are lemmas
shared by several actions). From `Invariance` follow `TypeCorrect`, `RoundsNeverMix`,
`WakeupsAreNotLost`, `RoundsReachEverybody`, and the action property `DeadWorldsStayDead`.
`Refinement` shows that every step is a step of `AllReduce` or a stutter: `DepositAndCombine` is
`Decide`, `Leave` is `Return`, a failure is `Fail` or `Refuse`.

**TrainerRunProofs.** For any number of ranks, steps, groups, epochs, launches and faults; the
theorems build on each other.

- `StaysInLockstep` proves `SameCall`. Its inductive invariant `Lockstep` adds `Shape` (functions
  have their domains, a rank with a verdict waits nowhere) and `LiveSetsAgree`: under tensor
  parallelism the ranks hold the same set of groups with a loss, since otherwise `Rendezvouses`
  would send two of them to different calls. The heart is `ReduceKeepsLockstep`: `Succeed` and
  `Fail` depend on the rank through its live set alone, or on a sum that all receive.
- `PublishesForTheWorld` proves `PublishesTheWorldsState`. `World` adds that ranks in one place hold
  one policy state (`WorldAgrees`) wherever a rank can still go on to a publication: between two
  reductions a rank's state is one local step ahead of its peers (`SamePlace`, `After`, `Sound`), and
  a failed step leads into a recovery from which no publication follows (`Recovery`).
- `CheckpointsAreTheirSteps` (`CheckpointIsItsStep`), `MetricsComeFirst` (`MetricsReachCheckpoint`)
  and `PublishedWorkStands` (`NoPublishedWorkIsRedone`) come from `RunInv`, which looks at one rank
  at a time, as `World` has made them equal. `Place` says which positions the program can be in,
  and `Flow` how one position leads to the next, once for all actions (`Succeed` goes by `Flow`).
  `Content` gives for each position the updates that the policy of a rank that has not failed
  carries, before or after the work of the call: those of the steps before, in order (`Behind`,
  `InOrder`), and those of the epochs done of this one. `Whole` says the same of each package,
  `Written` that a rank past its append has the row, `NoneAhead` and `Found` that no package is
  newer than what a rank has resumed or may have published by now.
- `RollbacksRestore` (`RestoredMeansRestored`) and `VerdictsHold` (`VerdictsAreBacked`) need what a
  rollback goes back to: `Snapshots` says that the saved states of ranks in a window are equal and
  are the states in which the window began (`Held`, `Bases`), and that a part of a rollback that has
  been reported as done is done (`Back`). `Final` says that these verdicts fall on all ranks at once.
- `StreamsHoldTheSame` (`CandidateStreamsAgree`) compares the streams without a window that is half
  way in (`Stream`): up to the mark of a rank that appends or truncates. `Streams` is that all of
  those are equal as long as nothing is torn, over relaunches too.

**CheckpointPublicationProofs.** For any number of saves, failing operations, kills and power
failures, of one kind of writer. What a power failure may leave is a set, `onDisk`, so the
invariant speaks of every member of it. `Shows(d)` is what a recovery that finds the names d can take
for the checkpoint. `Promised` says that whatever is shown may be the checkpoint (`May`: its save has
begun, has not failed, and none after it has succeeded) and that something is shown once a save has
returned Ok; `Whether`, that as long as nothing has failed, and ever since a save has returned Ok,
exactly one package is shown, and it is whole for good. For the ordinary writer, `Laid`, `Lost` and
`Filled` say at each program point where the package of the running save lies in the names as they
are, where it may lie in those that are left, and what is in it. Each step then either adds names
that show what was shown or one package that is whole (`DiskKeeps`), or destroys a package that
nothing shows (`RemovedIsUnshown`); a step that does both would be the bug. For the continuation
writer, which has no name but the canonical one, `ContinuationInv` is enough. From
`DirectoryInvariance` follow `VisibleStaysWhole` (`PublishedStaysWhole`), `CrashesAreReconciled`
(`CrashesNeverWedge`), `ScansFindPublished` (`StillScanFindsPublished`), and `PublicationIsASlot`
(`ImplementsSlot`): the saves that the slot may hold are those that `May` be the checkpoint
(`PossibleIs`), what a recovery shows is one of them (`ShownIsHeld`), and each step begins, commits
or aborts one of them, or stutters. A directory that both kinds of writer use is outside
`OneKindSpec`; it is the hazard at `checkpoint.rs:1145`.

**RolloutLedgerProofs.** What a rank does with its sampler depends on what it hears, and whether that
is right depends on the disk. `IInv` ties the two together. The ranks of a world are in one phase
(`SamePhase`), the commit runs in the last of them (`CommitsLast`), rank 0 enters the last reduction
with the end of its own commit and the others with zero (`Signals`); so a rank that rewinds in the
last phase has heard of a plain error, and so have all (`RewindTogether`). A plain error is an end
from which no manifest of this world was linked (`OwnManifest`), which also holds after a power
failure, since that brings back no name that was never there. `OperationMoves` and
`LinkManifestMoves` say where each file operation of the commit may lead, `MoveKeepsProtocol` that
any such move is harmless to the ranks; `Quiet` collects the steps that link no manifest. From
`Invariance` follow `TypeCorrect`, `RanksStayTogether` and `NeverRewindsAPublishedWindow`. A second
invariant, `DInv`, is about the disk: a manifest is linked after its payload was synced
(`PayloadFirst`) and only in the directory that is in place (`ManifestNamed`), and `Standing` says
what each operation of a commit may rely on, whatever other worlds have done in between. From it
follow `VisibleWindowIsWhole` (`VisibleIsWhole`), `SuccessSurvives` (`SuccessIsDurable`) and the
refinement `WindowIsWrittenOnce` (`ImplementsWindow`). The assumption on the constants is that the
manifest and the owner marker have names of their own, different from the shards', as in the code.

**SeparatedTrainingProofs.** `TrainInv` says of the disk that visible continuations are prefixes of
each other, each as long as its step and trained on windows of its own states (`SlotInv`); of a job,
that its ranks are in one part of a call with one receipt (`Together`), that there is no gap above
the continuation it has found (`NoGapAbove`), and that rows come before their continuation
(`RowsOfStep`); and of a rank, by the part of the call it is in, what its receipt stands on
(`Stands`), that the window it has accepted is one of its own receipt (`Accepted`), what its policy
holds (`Carries`) and what its rows are (`Writes`). Jobs only meet on the disk, so that a step
of one leaves the invariant of another alone as long as nothing visible changes; what a power failure
takes was not settled, and every job ends with it. From `Invariance` follow `WindowsAreOwn`
(`NoForeignWindow`), `CallersCanGoOn` (`ReceiptTellsAll`), `MetricsComeFirst` (`RowsComeFirst`) and
the refinement `OneLog` (`ImplementsLog`).

**VerifierRunProofs.** `IInv` says of all directories that each has one owner (`Apart`), and of each
request by itself (`Tidy`) what is left of its process group at each step of its thread (`Group`),
what has been learned by then (`Outcome`), and that nobody writes any more when the last scan looks
(`Limit`). `RequestsStayApart` (`DirectoriesStayApart`), `SupervisionLeavesNothing`
(`NothingIsLeft`) and `LimitIsEnforced` (`LimitHolds`) follow, for any number of requests, of
directories from before, of failures and of restarts.

**AuditedRunProofs.** `ArtifactsAreKept` proves `ImplementsArtifact` of the whole AuditedRun, for any
number of launches, audits, discoveries, failures and files. `ArtifactInv` says that whoever works on
the output has made it (`Exclusive`), that the payload is complete before the fence and durable after
it (`Fenced`), that a manifest stands only over a bundle that cannot be lost, of a publisher past its
link (`Backed`), and that what was reported cannot be lost at all (`Kept`). The abstract slot alone
is not inductive: a power failure is harmless only because of what the fence left durable. The steps
of launches leave the output alone, those of the command and of the search touch only `at`.

`LaunchInv` is about the launches. The ranks of a launch are at one step, and all of them are on the
way to the communicator, or have it, or have ended alike, as long as nobody has died and the
communicator lives (`Together`). The consensus is where that is hard: a rank sees a difference only
if its own byte is not the mean. `Noticed` says that of two ranks at least one sees it, and so
whoever passes a comparison has nothing odd in that item (`Checked`). `Papers` and `Record` tie a
rank that has passed a step to the files it left, and the files of a directory to one launch;
`Shown` and `Known` say whose id a rendezvous file may hold and a rank may have read. They give
`RanksComeToOneVerdict` (`Lockstep`), `ReportsAreBound` (`EvidenceIsBound`) and
`FormedLaunchesLeaveNoId` (`StaleIdsAreStranded`) for worlds of any size. The sums over the ranks are
recursive functions over sets; that they exist, are zero only if all ranks say zero, and are rank 0's
share if the others say zero, is proved from a least counterexample, as `<` on the naturals is well
founded. The assumption that
`None` is no launch and no verdict is about the names in the model only.

**PureProofs** is about operators, for all their arguments.

*Numbers.* `RowsAreDistinct`: no two rollouts of a run share a random stream, as long as the rows of
the run can be counted in a machine word (two mixed-radix numbers are equal only digit by digit,
`OneRepresentation`). `WorldsSplitTheSameWork`: the groups of a step are those that one process would
sample, in the same places, and each belongs to one rank. `SamplesCycle`: in the local scope no sample
comes up again before all others have. `ShardsPartition`: the shards of an accepted axis cover it
without overlap. `WorkersOfAChunkAreApart`: verifiers side by side have devices of their own, given at
least as many devices as workers. `ScheduleStaysInRange`: a valid schedule stays between the least and
the greatest value of its points. `CutsChangeNoWeight`: however the rows of a group are cut for the
backward pass, a token has the weight it has uncut (the number of tokens a row keeps, a fold, is taken
to be a natural number). `BandsAreInside`: the ranges a rank reads are inside the matrix and in the
order that the chunked reader wants. `PlaceIsNoMerit`: the schedule of an audit gives a candidate that
takes as long as the reference no pass, whoever goes first and whatever that is worth on a device.

*Induction over data.* The loops of the code are recursive functions here, and what they compute is
proved for inputs of any length. The induction theorems of the library are not needed for that:
`LeastElement` comes from `<` being well founded on the naturals, `StepByStep` is the induction that
follows, for the members of a set, and `Iterates` says that a value that is made step by step exists,
which is what a recursive definition needs before anything can be said about it.

- `StrongestIsChosen`: the fold of `Consider` over any number of verdicts keeps the strongest winner,
  the first of equals, and otherwise the reason of the last measurement, whichever direction of the
  metric is the better one.
- `RowsAreTheirOwn` and `RowsAreDrawn` are about the decoding of a group as one batch, in which a row
  retires at its end token while the others go on. The invariant of a step says of each live row that
  the cache holds its own tokens and nothing else, and of each retired one that it stays as it was; so
  a row depends on its prompt and its stream alone, and batching is a matter of speed.
- `WindowsAreRead` and `GroupsAreReadAsCollected` are the two ends of a window: what collectors write
  passes each check of `Reads` and `Preflight`, so no collector wedges the run with a window that
  nobody can read, and what the loss sees afterwards is what the collector would have given to it.
  They stand on `RowsAreDrawn` and on the numbering above.
- `OrdinaryIsRestored` and `ContinuationIsRestored` say who can restore a package and that nobody takes
  it for one of another kind; `IdentityBindsTheState` and `ContinuationBindsTheState`, that the identity
  in a manifest, and the record of a continuation, determine everything that is restored: a package
  mixed from two saves does not get through. `NoStepIsReplayed` is about the names of a directory.
- `PublishedStandsUp`: an audit publishes no manifest that its own reader refuses, but for the
  inspection, which is not rerun.
- `NothingIsLost`: the comparison of two runs makes one row of all ranks and cuts both runs at the
  shorter one, and still lets no missing rank, row, step or probe through, and no other number of
  dropped rows.
- `PolicyIsLeftAsFound`: the calls of an evaluation, of which any can fail in any way, leave the
  adapter and the sampler as they were, unless it is the restoring hook that panics; the figures that come back are of pairs of groups at one base.
  A policy that cannot disable its adapter is taken to have it on.

**Only model-checked.** Every invariant, action property and refinement of a passing run is proved.
What is left to TLC is liveness, as fairness and ENABLED are out of the prover's reach:
`EveryCallReturns` and `FullHouseNeedsNoDeadline` of Rendezvous, `RunCompletes` of TrainerRun,
`EveryWorldReturns` of RolloutLedger, `ChainCompletes` of SeparatedTraining, `EveryRequestEnds` of
VerifierRun. PureChecks, PackageChecks, GradingChecks and AuditChecks compare the pure modules with
reference definitions over bounded inputs. That is all there is for RunHealth, for Grading, and for
the chunked sweep of ShardReads: what they compute is a count, a table, or a partition of
an interval, and the reference definitions are as long as the rules. What a damaged package or
a tampered window is refused for is enumerated there too; the theorems say that nothing wrong gets
through by way of the identity, not which check stops it. The four findings are counterexamples.

## 5. Mutants

Every property of a passing run has a mutant: one mapped definition replaced as a plausible bug
would have it, and found by that run. To name some: only depositors woken by `notify_all`; rewards
that are not broadcast; a rollback that leaves the sampler; an optimizer that fails on one rank
without telling; a stage whose contents
are not synced before the rename; the payload fenced together with the manifest; an exact package
that is trusted without a fence; a rank that rewinds because it published nothing itself; a metrics
row whose failure is only a warning; a process group that outlives the exit of its leader; a request
directory that is reused; an id that its launch leaves behind; consensus by one rank's own
difference.

## 6. Findings

Four places where a comment says more than the code does. None is corrected here; each is a run that
TLC finds violated.

1. `comm.rs:375` says that a deadline "poisons the world (waking every peer into a loud failure)".
   The condition variable that is notified is that of the rendezvous in question; a rank parked in
   the rendezvous of the other kind learns of the poison at its own deadline.
2. `checkpoint.rs:2511` says that atomic ordinary publication exposes only complete final
   directories. A rollback rename that reports an error although it was applied leaves the parent
   unsynced, the next writer sweeps the stage without a fence, and a power failure can bring the
   final name back over a package that is half removed.
3. `checkpoint.rs:2423` says that an aside is never treated as "no checkpoint". A listing taken
   between the two renames of a replacement holds only the aside; by the time it is examined the
   canonical name exists again, the aside is skipped, and the scan returns `None`.
4. `sandbox.rs:813` says that the absence of the entry marker proves that the verifier was not
   entered. When a killed process outlives the grace of the stderr drain, `collect_output`
   (`sandbox.rs:1517`) drops what was read, the marker with it, and a verifier that ran is reported
   as infrastructure.

Observations that no document contradicts, met while modelling:

- Run health: a candidate of unknown correctness leaves the denominator of a fraction, and a
  duplicate may stand in for a row of another step, so that losing such evidence can turn a broken
  rule into a kept one (`LostEvidenceHealsNothing` states what does hold).
- Ranks of a tensor-parallel group each sample their own rollout and compare only afterwards
  (`trainer.rs`, `collect_group`).
- A verifier pool with fewer devices than parallel workers is not rejected; two workers then share a
  device. That is the premise of `WorkersOfAChunkAreApart`.
- The comparison of worlds asks for timing and memory probes in warmup rows too, where that of two
  streams passes over them, so that a world of one rank is compared more strictly than its stream
  (`OneRankIsAStream` has the exact relation).
- The collector wraps row numbers at 2^64 where the reader refuses them; its own preflight refuses
  such a window too (`WrappedRowsAreNotWritten`).
- Discovery of ordinary checkpoints answers damage to the newest with an error, that of
  continuations passes over it and takes an older one, as its comment says (`DamageIsSeen`); the
  learner repeats the steps in between, and its save then finds the damaged name in its way.
- A comment (`trimul.rs:3332`) ranks every correct candidate above every partial one. That is so
  of candidates whose run has ended by itself: one whose tests have passed and whose sandbox then
  times out or fails in the benchmarks gets the lowest rung, by the first guard of
  `reward_from_eval` (`LadderHolds` has the exact relation).
- The seed of the training that a manifest states is vouched for by the launch record alone; every
  other change to a manifest shows in its checks (`EditsAreSeen`).
- A claim of a ledger step or of a continuation that a crash has left is in the way of every later
  writer until an operator removes it (`NeedsOperator` of SeparatedTraining).

Hazards of the same kind as those listed in `PROJECT.json`, of less weight and not followed up:
metrics rows that a relaunch repeats (`trainer.rs:7186`), a process group id that is used again
(`sandbox.rs:1198`), the protected-channel result that is dropped with its drain (`sandbox.rs:918`),
a failing `accept` that ends the service (`verifier_executor.rs:681`), an evaluation report whose
error is not reduced over the ranks (`orchestration.rs:3115`), and the time between `require_owner`
and `hard_link` when somebody else removes the output (`artifact.rs:1034`).

## 7. Plan

Done: Rendezvous, TrainerRun, CheckpointPublication with CheckpointData, RolloutLedger with
WindowData, SeparatedTraining, VerifierRun with Grading, LaunchRun, ArtifactPublication with
AuditEvidence and their composition AuditedRun, and the other pure modules.

Proved: every safety property of the passing runs, the refinements among them.

Of the pure modules: the numbering of work, schedules, weights, bands, the choice of a candidate, the
decoding of a group, windows, checkpoints as data and their discovery, manifests of an audit, the
comparison of runs, and evaluations.

Proofs to come: RunHealth, Grading and the chunked sweep for inputs of any length, in the way of
section 4's induction over data; what a scan finds of a directory that both kinds of checkpoint writer
use.

Modules to come: the tensor-parallel mode of a launch; the preflight of the verifier executor.

## 8. Not modelled

- *Models, kernels, quantisation, rematerialisation, mixture of experts*: tensor programs without
  control state. Their numerics are out of a model checker's reach; the collectives they enter are
  calls of TrainerRun.
- *The loss, advantages, optimizer and sampler as floating point*: their masks, weights, streams,
  step counts and positions are modelled, the arithmetic is not.
- *Parsers, formats, digests, wire encodings, headers of weight files, the command line's arguments
  and configurations*: they accept or refuse before any state changes. Where acceptance is what
  matters (a rollout window, a checkpoint, the log of a verifier, the manifest of an artifact, a health
  policy, a comparison of runs) the rule is modelled on the decoded data.
- *The grader of countdown, the extraction of a submission, the drivers in Python*: arithmetic and
  parsing of outputs.
- *Public interface and build*: no behaviour.

The map covers over a tenth of the implementation's lines. Tests inside the source files and tensor
code make up well over half of them, and most of the rest is parsing, formatting and validation of
configurations. It is dense where shared or durable state changes.
`PROJECT.json` says for each component what stands and what does not.
