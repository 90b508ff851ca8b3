--------------------------- MODULE SeparatedTraining ---------------------------
(***************************************************************************)
(* Separated training: collectors publish one rollout window per step, a   *)
(* learner consumes it and publishes the continuation from which both go   *)
(* on.  The learner is modelled rank by rank:                              *)
(*   restore_latest_rollout_ledger_continuation, then for every step       *)
(*   train_rollout_ledger_step and save_rollout_ledger_continuation        *)
(* (src/crates/ferrl/src/trainer.rs).  Collectors and the two directories  *)
(* appear by what their own modules show of them (LedgerWindow,            *)
(* CheckpointSlot): entries are written once, a crash may leave a claim    *)
(* without content, and what no sync has settled a power failure may lose. *)
(*                                                                         *)
(* A state of the model (adapter, Adam, sampler) is the log of the windows *)
(* it has been trained on, each with the job that did: two jobs that train *)
(* on one window need not come to the same bits.  The digests of the code  *)
(* are comparisons of such logs.                                           *)
(*                                                                         *)
(* A job is one learner world of several ranks.  A caller repeats a call   *)
(* of the learner that failed with a plain error, and ends the job after   *)
(* any other; a job that has lost a rank is started again, also while its  *)
(* other ranks linger.                                                     *)
(***************************************************************************)
EXTENDS Naturals, Sequences, FiniteSets, FiniteSetsExt, SequencesExt

CONSTANTS Ranks, Primary,   \* a learner world and its rank 0
          Streams,          \* the ranks that write metrics: all, or rank 0 (tensor parallel)
          Jobs,             \* places for jobs; each may be used again and again
          Steps,            \* bound: config.steps
          MaxFaults,        \* bound: operations and collectives that fail
          MaxKills,         \* bound: processes killed
          MaxOutages        \* bound: power failures

ASSUME TrainingAssumption ==
  /\ IsFiniteSet(Ranks) /\ Cardinality(Ranks) > 1 /\ Primary \in Ranks
  /\ Streams = Ranks \/ Streams = {Primary}
  /\ IsFiniteSet(Jobs) /\ Jobs # {}
  /\ Steps \in Nat \ {0}
  /\ MaxFaults \in Nat /\ MaxKills \in Nat /\ MaxOutages \in Nat

VARIABLES
  windows,   \* windows[k]: the rollout window of step k
  slots,     \* slots[k]: the continuation of k completed steps
  settled,   \* the continuations that a power failure keeps
  phase,     \* phase[j][r]: the part of a call that rank r is in, or how its job ended
  entered,   \* entered[j]: the ranks waiting in the reduction of that part
  failed,    \* failed[j]: those of them that report a failure
  unsure,    \* unsure[j]: does rank 0 report an ambiguous publication?
  comm,      \* comm[j]: "live", or "dead" once a collective has failed
  resume,    \* resume[j]: the completed steps of the continuation j starts from
  policy,    \* policy[j][r]: the live adapter and sampler
  receipt,   \* receipt[j][r]: the continuation that the last good call returned
  rows,      \* rows[j][r]: the metrics rows that r has appended in this job
  untidy,    \* untidy[j]: an error of j said that rows could not be taken back
  faults, kills, outages       \* counters that the bounds cap

disk == <<windows, slots, settled>>
calls == <<phase, entered, failed, unsure, comm, resume>>
vars == <<disk, calls, policy, receipt, rows, untidy, faults, kills, outages>>

Empty == [what |-> "nothing"]
Claim == [what |-> "claim"]         \* a directory without its manifest
Torn == Steps                       \* a row that was not written to its end
Genesis == << >>
Fresh == [adapter |-> Genesis, sampler |-> Genesis]
Ended == {"none", "stop", "discard", "ambiguous", "done", "killed"}

Init ==
  /\ windows = [k \in 0..(Steps - 1) |-> Empty]
  /\ slots = [k \in 1..Steps |-> Empty]
  /\ settled = {}
  /\ phase = [j \in Jobs |-> [r \in Ranks |-> "none"]]
  /\ entered = [j \in Jobs |-> {}] /\ failed = [j \in Jobs |-> {}]
  /\ unsure = [j \in Jobs |-> FALSE] /\ comm = [j \in Jobs |-> "live"]
  /\ resume = [j \in Jobs |-> 0]
  /\ policy = [j \in Jobs |-> [r \in Ranks |-> Fresh]]
  /\ receipt = [j \in Jobs |-> [r \in Ranks |-> Genesis]]
  /\ rows = [j \in Jobs |-> [r \in Ranks |-> << >>]]
  /\ untidy = [j \in Jobs |-> FALSE]
  /\ faults = 0 /\ kills = 0 /\ outages = 0

Works == UNCHANGED faults
Fails == faults < MaxFaults /\ faults' = faults + 1

Visible(k) == slots[k].what = "continuation"

\* latest_rollout_ledger_continuation: the newest complete one, 0 for none.
Latest == Max({0} \cup {k \in DOMAIN slots : Visible(k)})
LatestState == IF Latest = 0 THEN Genesis ELSE slots[Latest].state

(***************************************************************************)
(* The collector.                                                          *)
(***************************************************************************)
\* A collector restores the latest continuation and publishes the next window,
\* or leaves a claim when it is killed.  It may take any time to settle what it
\* has published, and a learner does not wait for that.  Rewards need not repeat themselves: a
\* window that is collected after a power failure is another one.
Collect ==
  /\ Latest < Steps /\ windows[Latest] = Empty
  /\ \/ /\ windows' = [windows EXCEPT ![Latest] =
             [what |-> "window", base |-> LatestState, bytes |-> outages]]
        /\ UNCHANGED kills
     \/ /\ kills < MaxKills /\ kills' = kills + 1
        /\ windows' = [windows EXCEPT ![Latest] = Claim]
  /\ UNCHANGED <<slots, settled, calls, policy, receipt, rows, untidy, faults, outages>>

(***************************************************************************)
(* Jobs and their calls.                                                   *)
(***************************************************************************)
Over(j, r) == phase[j][r] \in Ended
Busy(j, r, p) == phase[j][r] = p /\ r \notin entered[j]

Free == {j \in Jobs : \A r \in Ranks : Over(j, r)}

\* A learner is started when no whole one runs, until every step is done.  It
\* takes a place that is free; what was in the free ones is gone.
Launch ==
  LET j == CHOOSE i \in Free : TRUE
      Cleared(f, v) == [i \in Jobs |-> IF i \in Free THEN v ELSE f[i]]
  IN /\ Free # {}
     /\ \A i \in Jobs : \E r \in Ranks : Over(i, r)
     /\ Latest < Steps
     /\ phase' = [Cleared(phase, [r \in Ranks |-> "none"])
                    EXCEPT ![j] = [r \in Ranks |-> "discover"]]
     /\ entered' = Cleared(entered, {}) /\ failed' = Cleared(failed, {})
     /\ unsure' = Cleared(unsure, FALSE) /\ comm' = Cleared(comm, "live")
     /\ resume' = Cleared(resume, 0)
     /\ policy' = Cleared(policy, [r \in Ranks |-> Fresh])
     /\ receipt' = Cleared(receipt, [r \in Ranks |-> Genesis])
     /\ rows' = Cleared(rows, [r \in Ranks |-> << >>])
     /\ untidy' = Cleared(untidy, FALSE)
     /\ UNCHANGED <<disk, faults, kills, outages>>

\* A rank ends its part of the work and waits in the reduction, without a
\* failure or with one.
Good(j, r) ==
  /\ Works
  /\ entered' = [entered EXCEPT ![j] = @ \cup {r}]
  /\ UNCHANGED failed
Bad(j, r) ==
  /\ entered' = [entered EXCEPT ![j] = @ \cup {r}]
  /\ failed' = [failed EXCEPT ![j] = @ \cup {r}]

Set(j, r, adapter, sampler) ==
  policy' = [policy EXCEPT ![j][r] = [adapter |-> adapter, sampler |-> sampler]]

LocalOnly == UNCHANGED <<disk, phase, unsure, comm, untidy, kills, outages>>

(***************************************************************************)
(* restore_latest_rollout_ledger_continuation.                             *)
(***************************************************************************)
\* Rank 0 looks for the latest continuation; its peers learn the step from it.
Discover(j, r) ==
  /\ Busy(j, r, "discover")
  /\ \/ Good(j, r) /\ resume' = IF r = Primary THEN [resume EXCEPT ![j] = Latest] ELSE resume
     \/ r = Primary /\ Fails /\ Bad(j, r) /\ UNCHANGED resume
  /\ LocalOnly /\ UNCHANGED <<policy, receipt, rows>>

\* Mutant: the sampler of the continuation is not installed.
LoadAdapter(j, r) ==
  LET k == resume[j]
      state == slots[k].state
  IN /\ Busy(j, r, "load")
     /\ \/ /\ Visible(k) /\ Good(j, r)
           /\ Set(j, r, state, Genesis)
           /\ receipt' = [receipt EXCEPT ![j][r] = state]
        \/ /\ ~Visible(k) /\ Works /\ Bad(j, r)
           /\ UNCHANGED <<policy, receipt>>
     /\ LocalOnly /\ UNCHANGED <<resume, rows>>

\* Adapter and sampler are installed, or a failure leaves some of it installed.
Load(j, r) ==
  LET k == resume[j]
      there == Visible(k)
      state == slots[k].state
  IN /\ Busy(j, r, "load")
     /\ \/ /\ there /\ Good(j, r)
           /\ Set(j, r, state, state)
           /\ receipt' = [receipt EXCEPT ![j][r] = state]
        \/ /\ there /\ Fails /\ Bad(j, r)
           /\ \E a, s \in {state, Genesis} : Set(j, r, a, s)
           /\ UNCHANGED receipt
        \/ /\ ~there /\ Works /\ Bad(j, r)
           /\ UNCHANGED <<policy, receipt>>
     /\ LocalOnly /\ UNCHANGED <<resume, rows>>

\* restore_rollout_ledger_checkpoint_prestate
Unload(j, r) ==
  /\ Busy(j, r, "unload")
  /\ \/ Good(j, r) /\ Set(j, r, Genesis, Genesis)
     \/ Fails /\ Bad(j, r) /\ UNCHANGED policy
  /\ receipt' = [receipt EXCEPT ![j][r] = Genesis]
  /\ LocalOnly /\ UNCHANGED <<resume, rows>>

(***************************************************************************)
(* train_rollout_ledger_step.                                              *)
(***************************************************************************)
Step(j, r) == Len(receipt[j][r])       \* completed_step of the continuation
Next_(j, r) == Append(receipt[j][r], [window |-> windows[Step(j, r)], by |-> <<j, outages>>])

\* Mutant: the reader does not compare the identity of the manifest.
AcceptsAny(j, r) ==
  LET k == Step(j, r) IN
  /\ policy[j][r] = [adapter |-> receipt[j][r], sampler |-> receipt[j][r]]
  /\ windows[k].what = "window"

\* The continuation is compared with the live policy, and the window with both.
Accepts(j, r) ==
  LET k == Step(j, r) IN
  /\ policy[j][r] = [adapter |-> receipt[j][r], sampler |-> receipt[j][r]]
  /\ windows[k].what = "window"
  /\ windows[k].base = receipt[j][r]

Read(j, r) ==
  /\ Busy(j, r, "read")
  /\ \/ Accepts(j, r) /\ Good(j, r)
     \/ ~Accepts(j, r) /\ Works /\ Bad(j, r)
     \/ Fails /\ Bad(j, r)
  /\ LocalOnly /\ UNCHANGED <<resume, policy, receipt, rows>>

\* Scoring, the update of the window and the handoff of the sampler; a failure
\* may come before, between and after them.
Update(j, r) ==
  LET new == Next_(j, r)
      old == receipt[j][r]
  IN /\ Busy(j, r, "update")
     /\ \/ Good(j, r) /\ Set(j, r, new, new)
        \/ /\ Fails /\ Bad(j, r)
           /\ \/ UNCHANGED policy
              \/ Set(j, r, new, old)
              \/ Set(j, r, new, new)
     /\ LocalOnly /\ UNCHANGED <<resume, receipt, rows>>

\* Mutant: a metrics row that cannot be written is passed over.
AppendRowOrWarn(j, r) ==
  /\ Busy(j, r, "append")
  /\ \/ /\ Works
        /\ rows' = IF r \in Streams THEN [rows EXCEPT ![j][r] = Append(@, Step(j, r))] ELSE rows
     \/ r \in Streams /\ Fails /\ UNCHANGED rows
  /\ entered' = [entered EXCEPT ![j] = @ \cup {r}] /\ UNCHANGED failed
  /\ LocalOnly /\ UNCHANGED <<resume, policy, receipt>>

\* The last change of a step: its row, on the ranks that keep a stream.
AppendRow(j, r) ==
  /\ Busy(j, r, "append")
  /\ \/ /\ Good(j, r)
        /\ rows' = IF r \in Streams THEN [rows EXCEPT ![j][r] = Append(@, Step(j, r))] ELSE rows
     \/ /\ r \in Streams /\ Fails /\ Bad(j, r)
        /\ UNCHANGED rows \/ rows' = [rows EXCEPT ![j][r] = Append(@, Torn)]
  /\ LocalOnly /\ UNCHANGED <<resume, policy, receipt>>

\* What append_boundary has returned: the rows of the steps before this one.
Boundary(j, r) == Step(j, r) - resume[j]
CutRows(j, r) == [rows EXCEPT ![j][r] = SubSeq(@, 1, Min({Len(@), Boundary(j, r)}))]

\* Some rank could not append: every one takes its row back.
TruncateRow(j, r) ==
  /\ Busy(j, r, "truncate")
  /\ \/ Good(j, r) /\ rows' = CutRows(j, r)
     \/ r \in Streams /\ Fails /\ Bad(j, r) /\ UNCHANGED rows
  /\ LocalOnly /\ UNCHANGED <<resume, policy, receipt>>

\* Mutant: the sampler is not part of what is restored.
RollbackKeepsSampler(j, r) ==
  /\ Busy(j, r, "rollback")
  /\ \/ Good(j, r) /\ Set(j, r, receipt[j][r], policy[j][r].sampler)
     \/ Fails /\ Bad(j, r) /\ UNCHANGED policy
  /\ LocalOnly /\ UNCHANGED <<resume, receipt, rows>>

\* restore_rollout_ledger_prestate, which goes on after a part that fails.
Rollback(j, r) ==
  /\ Busy(j, r, "rollback")
  /\ \/ Good(j, r) /\ Set(j, r, receipt[j][r], receipt[j][r])
     \/ /\ Fails /\ Bad(j, r)
        /\ \/ Set(j, r, receipt[j][r], policy[j][r].sampler)
           \/ Set(j, r, policy[j][r].adapter, receipt[j][r])
  /\ LocalOnly /\ UNCHANGED <<resume, receipt, rows>>

(***************************************************************************)
(* save_rollout_ledger_continuation.                                       *)
(***************************************************************************)
\* Every rank compares the receipt with its live policy.
CheckReceipt(j, r) ==
  LET same == policy[j][r] = [adapter |-> receipt[j][r], sampler |-> receipt[j][r]]
  IN /\ Busy(j, r, "check")
     /\ \/ same /\ Good(j, r)
        \/ same /\ Fails /\ Bad(j, r)
        \/ ~same /\ Works /\ Bad(j, r)
     /\ LocalOnly /\ UNCHANGED <<resume, policy, receipt, rows>>

AwaitSave(j, r) ==
  /\ Busy(j, r, "save") /\ r # Primary
  /\ Good(j, r)
  /\ LocalOnly /\ UNCHANGED <<resume, policy, receipt, rows>>

Shows(j) == [what |-> "continuation", state |-> receipt[j][Primary]]

\* Mutant: the directory is written whether it exists or not.
PublishOver(j) ==
  LET k == Step(j, Primary) IN
  /\ Busy(j, Primary, "save")
  /\ Works
  /\ slots' = [slots EXCEPT ![k] = Shows(j)]
  /\ phase' = [phase EXCEPT ![j][Primary] = "settle"]
  /\ UNCHANGED <<windows, settled, entered, failed, unsure, comm, resume, policy, receipt,
                 rows, untidy, kills, outages>>

\* save_checkpoint_no_replace on rank 0, to its manifest.  A failure before it
\* leaves nothing, or a claim that could not be removed.
Publish(j) ==
  LET k == Step(j, Primary) IN
  /\ Busy(j, Primary, "save")
  /\ \/ /\ slots[k] = Empty /\ Works
        /\ slots' = [slots EXCEPT ![k] = Shows(j)]
        /\ phase' = [phase EXCEPT ![j][Primary] = "settle"]
        /\ UNCHANGED <<entered, failed>>
     \/ /\ slots[k] # Empty /\ Works /\ Bad(j, Primary)
        /\ UNCHANGED <<slots, phase>>
     \/ /\ slots[k] = Empty /\ Fails /\ Bad(j, Primary)
        /\ slots' \in {slots, [slots EXCEPT ![k] = Claim]}
        /\ UNCHANGED phase
  /\ UNCHANGED <<windows, settled, unsure, comm, resume, policy, receipt, rows, untidy,
                 kills, outages>>

\* The syncs after the manifest; what fails now is ambiguous.
SettleSlot(j) ==
  /\ Busy(j, Primary, "settle")
  /\ \/ /\ Good(j, Primary)
        /\ settled' = settled \cup {Step(j, Primary)}
        /\ UNCHANGED unsure
     \/ /\ Fails /\ Bad(j, Primary)
        /\ unsure' = [unsure EXCEPT ![j] = TRUE]
        /\ UNCHANGED settled
  /\ UNCHANGED <<windows, slots, phase, comm, resume, policy, receipt, rows, untidy,
                 kills, outages>>

(***************************************************************************)
(* The reductions.                                                         *)
(***************************************************************************)
\* Where every rank goes from the reduction of p.
After(j, p, ok) ==
  CASE p = "discover" -> IF ~ok THEN "stop" ELSE IF resume[j] = 0 THEN "read" ELSE "load"
    [] p = "load"     -> IF ok THEN "read" ELSE "unload"
    [] p = "unload"   -> IF ok THEN "stop" ELSE "discard"
    [] p = "read"     -> IF ok THEN "update" ELSE "read"
    [] p = "update"   -> IF ok THEN "append" ELSE "rollback"
    [] p = "append"   -> IF ok THEN "check" ELSE "truncate"
    [] p = "truncate" -> "rollback"
    [] p = "rollback" -> IF ok THEN "read" ELSE "discard"
    [] p = "check"    -> IF ok THEN "save" ELSE "stop"
    [] OTHER          -> IF ok THEN "read" ELSE IF unsure[j] THEN "ambiguous" ELSE "stop"

\* A step is followed by the next one, if there is one.
Onward(j, r, p) == IF p = "read" /\ Step(j, r) = Steps THEN "done" ELSE p

Reduce(j) ==
  LET ok == failed[j] = {}
      appended == ok /\ phase[j][Primary] = "append"
  IN /\ comm[j] = "live" /\ entered[j] = Ranks
     /\ phase' = [phase EXCEPT ![j] = [r \in Ranks |-> Onward(j, r, After(j, @[r], ok))]]
     /\ receipt' = [receipt EXCEPT ![j] =
          [r \in Ranks |-> IF appended THEN Next_(j, r) ELSE @[r]]]
     /\ untidy' = [untidy EXCEPT ![j] = @ \/ (~ok /\ phase[j][Primary] = "truncate")]
     /\ entered' = [entered EXCEPT ![j] = {}] /\ failed' = [failed EXCEPT ![j] = {}]
     /\ UNCHANGED <<disk, unsure, comm, resume, policy, rows, faults, kills, outages>>

CommDies(j) ==
  /\ comm[j] = "live" /\ entered[j] # {}
  /\ comm' = [comm EXCEPT ![j] = "dead"]
  /\ UNCHANGED <<disk, phase, entered, failed, unsure, resume, policy, receipt, rows,
                 untidy, kills, outages>>

\* A transport failure, and the deadline of a peer that is gone.
CommFails(j) == CommDies(j) /\ Fails
Deadline(j) == CommDies(j) /\ Works /\ \E r \in Ranks : Over(j, r)

\* How a call ends that loses its communicator: it names the policy as one to
\* discard wherever the policy had been touched.
AfterComm(p) ==
  CASE p \in {"discover", "read", "check"} -> "stop"
    [] p \in {"save", "settle"}            -> "ambiguous"
    [] OTHER                               -> "discard"

\* The rank takes back by itself what it can: its row, and its policy.
CommError(j, r) ==
  LET p == phase[j][r] IN
  /\ comm[j] = "dead" /\ r \in entered[j] /\ ~Over(j, r)
  /\ phase' = [phase EXCEPT ![j][r] = AfterComm(p)]
  /\ entered' = [entered EXCEPT ![j] = @ \ {r}] /\ failed' = [failed EXCEPT ![j] = @ \ {r}]
  /\ rows' = IF p = "append" THEN CutRows(j, r) ELSE rows
  /\ policy' = IF p \in {"load", "unload"}
               THEN [policy EXCEPT ![j][r] = Fresh]
               ELSE [policy EXCEPT ![j][r] = [adapter |-> receipt[j][r], sampler |-> receipt[j][r]]]
  /\ UNCHANGED <<disk, unsure, comm, resume, receipt, untidy, faults, kills, outages>>

(***************************************************************************)
(* Crashes.                                                                *)
(***************************************************************************)
\* A process is killed; one that publishes may leave its claim.
Kill(j, r) ==
  /\ ~Over(j, r) /\ kills < MaxKills /\ kills' = kills + 1
  /\ phase' = [phase EXCEPT ![j][r] = "killed"]
  /\ entered' = [entered EXCEPT ![j] = @ \ {r}] /\ failed' = [failed EXCEPT ![j] = @ \ {r}]
  /\ \/ UNCHANGED slots
     \/ /\ Busy(j, r, "save") /\ r = Primary /\ slots[Step(j, r)] = Empty
        /\ slots' = [slots EXCEPT ![Step(j, r)] = Claim]
  /\ policy' = [policy EXCEPT ![j][r] = Fresh]
  /\ receipt' = [receipt EXCEPT ![j][r] = Genesis]
  /\ UNCHANGED <<windows, settled, unsure, comm, resume, rows, untidy, faults, outages>>

\* Power fails: no process survives; any window may not have been settled yet,
\* and of the continuations that are not any part is lost.
Outage ==
  /\ outages < MaxOutages /\ outages' = outages + 1
  /\ \E lost \in SUBSET DOMAIN windows :
       windows' = [k \in DOMAIN windows |-> IF k \in lost THEN Empty ELSE windows[k]]
  /\ \E lost \in SUBSET (DOMAIN slots \ settled) :
       slots' = [k \in DOMAIN slots |-> IF k \in lost THEN Empty ELSE slots[k]]
  /\ phase' = [j \in Jobs |-> [r \in Ranks |-> IF phase[j][r] = "none" THEN "none" ELSE "killed"]]
  /\ entered' = [j \in Jobs |-> {}] /\ failed' = [j \in Jobs |-> {}]
  /\ policy' = [j \in Jobs |-> [r \in Ranks |-> Fresh]]
  /\ receipt' = [j \in Jobs |-> [r \in Ranks |-> Genesis]]
  /\ UNCHANGED <<settled, unsure, comm, resume, rows, untidy, faults, kills>>

RankStep(j, r) ==
  \/ Discover(j, r) \/ Load(j, r) \/ Unload(j, r)
  \/ Read(j, r) \/ Update(j, r) \/ AppendRow(j, r) \/ TruncateRow(j, r) \/ Rollback(j, r)
  \/ CheckReceipt(j, r) \/ AwaitSave(j, r) \/ CommError(j, r)

\* What a job does when nothing interferes with it.
Progress(j) ==
  \/ Publish(j) \/ SettleSlot(j) \/ Reduce(j) \/ Deadline(j)
  \/ \E r \in Ranks : RankStep(j, r)

\* Every step is done and no job runs.
Finished == Latest = Steps /\ (\A j \in Jobs, r \in Ranks : Over(j, r)) /\ UNCHANGED vars

Next ==
  \/ Collect
  \/ \E j \in Jobs : \/ Progress(j) \/ CommFails(j)
                     \/ \E r \in Ranks : Kill(j, r)
  \/ Launch \/ Outage \/ Finished

\* Somebody starts the jobs again, collectors run, and a process that can run does.
Fairness ==
  /\ WF_vars(Collect) /\ WF_vars(Launch)
  /\ \A j \in Jobs : WF_vars(Progress(j))

Spec == Init /\ [][Next]_vars /\ Fairness

(***************************************************************************)
(* Properties.                                                             *)
(***************************************************************************)
\* Between two calls of a rank, also after calls that have failed, and when it
\* stops with a plain error: adapter and sampler are those of the receipt it
\* holds, and its stream has exactly the rows of the steps that the receipt has
\* and its job did, unless an error has said that they could not be taken back.
Between(j, r) ==
  \/ Busy(j, r, "read") \/ Busy(j, r, "check") \/ Busy(j, r, "save")
  \/ phase[j][r] \in {"stop", "ambiguous", "done"}

ReceiptTellsAll ==
  \A j \in Jobs, r \in Ranks : Between(j, r) =>
    /\ policy[j][r] = [adapter |-> receipt[j][r], sampler |-> receipt[j][r]]
    /\ r \in Streams /\ ~untidy[j] =>
         rows[j][r] = [i \in 1..(Step(j, r) - resume[j]) |-> resume[j] + i - 1]

\* When a continuation becomes visible, each rank of its job that keeps a stream
\* has the row of its last step: no metrics are missing from a run that goes on
\* from it.
RowsComeFirst ==
  [][\A k \in DOMAIN slots : slots'[k].what = "continuation" /\ slots'[k] # slots[k] =>
       \A r \in Streams : \E i \in DOMAIN rows[Last(slots'[k].state).by[1]][r] :
         rows[Last(slots'[k].state).by[1]][r][i] = k - 1]_vars

\* Whatever was lost and collected anew: each window that a continuation, or a
\* learner's receipt, has been trained on was collected from the very state that
\* the training went on from.
OwnWindows(log) ==
  \A i \in DOMAIN log : log[i].window.base = SubSeq(log, 1, i - 1)

NoForeignWindow ==
  /\ \A k \in DOMAIN slots : Visible(k) => OwnWindows(slots[k].state)
  /\ \A j \in Jobs, r \in Ranks : OwnWindows(receipt[j][r])

Settled == Max({0} \cup settled)

Log == INSTANCE TrainingLog WITH log <- LatestState, settled <- Settled

\* All the jobs together write one log of the training, whichever of them
\* linger, are started again, or lose a race for a step.
ImplementsLog == Log!Spec

\* A crash inside a publication leaves a claim, and an outage may take a
\* continuation from which a window was collected that it leaves: both end with
\* errors, and an operator has to clean up.
NeedsOperator ==
  \/ \E k \in DOMAIN windows : windows[k] = Claim
  \/ \E k \in DOMAIN slots : slots[k] = Claim
  \/ \E k \in DOMAIN slots \ {Steps} :
       Visible(k) /\ windows[k].what = "window" /\ windows[k].base # slots[k].state

\* In every other case the training comes to its end: a failure leaves no rank
\* in a reduction, and a job that is started again goes on from what it finds.
ChainCompletes == <>(Latest = Steps \/ NeedsOperator)
=============================================================================
