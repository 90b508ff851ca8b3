------------------------------- MODULE LaunchRun -------------------------------
(***************************************************************************)
(* One training launch from the command line to its verdict, as            *)
(* src/crates/ferrl/src/orchestration.rs runs it on the ranks of a         *)
(* data-parallel world: the communicator (comm/nccl.rs, comm/nccl/real.rs),*)
(* run_cli_train_setup, then the stages of ConcreteEngine.  Whatever a     *)
(* rank does by itself ends in a reduction that tells every rank whether   *)
(* some rank has failed; what all ranks have to hold in common is compared *)
(* through sums of its bytes.                                              *)
(*                                                                         *)
(* The ranks of a launch find each other through a file in which rank 0    *)
(* leaves the id of the communicator.  Launches that are started again for *)
(* one another use the same file, one after the other.                     *)
(*                                                                         *)
(* The ranks of a launch share a group identity, made of the task and the  *)
(* second at which rank 0 read its clock, and each has a run directory of  *)
(* that name (src/crates/ferrl/src/telemetry.rs).  Two launches of one     *)
(* second therefore meet in the same directories.                          *)
(*                                                                         *)
(* Training is one step here, its own collectives are those of TrainerRun, *)
(* and so is that the ranks end it alike: completed, preempted or failed.  *)
(* The code has no reduction after it, Try("train") stands for that.  A    *)
(* reduction is atomic, as AllReduce specifies and Rendezvous has it.      *)
(*                                                                         *)
(* Of what the ranks compare before training (the end-of-sequence token,   *)
(* the policy, its variables, the held-out samples) the steps below name   *)
(* one of a kind.  The others are of the same form and have no effect but  *)
(* to fail.                                                                *)
(***************************************************************************)
EXTENDS Naturals, Sequences, FiniteSetsExt

CONSTANTS Launches,    \* launches of one task
          World,       \* World[l]: number of ranks of launch l
          Seconds,     \* readings of the clock, none of them 0
          HeldOut,     \* launches that have held-out samples to evaluate
          Oddities,    \* what may differ between the ranks of a launch
          Places,      \* assignments of launches to rendezvous files
          MaxFaults,   \* bound: failures of any kind
          None

Ranks(l) == 0 .. World[l] - 1
AllRanks == UNION {Ranks(l) : l \in Launches}

Share(item) == <<"share", item>>    \* the bytes of the item are summed over the ranks
Agree(item) == <<"agree", item>>    \* does any rank hold something else?
Try(work)   == <<"try", work>>      \* has any rank failed?

\* The reductions of a launch in the order of the code, each with the work before it.
Program ==
  << Share("config"), Agree("config"), Try("commit"), Share("commit"), Agree("commit"),
     Try("clock"), Share("clock"), Try("task"),
     Try("model"), Share("provenance"), Agree("provenance"),
     Try("samples"), Share("samples"), Agree("samples"),
     Try("launch"), Try("verifier"), Try("rundir"), Try("train"), Try("health"),
     Try("evaluate"), Share("report"), Agree("report"), Try("report"), Try("candidates") >>

Items == {Program[i][2] : i \in {j \in DOMAIN Program : Program[j][1] = "agree"}}

ASSUME LaunchAssumption ==
  /\ World \in [Launches -> Nat \ {0, 1}] /\ MaxFaults \in Nat
  /\ Seconds \subseteq Nat \ {0} /\ Oddities \subseteq [Launches -> Items \cup {None}]
  /\ \A o \in Oddities : \A l \in Launches \ HeldOut : o[l] # "report"
  /\ None \notin Launches \cup {"failed", "dead", "completed", "preempted"}

VARIABLES
  place,     \* place[l]: the rendezvous file of l, FERRL_NCCL_RENDEZVOUS
  ids,       \* ids[f]: the launch whose id the file holds
  job,       \* job[l][r]: a rank of a launch
  comm,      \* comm[l]: "live" or "dead"
  odd,       \* odd[l]: the item that the ranks of l do not have in common
  second,    \* second[l]: the stamp of the group, 0 before there is one
  dir,       \* dir[<<s, r>>]: a run directory, its files by the launch that wrote them
  failures   \* a counter that MaxFaults caps

launchVars == <<place, ids, job, comm, odd, second, dir, failures>>

Start == [step |-> 1, doing |-> "boot", id |-> None, litters |-> FALSE,
          said |-> 0, differs |-> FALSE, end |-> None]
Empty == [prompt |-> None, launch |-> None, rows |-> {}, report |-> None]

LaunchInit ==
  /\ place \in Places
  /\ ids = [f \in {place[l] : l \in Launches} |-> None]
  /\ job = [l \in Launches |-> [r \in Ranks(l) |-> Start]]
  /\ comm = [l \in Launches |-> "live"]
  /\ odd \in Oddities
  /\ second = [l \in Launches |-> 0]
  /\ dir = [d \in Seconds \X AllRanks |-> Empty]
  /\ failures = 0

Succeeds == UNCHANGED failures
Breaks == failures < MaxFaults /\ failures' = failures + 1

Does(l, r, kind) == job[l][r].doing = "work" /\ Program[job[l][r].step][1] = kind
Doing(l, r, work) == job[l][r].doing = "work" /\ Program[job[l][r].step] = Try(work)
RunDir(l, r) == <<second[l], r>>

\* The rank enters the reduction, with a number.
Says(l, r, number) ==
  job' = [job EXCEPT ![l][r].doing = "call", ![l][r].said = number]

\* The ranks hold the same, but for the odd item, of which each holds its own.
View(l, r) ==
  LET item == Program[job[l][r].step][2]
  IN  IF item = "clock" THEN 0 ELSE IF odd[l] = item THEN r ELSE 1

(***************************************************************************)
(* The communicator.                                                       *)
(***************************************************************************)
Failed(j) == [j EXCEPT !.doing = "end", !.end = "failed", !.id = None]
Fails(l, r) == job' = [job EXCEPT ![l][r] = Failed(@)]

\* A file serves one launch at a time: the scheduler starts a job again only when
\* all its processes have ended.
MayStart(l) == \A k \in Launches \ {l} : place[k] = place[l] =>
  \/ \A r \in Ranks(k) : job[k][r] = Start
  \/ \A r \in Ranks(k) : job[k][r].doing = "end"

Boots(l, r, doing) == job[l][r].doing = doing /\ MayStart(l) /\ UNCHANGED <<place, comm, odd, second, dir>>

\* write_id_file first removes what is there, without looking.  Before it, the
\* device and the id may fail.
ClearPlace(l) ==
  /\ Boots(l, 0, "boot")
  /\ \/ Succeeds /\ ids' = [ids EXCEPT ![place[l]] = None]
        /\ job' = [job EXCEPT ![l][0].doing = "publish"]
     \/ Breaks /\ Fails(l, 0) /\ UNCHANGED ids

PublishId(l) ==
  /\ Boots(l, 0, "publish")
  /\ \/ Succeeds /\ ids' = [ids EXCEPT ![place[l]] = l]
        /\ job' = [job EXCEPT ![l][0].doing = "init", ![l][0].id = l]
     \/ Breaks /\ Fails(l, 0) /\ UNCHANGED ids

\* read_id_file polls, until its deadline.
ReadId(l, r) ==
  /\ Boots(l, r, "boot") /\ r # 0 /\ UNCHANGED ids
  /\ \/ /\ ids[place[l]] # None /\ Succeeds
        /\ job' = [job EXCEPT ![l][r].doing = "init", ![l][r].id = ids[place[l]]]
     \/ /\ ids[place[l]] = None /\ Fails(l, r)
        /\ IF job[l][0].doing = "end" THEN Succeeds ELSE Breaks

\* ncclCommInitRank returns when all ranks have come with one id.
CommInit(l) ==
  /\ \A r \in Ranks(l) : job[l][r].doing = "init" /\ job[l][r].id = l
  /\ job' = [job EXCEPT ![l] = [r \in Ranks(l) |->
       [job[l][r] EXCEPT !.doing = IF r = 0 THEN "remove" ELSE "work", !.id = None]]]
  /\ Succeeds /\ UNCHANGED <<place, ids, comm, odd, second, dir>>

InitFails(l, r) == Boots(l, r, "init") /\ Breaks /\ Fails(l, r) /\ UNCHANGED ids

\* Mutant: the file is left for the next launch to clear.
LeaveId(l) ==
  /\ Boots(l, 0, "remove") /\ Succeeds /\ UNCHANGED ids
  /\ job' = [job EXCEPT ![l][0].doing = "work"]

\* Every rank has read the file.  If it cannot be removed, nobody is told.
RemoveId(l) ==
  /\ Boots(l, 0, "remove")
  /\ \/ Succeeds /\ ids' = [ids EXCEPT ![place[l]] = None]
        /\ job' = [job EXCEPT ![l][0].doing = "work"]
     \/ Breaks /\ UNCHANGED ids
        /\ job' = [job EXCEPT ![l][0].doing = "work", ![l][0].litters = TRUE]

\* A rank that waits for peers that do not come waits until the job is cancelled.
Cancelled(l) ==
  /\ \E r \in Ranks(l) : job[l][r].doing = "init"
  /\ \A r \in Ranks(l) : job[l][r].doing \in {"init", "end"}
  /\ \E r \in Ranks(l) : job[l][r].id # l
  /\ job' = [job EXCEPT ![l] = [r \in Ranks(l) |->
       IF job[l][r].doing = "init" THEN [Failed(job[l][r]) EXCEPT !.end = "dead"] ELSE job[l][r]]]
  /\ Succeeds /\ UNCHANGED <<place, ids, comm, odd, second, dir>>

(***************************************************************************)
(* The work of a rank.                                                     *)
(***************************************************************************)
\* validate_engine_value_consensus, one byte standing for all.  For the clock
\* rank 0 has its second to say, and the others nothing.
Contribute(l, r) ==
  /\ Does(l, r, "share") /\ Succeeds
  /\ \/ Program[job[l][r].step] # Share("clock") /\ Says(l, r, View(l, r))
     \/ Program[job[l][r].step] = Share("clock") /\ r # 0 /\ Says(l, r, View(l, r))
     \/ Program[job[l][r].step] = Share("clock") /\ r = 0 /\ \E s \in Seconds : Says(l, r, s)
  /\ UNCHANGED <<place, ids, comm, odd, second, dir>>

\* Mutant: a rank that sees a difference returns at once.
CompareAlone(l, r) ==
  /\ Does(l, r, "agree") /\ Succeeds
  /\ IF job[l][r].differs
     THEN job' = [job EXCEPT ![l][r].doing = "end", ![l][r].end = "failed"]
     ELSE Says(l, r, 0)
  /\ UNCHANGED <<place, ids, comm, odd, second, dir>>

Compare(l, r) ==
  /\ Does(l, r, "agree") /\ Succeeds
  /\ Says(l, r, IF job[l][r].differs THEN 1 ELSE 0)
  /\ UNCHANGED <<place, ids, comm, odd, second, dir>>

\* Work that touches nothing shared: the task, the model, the samples, the launch
\* manifest, the verifier, the health rules, the evaluation.
Private == {"commit", "clock", "task", "model", "samples", "launch", "verifier", "health",
            "evaluate"}

Work(l, r) ==
  /\ \E work \in Private : Doing(l, r, work)
  /\ \/ Succeeds /\ Says(l, r, 0)
     \/ Breaks /\ Says(l, r, 1)
  /\ UNCHANGED <<place, ids, comm, odd, second, dir>>

\* RunDir::create: a launch record or a stream refuses the directory.
LookAtDir(l, r) ==
  LET d == dir[RunDir(l, r)]
  IN  /\ Doing(l, r, "rundir")
      /\ \/ d.launch # None /\ Succeeds /\ Says(l, r, 1)
         \/ d.launch = None /\ Succeeds /\ job' = [job EXCEPT ![l][r].doing = "prompt"]
         \/ Breaks /\ Says(l, r, 1)
      /\ UNCHANGED <<place, ids, comm, odd, second, dir>>

\* OpenOptions::create_new: the file is written only where there is none.
WriteNew(l, r, file, then) ==
  LET d == RunDir(l, r)
      written == [dir EXCEPT ![d][file] = l]
  IN  /\ \/ dir[d][file] # None /\ Succeeds /\ Says(l, r, 1) /\ UNCHANGED dir
         \/ /\ dir[d][file] = None /\ Succeeds /\ dir' = written
            /\ job' = [job EXCEPT ![l][r].doing = then]
         \/ /\ dir[d][file] = None /\ Breaks /\ Says(l, r, 1)
            /\ dir' \in {dir, written}
      /\ UNCHANGED <<place, ids, comm, odd, second>>

\* Mutant: the prompt is written over one that is there.
WritePromptAnyway(l, r) ==
  /\ job[l][r].doing = "prompt" /\ Succeeds
  /\ dir' = [dir EXCEPT ![RunDir(l, r)].prompt = l]
  /\ job' = [job EXCEPT ![l][r].doing = "record"]
  /\ UNCHANGED <<place, ids, comm, odd, second>>

\* write_immutable_launch: the prompt first, then launch.json, and after it the
\* trainer with its streams.
WritePrompt(l, r) == job[l][r].doing = "prompt" /\ WriteNew(l, r, "prompt", "record")
WriteLaunch(l, r) == job[l][r].doing = "record" /\ WriteNew(l, r, "launch", "call")

\* Trainer::train appends metrics and signed candidates.
Train(l, r) ==
  LET d == RunDir(l, r)
  IN  /\ Doing(l, r, "train")
      /\ \/ Succeeds /\ Says(l, r, 0)
         \/ Breaks /\ Says(l, r, 1)
      /\ dir' = [dir EXCEPT ![d].rows = @ \cup {l}]
      /\ UNCHANGED <<place, ids, comm, odd, second>>

\* Rank 0 writes the report, where there is none.
WriteReport(l, r) ==
  /\ Doing(l, r, "report")
  /\ \/ r # 0 /\ Succeeds /\ Says(l, r, 0) /\ UNCHANGED <<place, ids, comm, odd, second, dir>>
     \/ r = 0 /\ WriteNew(l, r, "report", "call")

\* load_authenticated_candidates: rows of another launch are refused.
LoadCandidates(l, r) ==
  /\ Doing(l, r, "candidates")
  /\ \/ Succeeds /\ Says(l, r, IF dir[RunDir(l, r)].rows \subseteq {l} THEN 0 ELSE 1)
     \/ Breaks /\ Says(l, r, 1)
  /\ UNCHANGED <<place, ids, comm, odd, second, dir>>

(***************************************************************************)
(* The reductions.                                                         *)
(***************************************************************************)
Sum(l) == MapThenSumSet(LAMBDA r : job[l][r].said, Ranks(l))

\* Without held-out samples there is nothing to evaluate and no report.
After(l, i) == IF Program[i] = Try("health") /\ l \notin HeldOut THEN Len(Program) ELSE i + 1

Onward(l, j) ==
  IF j.step < Len(Program) THEN [j EXCEPT !.step = After(l, @), !.doing = "work"]
  ELSE [j EXCEPT !.doing = "end", !.end = "completed"]

\* What a rank makes of the sum: coordinate_engine_result after work and
\* comparison, a comparison with its own bytes after the exchange.
Heard(l, j, sum) ==
  IF Program[j.step][1] = "share"
  THEN [Onward(l, j) EXCEPT !.differs = sum # World[l] * j.said, !.said = 0]
  ELSE IF sum > 0 THEN Failed([j EXCEPT !.differs = FALSE])
       ELSE [Onward(l, j) EXCEPT !.differs = FALSE, !.said = 0]

\* All ranks of a launch are in a call, be it the same or not.
Reduce(l) ==
  /\ comm[l] = "live" /\ \A r \in Ranks(l) : job[l][r].doing = "call"
  /\ job' = [job EXCEPT ![l] = [r \in Ranks(l) |-> Heard(l, job[l][r], Sum(l))]]
  /\ second' = [second EXCEPT ![l] =
       IF Program[job[l][0].step] = Share("clock") THEN Sum(l) ELSE @]
  /\ UNCHANGED <<place, ids, comm, odd, dir, failures>>

\* RunStop::Preempted: all ranks have stopped at one step, with a checkpoint, and the
\* launch ends here.
Preempted(l) ==
  /\ comm[l] = "live" /\ Sum(l) = 0
  /\ \A r \in Ranks(l) : job[l][r].doing = "call" /\ Program[job[l][r].step] = Try("train")
  /\ job' = [job EXCEPT ![l] = [r \in Ranks(l) |->
       [job[l][r] EXCEPT !.doing = "end", !.end = "preempted"]]]
  /\ UNCHANGED <<place, ids, comm, odd, second, dir, failures>>

\* A peer is gone, or the communicator: the call returns an error.
CommError(l, r) ==
  /\ job[l][r].doing = "call"
  /\ comm[l] = "dead" \/ \E q \in Ranks(l) : job[l][q].doing = "end"
  /\ Fails(l, r)
  /\ comm' = [comm EXCEPT ![l] = "dead"]
  /\ UNCHANGED <<place, ids, odd, second, dir, failures>>

CommDies(l) ==
  /\ comm[l] = "live" /\ \E r \in Ranks(l) : job[l][r].doing \notin {"boot", "publish", "init", "end"}
  /\ Breaks /\ comm' = [comm EXCEPT ![l] = "dead"]
  /\ UNCHANGED <<place, ids, job, odd, second, dir>>

RankDies(l, r) ==
  /\ job[l][r].doing # "end" /\ MayStart(l) /\ Breaks
  /\ job' = [job EXCEPT ![l][r] = [Failed(@) EXCEPT !.end = "dead"]]
  /\ UNCHANGED <<place, ids, comm, odd, second, dir>>

RankStep(l, r) ==
  \/ ReadId(l, r) \/ InitFails(l, r)
  \/ Contribute(l, r) \/ Compare(l, r) \/ Work(l, r)
  \/ LookAtDir(l, r) \/ WritePrompt(l, r) \/ WriteLaunch(l, r)
  \/ Train(l, r) \/ WriteReport(l, r) \/ LoadCandidates(l, r)
  \/ CommError(l, r) \/ RankDies(l, r)

LaunchNext ==
  \E l \in Launches :
    \/ ClearPlace(l) \/ PublishId(l) \/ CommInit(l) \/ RemoveId(l) \/ Cancelled(l)
    \/ Reduce(l) \/ Preempted(l) \/ CommDies(l) \/ \E r \in Ranks(l) : RankStep(l, r)

AllReturned == \A l \in Launches : \A r \in Ranks(l) : job[l][r].doing = "end"

(***************************************************************************)
(* Properties.                                                             *)
(***************************************************************************)
\* The ranks of a launch stay in one reduction and come to one verdict, as long
\* as no process and no communicator dies: none waits for one that has returned,
\* and none passes a comparison of what the ranks do not have in common, not
\* even the rank whose own value happens to be the mean.
Lockstep == \A l \in Launches :
  comm[l] = "live" /\ (\A r \in Ranks(l) : job[l][r].end # "dead") =>
    \A q, r \in Ranks(l) :
      /\ job[l][q].doing = "call" /\ job[l][r].doing = "call" => job[l][q].step = job[l][r].step
      /\ job[l][q].doing = "call" => job[l][r].doing # "end"
      /\ job[l][q].end \in {"completed", "preempted"} => job[l][r].end = job[l][q].end
      /\ job[l][q].end = "completed" => odd[l] = None

\* A launch that has formed its communicator leaves no id to a later one: whoever
\* reads the id of another launch reads that of one whose rank 0 never came to
\* its work, or could not remove the file.
StaleIdsAreStranded == \A l \in Launches : \A r \in Ranks(l) :
  LET k == job[l][r].id
  IN  k \notin {l, None} =>
        job[k][0].litters \/ (job[k][0].doing = "end" /\ job[k][0].step = 1)

\* What lies in a run directory belongs to one launch, and a report stands for a
\* launch that has its record and its rows in the directory of every rank,
\* whoever else was started in the same second.
EvidenceIsBound ==
  /\ \A d \in DOMAIN dir :
       /\ dir[d].rows \subseteq {dir[d].launch}
       /\ dir[d].launch # None => dir[d].prompt = dir[d].launch
  /\ \A l \in Launches, d \in DOMAIN dir : dir[d].report = l =>
       /\ d = RunDir(l, 0) /\ odd[l] = None
       /\ \A r \in Ranks(l) : dir[RunDir(l, r)].launch = l /\ dir[RunDir(l, r)].rows = {l}
  /\ \A l \in Launches : \A r \in Ranks(l) :
       job[l][r].end = "completed" /\ l \in HeldOut => dir[RunDir(l, 0)].report = l
=============================================================================
