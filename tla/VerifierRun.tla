------------------------------ MODULE VerifierRun ------------------------------
(***************************************************************************)
(* One verification after another under supervision: the staged executor   *)
(* (src/crates/ferrl/src/verifier_executor.rs) gives each request of a     *)
(* client a private directory, runs the verifier in it through             *)
(* supervise_with_protected_output (src/crates/ferrl/src/sandbox.rs),      *)
(* removes the directory and answers.  Requests are served by threads of   *)
(* one process, side by side; that process may die and be started again.   *)
(*                                                                         *)
(* The program under test is not trusted: once it runs it may fork, fill   *)
(* its scratch directory, exit at any time or never.  What a request runs  *)
(* is a process group: its leader, and the rest of it as one.  SIGKILL     *)
(* takes effect at once on what a process may start to do, but a process   *)
(* in a system call ends only when the call does: "dying".                 *)
(*                                                                         *)
(* Not modelled: the bytes of stdout and of the protected channel, whose   *)
(* drains end as that of stderr does, and the checks of paths, seals and   *)
(* identities, which fail or not before anything runs.                     *)
(***************************************************************************)
EXTENDS Naturals, FiniteSets

CONSTANTS Requests,    \* requests of clients, each sent once
          Leftovers,   \* request directories that an earlier service has left
          MaxFaults    \* bound: system calls that fail, and crashes of the service

ASSUME VerifierAssumption ==
  /\ IsFiniteSet(Requests) /\ Leftovers \subseteq Nat /\ IsFiniteSet(Leftovers)
  /\ MaxFaults \in Nat

VARIABLES
  run,        \* run[q]: all that belongs to request q, see Idle
  sequence,   \* REQUEST_SEQUENCE of the service
  taken,      \* the request directories that exist
  faults      \* a counter that the bound caps

vars == <<run, sequence, taken, faults>>

Idle ==
  [client  |-> "idle",     \* "idle", "waiting", or what its call has returned
   thread  |-> "none",     \* the step the thread of the service is in
   dir     |-> {},         \* the request directory, if it has one
   leader  |-> "none",     \* the process that was spawned
   rest    |-> "none",     \* the other processes of its group
   entered |-> FALSE,      \* is the entry marker written?
   over    |-> FALSE,      \* does the scratch directory exceed its limit?
   late    |-> FALSE,      \* is the wall-clock budget spent?
   alarm   |-> FALSE,      \* has the scratch monitor reported?
   spent   |-> FALSE,      \* was over when the supervisor saw the leader's exit
   status  |-> "none",     \* RunStatus
   result  |-> "none"]     \* what will be answered

Init ==
  /\ run = [q \in Requests |-> Idle]
  /\ sequence = 0 /\ taken = Leftovers
  /\ faults = 0

At(q, step) == run[q].thread = step
Works == UNCHANGED faults
Fails == faults < MaxFaults /\ faults' = faults + 1

Runs(q) == run[q].leader \in {"launching", "running"}
\* Somebody has the write end of the stderr pipe.
HoldsPipe(q) == Runs(q) \/ run[q].leader = "dying" \/ run[q].rest \in {"live", "dying"}

\* kill_process_group: every process of the group that still runs.
Killed(q) ==
  [run EXCEPT ![q].leader = IF Runs(q) THEN "dying" ELSE @,
              ![q].rest = IF @ = "live" THEN "dying" ELSE @]

(***************************************************************************)
(* The client.                                                             *)
(***************************************************************************)
\* run_client sends its request, and a thread of the service takes it.
Send(q) ==
  /\ run[q].client = "idle"
  /\ run' = [run EXCEPT ![q].client = "waiting", ![q].thread = "root"]
  /\ UNCHANGED <<sequence, taken, faults>>

\* Its read deadline passes: staging and cleanup have no bound of their own.  This
\* may happen at any time; it is told apart only before the answer is written.
GiveUp(q) ==
  /\ run[q].client = "waiting" /\ At(q, "answer")
  /\ run' = [run EXCEPT ![q].client = "executor"]
  /\ UNCHANGED <<sequence, taken, faults>>

(***************************************************************************)
(* The request: execute_request_inner_at.                                  *)
(***************************************************************************)
\* Mutant: a directory that is there already will do.
CreateRootAnyway(q) ==
  /\ At(q, "root") /\ Works
  /\ sequence' = sequence + 1
  /\ taken' = taken \cup {sequence}
  /\ run' = [run EXCEPT ![q].dir = {sequence}, ![q].thread = "stage"]

\* create_request_root tries the next number while the directory exists.
CreateRoot(q) ==
  /\ At(q, "root")
  /\ sequence' = sequence + 1
  /\ \/ /\ sequence \in taken /\ Works
        /\ UNCHANGED <<run, taken>>
     \/ /\ sequence \notin taken /\ Works
        /\ taken' = taken \cup {sequence}
        /\ run' = [run EXCEPT ![q].dir = {sequence}, ![q].thread = "stage"]
     \/ /\ sequence \notin taken /\ Fails     \* mkdirat, or what follows it
        /\ taken' \in {taken, taken \cup {sequence}}
        /\ run' = [run EXCEPT ![q].result = "executor", ![q].thread = "answer"]

\* Assets are copied and authenticated, scratch directories made, the protected
\* listener bound.
Stage(q) ==
  /\ At(q, "stage")
  /\ \/ Works /\ run' = [run EXCEPT ![q].thread = "spawn"]
     \/ Fails /\ run' = [run EXCEPT ![q].result = "executor", ![q].thread = "cleanup"]
  /\ UNCHANGED <<sequence, taken>>

\* Mutant: an outcome is an outcome.
CleanupQuietly(q) ==
  /\ At(q, "cleanup")
  /\ \/ /\ Works
        /\ taken' = taken \ run[q].dir
        /\ run' = [run EXCEPT ![q].dir = {}, ![q].thread = "answer"]
     \/ /\ Fails
        /\ run' = [run EXCEPT ![q].thread = "answer"]
        /\ UNCHANGED taken
  /\ UNCHANGED sequence

\* remove_request_tree_at, whatever happened before; its failure is the answer.
\* A process that is still dying may put back an entry behind its back.
Cleanup(q) ==
  /\ At(q, "cleanup")
  /\ \/ /\ Works
        /\ taken' = taken \ run[q].dir
        /\ run' = [run EXCEPT ![q].dir = {}, ![q].thread = "answer"]
     \/ /\ IF run[q].rest = "dying" THEN Works ELSE Fails
        /\ run' = [run EXCEPT ![q].result = "executor", ![q].thread = "answer"]
        /\ UNCHANGED taken
  /\ UNCHANGED sequence

\* write_response, to a client that may have gone.
Answer(q) ==
  /\ At(q, "answer")
  /\ run' = [run EXCEPT ![q].thread = "gone",
                        ![q].client = IF @ = "waiting" THEN run[q].result ELSE @]
  /\ UNCHANGED <<sequence, taken, faults>>

(***************************************************************************)
(* The supervisor.                                                         *)
(***************************************************************************)
Spawn(q) ==
  /\ At(q, "spawn")
  /\ \/ Works /\ run' = [run EXCEPT ![q].leader = "launching", ![q].thread = "poll"]
     \/ Fails /\ run' = [run EXCEPT ![q].result = "executor", ![q].thread = "cleanup"]
  /\ UNCHANGED <<sequence, taken>>

\* An error of try_wait or wait unwinds through the guard, which kills the group.
Unwind(q) ==
  /\ Fails
  /\ run' = [Killed(q) EXCEPT ![q].result = "executor", ![q].thread = "drop"]

\* Mutant: the group is killed only when a limit is exceeded.
TryWaitOnly(q) ==
  /\ At(q, "poll")
  /\ \/ /\ run[q].leader = "zombie" /\ Works
        /\ run' = [run EXCEPT ![q].leader = "reaped", ![q].spent = run[q].over,
                              ![q].thread = "scan"]
     \/ /\ run[q].leader # "zombie" /\ Works
        /\ run' = [run EXCEPT ![q].thread = "limits"]
     \/ Unwind(q)
  /\ UNCHANGED <<sequence, taken>>

\* A leader that has ended is reaped, and what it leaves is killed.
TryWait(q) ==
  /\ At(q, "poll")
  /\ \/ /\ run[q].leader = "zombie" /\ Works
        /\ run' = [Killed(q) EXCEPT ![q].leader = "reaped", ![q].spent = run[q].over,
                                    ![q].thread = "scan"]
     \/ /\ run[q].leader # "zombie" /\ Works
        /\ run' = [run EXCEPT ![q].thread = "limits"]
     \/ Unwind(q)
  /\ UNCHANGED <<sequence, taken>>

\* Mutant: the monitor is asked once more instead.
LastAlarm(q) ==
  /\ At(q, "scan") /\ Works
  /\ run' = [run EXCEPT ![q].status = IF run[q].alarm THEN "scratch_exceeded" ELSE "exited",
                        ![q].thread = "collect"]
  /\ UNCHANGED <<sequence, taken>>

\* The scan after the exit; one that does not end in time counts as exceeded.
LastScan(q) ==
  /\ At(q, "scan")
  /\ \/ /\ Works
        /\ run' = [run EXCEPT
             ![q].status = IF run[q].over THEN "scratch_exceeded" ELSE "exited",
             ![q].thread = "collect"]
     \/ /\ Fails
        /\ run' = [run EXCEPT ![q].status = "scratch_exceeded", ![q].thread = "collect"]
  /\ UNCHANGED <<sequence, taken>>

\* The leader had not ended: deadline and monitor, and the next poll.  It may
\* have ended by now; what a kill finds is reported by the limit.
Limits(q) ==
  /\ At(q, "limits") /\ Works
  /\ \/ /\ run[q].late
        /\ run' = [Killed(q) EXCEPT ![q].status = "timed_out", ![q].thread = "wait"]
     \/ /\ ~run[q].late /\ run[q].alarm
        /\ run' = [Killed(q) EXCEPT ![q].status = "scratch_exceeded", ![q].thread = "wait"]
     \/ /\ ~run[q].late /\ ~run[q].alarm
        /\ run' = [run EXCEPT ![q].thread = "poll"]
  /\ UNCHANGED <<sequence, taken>>

\* terminate_and_wait: the leader, but nobody else of the group, is waited for.
Wait(q) ==
  /\ At(q, "wait")
  /\ \/ /\ run[q].leader = "zombie" /\ Works
        /\ run' = [run EXCEPT ![q].leader = "reaped", ![q].thread = "collect"]
     \/ Unwind(q)
  /\ UNCHANGED <<sequence, taken>>

\* The supervisor returns, and its locals are gone.
Returns(q, leader, result) ==
  /\ run' = [run EXCEPT ![q] =
       [@ EXCEPT !.leader = leader, !.result = result, !.thread = "cleanup", !.status = "none",
                 !.over = FALSE, !.late = FALSE, !.alarm = FALSE, !.spent = FALSE]]
  /\ UNCHANGED <<sequence, taken, faults>>

Drop(q) == At(q, "drop") /\ run[q].leader = "zombie" /\ Returns(q, "reaped", "executor")

Finish(q, result) == Returns(q, run[q].leader, result)

\* Mutant: the drain is joined.
CollectAll(q) ==
  /\ At(q, "collect") /\ ~HoldsPipe(q)
  /\ Finish(q, IF run[q].entered THEN "outcome" ELSE "infrastructure")

\* collect_output and consume_entry_marker.  When DRAIN_GRACE is over and
\* somebody still holds the pipe, nothing of it is kept, not even the marker.
Collect(q) ==
  /\ At(q, "collect")
  /\ \/ /\ ~HoldsPipe(q)
        /\ Finish(q, IF run[q].entered THEN "outcome" ELSE "infrastructure")
     \/ HoldsPipe(q) /\ Finish(q, "infrastructure")

(***************************************************************************)
(* The processes, the clock, and the monitor.                              *)
(***************************************************************************)
\* The shell in the image writes the marker and becomes the verifier.
Enter(q) ==
  /\ run[q].leader = "launching"
  /\ run' = [run EXCEPT ![q].leader = "running", ![q].entered = TRUE]
Exit(q) == Runs(q) /\ run' = [run EXCEPT ![q].leader = "zombie"]
Fork(q) == Runs(q) /\ run[q].rest = "none" /\ run' = [run EXCEPT ![q].rest = "live"]
RestExits(q) == run[q].rest = "live" /\ run' = [run EXCEPT ![q].rest = "none"]
Write(q) ==
  /\ run[q].leader = "running" \/ run[q].rest = "live"
  /\ run' = [run EXCEPT ![q].over = ~@]
Program(q) ==
  /\ ~At(q, "crashed")       \* what a crash has orphaned is not followed
  /\ Enter(q) \/ Exit(q) \/ Fork(q) \/ RestExits(q) \/ Write(q)
  /\ UNCHANGED <<sequence, taken, faults>>

LeaderDies(q) ==
  /\ run[q].leader = "dying"
  /\ run' = [run EXCEPT ![q].leader = "zombie"]
  /\ UNCHANGED <<sequence, taken, faults>>
RestDies(q) ==
  /\ run[q].rest = "dying"
  /\ run' = [run EXCEPT ![q].rest = "none"]
  /\ UNCHANGED <<sequence, taken, faults>>

Supervised(q) == run[q].thread \in {"poll", "limits"}

Clock(q) ==
  /\ Supervised(q) /\ ~run[q].late
  /\ run' = [run EXCEPT ![q].late = TRUE]
  /\ UNCHANGED <<sequence, taken, faults>>

\* ScratchMonitor, which also gives up on a tree that it cannot scan in time.
Monitor(q) ==
  /\ Supervised(q) /\ ~run[q].alarm
  /\ IF run[q].over THEN Works ELSE Fails
  /\ run' = [run EXCEPT ![q].alarm = TRUE]
  /\ UNCHANGED <<sequence, taken>>

(***************************************************************************)
(* Crashes.                                                                *)
(***************************************************************************)
\* The service dies, by a failed accept or otherwise, and is started again, at
\* worst under its old process id.  Its children and directories stay.
Crash ==
  /\ Fails
  /\ run' = [q \in Requests |->
       IF run[q].thread \in {"none", "gone"} THEN run[q]
       ELSE [run[q] EXCEPT !.thread = "crashed",
                           !.client = IF @ = "waiting" THEN "executor" ELSE @]]
  /\ sequence' = 0
  /\ UNCHANGED taken

Serve(q) ==
  \/ CreateRoot(q) \/ Stage(q) \/ Spawn(q) \/ TryWait(q) \/ Limits(q) \/ LastScan(q)
  \/ Wait(q) \/ Drop(q) \/ Collect(q) \/ Cleanup(q) \/ Answer(q)

Finished == (\A q \in Requests : run[q].thread \in {"gone", "crashed"}) /\ UNCHANGED vars

Next ==
  \/ \E q \in Requests :
       \/ Send(q) \/ GiveUp(q) \/ Serve(q)
       \/ Program(q) \/ LeaderDies(q) \/ RestDies(q) \/ Clock(q) \/ Monitor(q)
  \/ Crash \/ Finished

\* Threads run and time passes; a leader that was killed ends.  Nothing is
\* assumed of the program, of the rest of its group, nor of the monitor.
Fairness == \A q \in Requests :
  WF_vars(Serve(q)) /\ WF_vars(Clock(q)) /\ WF_vars(LeaderDies(q))

Spec == Init /\ [][Next]_vars
FairSpec == Spec /\ Fairness

(***************************************************************************)
(* Properties.                                                             *)
(***************************************************************************)
\* Two requests never use one directory, and nobody removes that of another:
\* neither beside each other, nor after a crash that has left directories and
\* processes of former requests behind.
DirectoriesStayApart ==
  /\ \A q \in Requests : run[q].dir \subseteq taken \ Leftovers
  /\ \A p, q \in Requests : p # q => run[p].dir \cap run[q].dir = {}

\* Past the supervisor no process of a request goes on, however the run ended,
\* and when a client has an outcome its directory is gone as well.
NothingIsLeft == \A q \in Requests :
  /\ run[q].thread \in {"collect", "cleanup", "answer", "gone"} =>
       run[q].leader \in {"none", "reaped"} /\ run[q].rest # "live"
  /\ run[q].client = "outcome" => run[q].dir = {}

\* A run that ends with its scratch directory over the limit is not reported as
\* one that exited, even if it ends before the monitor has seen it.
LimitHolds == \A q \in Requests :
  At(q, "collect") /\ run[q].spent => run[q].status # "exited"

\* Every client gets an answer and every thread ends, whatever the program does
\* and even if some process of its group never dies.
EveryRequestEnds == \A q \in Requests :
  run[q].client = "waiting" ~>
    run[q].client # "waiting" /\ run[q].thread \in {"gone", "crashed"}

\* The comment at src/crates/ferrl/src/sandbox.rs:813: the absence of the entry
\* marker proves that the verifier was not entered.
InfrastructureMeansUnentered == \A q \in Requests :
  run[q].result = "infrastructure" => ~run[q].entered
=============================================================================
