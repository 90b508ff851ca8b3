--------------------------- MODULE VerifierRunProofs ---------------------------
(***************************************************************************)
(* Three proofs about the service, for every number of requests side by    *)
(* side, of directories that it finds, and of failures and crashes:        *)
(* requests never meet in one directory, no process of a request outlives  *)
(* its supervision, and no run that ends over its limit passes for one     *)
(* that exited.                                                            *)
(*                                                                         *)
(* Directories need to be looked at all together (Apart).  The rest is     *)
(* about one request at a time (Tidy): what is left of its group at each   *)
(* step of its thread, and what has been learned of it by then.            *)
(***************************************************************************)
EXTENDS VerifierRun, TLAPS

Threads == {"none", "root", "stage", "spawn", "poll", "limits", "wait", "drop", "scan",
            "collect", "cleanup", "answer", "gone", "crashed"}
Results == {"none", "executor", "infrastructure", "outcome"}
Request == [client  : Results \cup {"idle", "waiting"},
          thread  : Threads,
          dir     : SUBSET Nat,
          leader  : {"none", "launching", "running", "dying", "zombie", "reaped"},
          rest    : {"none", "live", "dying"},
          entered : BOOLEAN,
          over    : BOOLEAN,
          late    : BOOLEAN,
          alarm   : BOOLEAN,
          spent   : BOOLEAN,
          status  : {"none", "exited", "timed_out", "scratch_exceeded"},
          result  : Results]

TypeOK ==
  /\ run \in [Requests -> Request]
  /\ sequence \in Nat /\ taken \subseteq Nat

\* A directory belongs to one request, exists, and is none that was there before.
Apart ==
  /\ Leftovers \subseteq taken
  /\ DirectoriesStayApart

\* What is left of the group of a request, by the step of its thread.
Group(x) ==
  /\ x.thread \in {"none", "root", "stage", "spawn"} => x.leader = "none" /\ x.rest = "none"
  /\ x.thread \in {"poll", "limits"} => x.leader \in {"launching", "running", "zombie"}
  /\ x.thread \in {"wait", "drop"} => x.leader \in {"dying", "zombie"} /\ x.rest # "live"
  /\ x.thread \in {"scan", "collect", "cleanup", "answer", "gone"} =>
       x.leader \in {"none", "reaped"} /\ x.rest # "live"

\* An outcome is found by the supervisor, and given to the client without a directory.
Outcome(x) ==
  /\ x.result = "outcome" => x.thread \in {"cleanup", "answer", "gone", "crashed"}
  /\ x.result = "outcome" /\ x.thread \in {"answer", "gone"} => x.dir = {}
  /\ x.client = "outcome" => x.thread = "gone" /\ x.dir = {}

\* Nobody writes any more when the last scan looks at what the exit has left.
Limit(x) ==
  /\ x.spent => x.thread \in {"scan", "collect", "crashed"}
  /\ x.thread = "scan" /\ x.spent => x.over
  /\ x.thread = "collect" /\ x.spent => x.status # "exited"

Tidy(x) == Group(x) /\ Outcome(x) /\ Limit(x)
IInv == TypeOK /\ Apart /\ \A q \in Requests : Tidy(run[q])

USE VerifierAssumption

LEMMA InitIInv == ASSUME Init PROVE IInv
<1>1. TypeOK
  BY DEF Init, TypeOK, Idle, Request, Threads, Results
<1>2. Apart
  BY DEF Init, Apart, DirectoriesStayApart, Idle
<1>3. \A q \in Requests : Tidy(run[q])
  BY DEF Init, Idle, Tidy, Group, Outcome, Limit
<1> QED BY <1>1, <1>2, <1>3 DEF IInv

(***************************************************************************)
(* A step of one request.                                                  *)
(***************************************************************************)
\* It leaves the others alone.
Only(q) ==
  /\ run' \in [Requests -> Request] /\ Tidy(run'[q])
  /\ \A p \in Requests \ {q} : run'[p] = run[p]

\* A step that keeps the directory of its request.
SameDirectory(q) ==
  /\ Only(q) /\ run'[q].dir = run[q].dir
  /\ sequence' \in Nat /\ taken' \subseteq Nat /\ taken \subseteq taken'

LEMMA SameDirectoryKeepsIInv ==
  ASSUME IInv, NEW q \in Requests, SameDirectory(q) PROVE IInv'
<1>1. TypeOK' /\ \A p \in Requests : Tidy(run'[p])
  BY DEF IInv, TypeOK, SameDirectory, Only
<1>2. \A p \in Requests : run'[p].dir = run[p].dir
  BY DEF SameDirectory, Only
<1>3. Apart'
  BY <1>2 DEF IInv, Apart, DirectoriesStayApart, SameDirectory
<1> QED BY <1>1, <1>3 DEF IInv

\* What the invariant says of one request.
LEMMA OneRequest ==
  ASSUME IInv, NEW q \in Requests
  PROVE  /\ run[q] \in Request /\ run \in [Requests -> Request] /\ Tidy(run[q])
         /\ sequence \in Nat /\ taken \subseteq Nat
  BY DEF IInv, TypeOK

\* A flag of a request is set.
LEMMA Flags ==
  ASSUME NEW x \in Request, NEW b \in BOOLEAN
  PROVE  /\ [x EXCEPT !.over = b] \in Request /\ [x EXCEPT !.late = b] \in Request
         /\ [x EXCEPT !.alarm = b] \in Request /\ [x EXCEPT !.spent = b] \in Request
         /\ [x EXCEPT !.entered = b] \in Request
  BY DEF Request

LEMMA Places ==
  /\ {"poll", "limits", "wait", "drop", "scan", "collect", "cleanup", "answer", "crashed", "gone"}
       \subseteq Threads
  /\ "executor" \in Results
BY DEF Threads, Results

\* The thread of a request goes on.
LEMMA Advances ==
  ASSUME NEW x \in Request, NEW t \in Threads
  PROVE  /\ \A r \in Results : [x EXCEPT !.result = r, !.thread = t] \in Request
         /\ \A s \in {"timed_out", "scratch_exceeded"} :
              [x EXCEPT !.status = s, !.thread = t] \in Request
         /\ [x EXCEPT !.leader = "reaped", !.thread = t] \in Request
         /\ \A b \in BOOLEAN : [x EXCEPT !.leader = "reaped", !.spent = b, !.thread = t] =
              [[x EXCEPT !.spent = b] EXCEPT !.leader = "reaped", !.thread = t]
<1>1. \A r \in Results : [x EXCEPT !.result = r, !.thread = t] \in Request
  BY DEF Request
<1>2. \A s \in {"timed_out", "scratch_exceeded"} : [x EXCEPT !.status = s, !.thread = t] \in Request
  BY DEF Request
<1>3. [x EXCEPT !.leader = "reaped", !.thread = t] \in Request
  BY DEF Request
<1>4. \A b \in BOOLEAN : [x EXCEPT !.leader = "reaped", !.spent = b, !.thread = t] =
        [[x EXCEPT !.spent = b] EXCEPT !.leader = "reaped", !.thread = t]
  BY DEF Request
<1> QED BY <1>1, <1>2, <1>3, <1>4

\* The group of a request is killed.
LEMMA KilledGroup ==
  ASSUME IInv, NEW q \in Requests
  PROVE  /\ Killed(q) \in [Requests -> Request]
         /\ \A p \in Requests \ {q} : Killed(q)[p] = run[p]
         /\ Killed(q)[q] =
              [run[q] EXCEPT !.leader = IF Runs(q) THEN "dying" ELSE run[q].leader,
                             !.rest = IF run[q].rest = "live" THEN "dying" ELSE run[q].rest]
<1>1. run \in [Requests -> Request] /\ run[q] \in Request
  BY OneRequest
<1>2. [run[q] EXCEPT !.leader = IF Runs(q) THEN "dying" ELSE run[q].leader,
                     !.rest = IF run[q].rest = "live" THEN "dying" ELSE run[q].rest] \in Request
  BY <1>1 DEF Request
<1> QED BY <1>1, <1>2 DEF Killed

LEMMA ProgramKeepsIInv == ASSUME IInv, NEW q \in Requests, Program(q) PROVE IInv'
<1>0. run[q] \in Request
  BY OneRequest
<1>enters. [run[q] EXCEPT !.leader = "running", !.entered = TRUE] \in Request
  BY <1>0 DEF Request
<1>grows. [run[q] EXCEPT !.over = ~@] \in Request
  <2>1. (~run[q].over) \in BOOLEAN
    OBVIOUS
  <2> QED BY <1>0, <2>1, Flags
<1> USE OneRequest DEF SameDirectory, Only, Request, Runs
<1> USE DEF Tidy, Group, Outcome, Limit
<1>1. sequence' \in Nat /\ taken' \subseteq Nat /\ taken \subseteq taken' /\ ~At(q, "crashed")
  BY DEF Program
<1>2. CASE Enter(q)
  <2>2. run' = [run EXCEPT ![q] = [run[q] EXCEPT !.leader = "running", !.entered = TRUE]]
    BY <1>2 DEF Enter
  <2>3. run' \in [Requests -> Request]
    BY <1>enters, <2>2
  <2>4. run'[q].dir = run[q].dir /\ Tidy(run'[q]) /\ \A p \in Requests \ {q} : run'[p] = run[p]
    BY <1>1, <1>2 DEF Enter, At
  <2> QED BY <1>1, <2>3, <2>4, SameDirectoryKeepsIInv
<1>3. CASE Exit(q)
  BY <1>1, <1>3, SameDirectoryKeepsIInv DEF Exit
<1>4. CASE Fork(q)
  BY <1>1, <1>4, SameDirectoryKeepsIInv DEF Fork
<1>5. CASE RestExits(q)
  BY <1>1, <1>5, SameDirectoryKeepsIInv DEF RestExits
<1>6. CASE Write(q)
  <2>3. run' = [run EXCEPT ![q] = [run[q] EXCEPT !.over = ~@]]
    BY <1>6 DEF Write
  <2>4. run' \in [Requests -> Request]
    BY <1>grows, <2>3
  <2>5. run'[q].dir = run[q].dir /\ Tidy(run'[q]) /\ \A p \in Requests \ {q} : run'[p] = run[p]
    BY <1>1, <1>6 DEF Write, At
  <2> QED BY <1>1, <2>4, <2>5, SameDirectoryKeepsIInv
<1> QED BY <1>2, <1>3, <1>4, <1>5, <1>6 DEF Program

\* The client, and processes that end.
LEMMA OutsideKeepsIInv ==
  ASSUME IInv, NEW q \in Requests,
         Send(q) \/ GiveUp(q) \/ LeaderDies(q) \/ RestDies(q)
  PROVE  IInv'
<1> USE OneRequest DEF SameDirectory, Only, Request, Threads, Results, Runs
<1> USE DEF Tidy, Group, Outcome, Limit, At, Works, Fails
<1>1. CASE Send(q)
  <2>1. run' \in [Requests -> Request] /\ \A p \in Requests \ {q} : run'[p] = run[p]
    BY <1>1 DEF Send
  <2>2. run'[q].dir = run[q].dir /\ Tidy(run'[q])
    BY <1>1 DEF Send
  <2> QED BY <1>1, <2>1, <2>2, SameDirectoryKeepsIInv DEF Send
<1>2. CASE GiveUp(q)
  BY <1>2, SameDirectoryKeepsIInv DEF GiveUp
<1>3. CASE LeaderDies(q)
  BY <1>3, SameDirectoryKeepsIInv DEF LeaderDies
<1>4. CASE RestDies(q)
  BY <1>4, SameDirectoryKeepsIInv DEF RestDies
<1> QED BY <1>1, <1>2, <1>3, <1>4

LEMMA AlarmsKeepIInv ==
  ASSUME IInv, NEW q \in Requests, Clock(q) \/ Monitor(q)
  PROVE  IInv'
<1>1. /\ run[q] \in Request /\ run \in [Requests -> Request] /\ Tidy(run[q])
      /\ sequence' \in Nat /\ taken' \subseteq Nat /\ taken \subseteq taken'
  BY OneRequest DEF Clock, Monitor
<1>2. PICK x \in {[run[q] EXCEPT !.late = TRUE], [run[q] EXCEPT !.alarm = TRUE]} :
        run' = [run EXCEPT ![q] = x]
  BY <1>1 DEF Clock, Monitor
<1>3. x \in Request
  BY <1>1, <1>2, Flags
<1>4. x.dir = run[q].dir /\ Tidy(x)
  BY <1>1, <1>2 DEF Request, Tidy, Group, Outcome, Limit
<1> QED BY <1>1, <1>2, <1>3, <1>4, SameDirectoryKeepsIInv DEF SameDirectory, Only

\* The supervisor and its thread.
LEMMA ThreadKeepsIInv ==
  ASSUME IInv, NEW q \in Requests,
         Stage(q) \/ Spawn(q) \/ LastScan(q) \/ Wait(q) \/ Answer(q)
  PROVE  IInv'
<1>5. CASE Answer(q)
  <2>1. run[q] \in Request /\ run \in [Requests -> Request] /\ Tidy(run[q])
    BY OneRequest
  <2> DEFINE y == [run[q] EXCEPT !.client = IF @ = "waiting" THEN run[q].result ELSE @]
             x == [y EXCEPT !.thread = "gone"]
  <2>2. y \in Request /\ y.result = run[q].result
    BY <2>1 DEF Request, Results
  <2>3. /\ y.dir = run[q].dir /\ y.leader = run[q].leader /\ y.rest = run[q].rest
        /\ y.spent = run[q].spent
        /\ y.client = IF run[q].client = "waiting" THEN run[q].result ELSE run[q].client
    BY <2>1 DEF Request
  <2>4. run' = [run EXCEPT ![q] = x]
    <3>1. x = [run[q] EXCEPT !.thread = "gone",
                             !.client = IF @ = "waiting" THEN run[q].result ELSE @]
      BY <2>1 DEF Request
    <3> QED BY <3>1, <1>5 DEF Answer
  <2> HIDE DEF y
  <2>5. x \in Request
    BY <2>2 DEF Request, Threads
  <2>6. /\ x.thread = "gone" /\ x.dir = y.dir /\ x.leader = y.leader /\ x.rest = y.rest
        /\ x.spent = y.spent /\ x.client = y.client /\ x.result = y.result
    BY <2>2 DEF Request
  <2> HIDE DEF x
  <2>7. Tidy(x)
    BY <1>5, <2>1, <2>2, <2>3, <2>6 DEF Answer, At, Tidy, Group, Outcome, Limit
  <2> QED
    BY <1>5, <2>1, <2>3, <2>4, <2>5, <2>6, <2>7, OneRequest, SameDirectoryKeepsIInv
    DEF Answer, SameDirectory, Only
<1> USE OneRequest DEF SameDirectory, Only, Request, Threads, Results, Runs
<1> USE DEF Tidy, Group, Outcome, Limit, At, Works, Fails
<1>1. CASE Stage(q)
  BY <1>1, SameDirectoryKeepsIInv DEF Stage
<1>2. CASE Spawn(q)
  BY <1>2, SameDirectoryKeepsIInv DEF Spawn
<1>3. CASE LastScan(q)
  BY <1>3, SameDirectoryKeepsIInv DEF LastScan
<1>4. CASE Wait(q)
  BY <1>4, SameDirectoryKeepsIInv DEF Wait, Unwind, Killed
<1> QED BY <1>1, <1>2, <1>3, <1>4, <1>5

\* The supervisor kills the group, or returns.
LEMMA SupervisorKeepsIInv ==
  ASSUME IInv, NEW q \in Requests, TryWait(q) \/ Limits(q) \/ Drop(q) \/ Collect(q)
  PROVE  IInv'
<1>1. /\ run[q] \in Request /\ run \in [Requests -> Request] /\ Tidy(run[q])
      /\ sequence' \in Nat /\ taken' \subseteq Nat /\ taken \subseteq taken'
  BY OneRequest DEF TryWait, Limits, Drop, Collect, Finish, Returns, Unwind
<1> DEFINE k == Killed(q)[q]
<1>2. /\ k \in Request /\ Killed(q) \in [Requests -> Request]
      /\ \A p \in Requests \ {q} : Killed(q)[p] = run[p]
      /\ k = [run[q] EXCEPT !.leader = IF Runs(q) THEN "dying" ELSE run[q].leader,
                            !.rest = IF run[q].rest = "live" THEN "dying" ELSE run[q].rest]
  BY KilledGroup
<1>3. ASSUME NEW x \in Request, run' = [run EXCEPT ![q] = x], x.dir = run[q].dir, Tidy(x)
      PROVE  IInv'
  BY <1>1, <1>3, SameDirectoryKeepsIInv DEF SameDirectory, Only
<1>4. ASSUME NEW x \in Request, run' = [Killed(q) EXCEPT ![q] = x], x.dir = run[q].dir, Tidy(x)
      PROVE  IInv'
  BY <1>1, <1>2, <1>4, SameDirectoryKeepsIInv DEF SameDirectory, Only
<1>5. /\ k.thread = run[q].thread /\ k.dir = run[q].dir /\ k.result = run[q].result
      /\ k.client = run[q].client /\ k.spent = run[q].spent /\ k.rest # "live"
      /\ k.leader = IF Runs(q) THEN "dying" ELSE run[q].leader
  BY <1>1, <1>2 DEF Request
<1> HIDE DEF k
<1>6. CASE Unwind(q) /\ At(q, "poll")
  <2> DEFINE x == [k EXCEPT !.result = "executor", !.thread = "drop"]
  <2>1. run' = [Killed(q) EXCEPT ![q] = x]
    BY <1>2, <1>6 DEF Unwind, k
  <2>2. x \in Request
    BY <1>2, Advances, Places
  <2>3. /\ x.thread = "drop" /\ x.result = "executor" /\ x.dir = k.dir /\ x.leader = k.leader
        /\ x.rest = k.rest /\ x.client = k.client /\ x.spent = k.spent
    BY <1>2 DEF Request
  <2> HIDE DEF x
  <2>4. Tidy(x)
    BY <1>1, <1>5, <1>6, <2>3 DEF Tidy, Group, Outcome, Limit, At, Runs
  <2> QED BY <1>4, <1>5, <2>1, <2>2, <2>3, <2>4
<1>7. CASE TryWait(q) /\ ~Unwind(q)
  <2>1. CASE run[q].leader = "zombie"
    <3> DEFINE x == [k EXCEPT !.leader = "reaped", !.spent = run[q].over, !.thread = "scan"]
               y == [k EXCEPT !.spent = run[q].over]
    <3>1. run' = [Killed(q) EXCEPT ![q] = x]
      BY <1>2, <1>7, <2>1 DEF TryWait, k
    <3>2. y \in Request
      <4>1. run[q].over \in BOOLEAN
        BY <1>1 DEF Request
      <4> QED BY <1>2, <4>1, Flags
    <3>3. x = [y EXCEPT !.leader = "reaped", !.thread = "scan"]
      <4>1. run[q].over \in BOOLEAN
        BY <1>1 DEF Request
      <4> QED BY <1>2, <4>1, Advances, Places
    <3> HIDE DEF y
    <3>4. x \in Request
      BY <3>2, <3>3, Advances, Places
    <3>5. /\ x.thread = "scan" /\ x.leader = "reaped" /\ x.dir = k.dir /\ x.rest = k.rest
          /\ x.client = k.client /\ x.result = k.result
      BY <1>2 DEF Request
    <3>6. x.over = k.over /\ x.spent = run[q].over
      BY <1>2 DEF Request
    <3>7. k.over = run[q].over
      BY <1>1, <1>2 DEF Request
    <3> HIDE DEF x
    <3>8. Tidy(x)
      BY <1>1, <1>5, <1>7, <2>1, <3>5, <3>6, <3>7
      DEF TryWait, Tidy, Group, Outcome, Limit, At, Runs
    <3> QED BY <1>4, <1>5, <3>1, <3>4, <3>5, <3>8
  <2>2. CASE run[q].leader # "zombie"
    <3> DEFINE x == [run[q] EXCEPT !.thread = "limits"]
    <3>1. run' = [run EXCEPT ![q] = x]
      BY <1>7, <2>2 DEF TryWait
    <3>2. x \in Request /\ x.dir = run[q].dir
      BY <1>1 DEF Request, Threads
    <3>3. Tidy(x)
      BY <1>1, <1>7, <2>2 DEF TryWait, At, Request, Tidy, Group, Outcome, Limit
    <3> QED BY <1>3, <3>1, <3>2, <3>3
  <2> QED BY <2>1, <2>2
<1>8. CASE Limits(q)
  <2>1. CASE run' = [run EXCEPT ![q].thread = "poll"]
    <3> DEFINE x == [run[q] EXCEPT !.thread = "poll"]
    <3>1. run' = [run EXCEPT ![q] = x]
      BY <2>1
    <3>2. x \in Request /\ x.dir = run[q].dir
      BY <1>1 DEF Request, Threads
    <3>3. Tidy(x)
      BY <1>1, <1>8 DEF Limits, At, Request, Tidy, Group, Outcome, Limit
    <3> QED BY <1>3, <3>1, <3>2, <3>3
  <2>2. ASSUME NEW s \in {"timed_out", "scratch_exceeded"},
               run' = [Killed(q) EXCEPT ![q].status = s, ![q].thread = "wait"]
        PROVE  IInv'
    <3> DEFINE x == [k EXCEPT !.status = s, !.thread = "wait"]
    <3>1. run' = [Killed(q) EXCEPT ![q] = x]
      BY <1>2, <2>2 DEF k
    <3>2. x \in Request
      BY <1>2, Advances, Places
    <3>3. /\ x.thread = "wait" /\ x.dir = k.dir /\ x.leader = k.leader /\ x.rest = k.rest
          /\ x.client = k.client /\ x.result = k.result /\ x.spent = k.spent
      BY <1>2 DEF Request
    <3> HIDE DEF x
    <3>4. Tidy(x)
      BY <1>1, <1>5, <1>8, <3>3 DEF Limits, Tidy, Group, Outcome, Limit, At, Runs
    <3> QED BY <1>4, <1>5, <3>1, <3>2, <3>3, <3>4
  <2> QED BY <1>8, <2>1, <2>2 DEF Limits
<1>9. ASSUME NEW leader \in {"none", "reaped"}, NEW result \in Results, Returns(q, leader, result),
             run[q].rest # "live", run[q].client # "outcome"
      PROVE  IInv'
  <2> DEFINE y == [run[q] EXCEPT !.leader = leader, !.result = result, !.thread = "cleanup",
                                 !.status = "none"]
             a == [y EXCEPT !.over = FALSE]
             b == [a EXCEPT !.late = FALSE]
             c == [b EXCEPT !.alarm = FALSE]
             x == [c EXCEPT !.spent = FALSE]
  <2>1. y \in Request /\ y.dir = run[q].dir /\ y.rest = run[q].rest /\ y.client = run[q].client
        /\ y.thread = "cleanup" /\ y.leader = leader
    BY <1>1 DEF Request, Threads
  <2>2. run' = [run EXCEPT ![q] = x]
    BY <1>1, <1>9 DEF Returns, Request
  <2> HIDE DEF y
  <2>3. a \in Request
    BY <2>1, Flags
  <2>4. b \in Request
    BY <2>3, Flags
  <2>5. c \in Request
    BY <2>4, Flags
  <2>6. x \in Request
    BY <2>5, Flags
  <2>7. /\ x.dir = y.dir /\ x.rest = y.rest /\ x.client = y.client /\ x.thread = y.thread
        /\ x.leader = y.leader
    BY <2>1 DEF Request
  <2>8. x.spent = FALSE
    BY <2>5 DEF Request
  <2> HIDE DEF x
  <2>9. Tidy(x)
    BY <1>9, <2>1, <2>7, <2>8 DEF Tidy, Group, Outcome, Limit
  <2> QED BY <1>3, <2>1, <2>2, <2>6, <2>7, <2>9
<1>10. CASE Drop(q)
  BY <1>1, <1>9, <1>10 DEF Drop, At, Results, Tidy, Group, Outcome
<1>11. CASE Collect(q)
  BY <1>1, <1>9, <1>11 DEF Collect, Finish, At, Results, Tidy, Group, Outcome
<1> QED BY <1>6, <1>7, <1>8, <1>10, <1>11 DEF TryWait

(***************************************************************************)
(* The steps that make a directory, remove one, or forget all.             *)
(***************************************************************************)
LEMMA CreateRootKeepsIInv == ASSUME IInv, NEW q \in Requests, CreateRoot(q) PROVE IInv'
<1>1. /\ run[q] \in Request /\ run \in [Requests -> Request] /\ Tidy(run[q])
      /\ sequence \in Nat /\ taken \subseteq Nat /\ sequence' = sequence + 1 /\ At(q, "root")
  BY OneRequest DEF CreateRoot
<1>2. taken' \in {taken, taken \cup {sequence}}
  BY DEF CreateRoot
<1>3. sequence' \in Nat /\ taken' \subseteq Nat /\ taken \subseteq taken'
  BY <1>1, <1>2
<1>4. CASE UNCHANGED <<run, taken>>
  BY <1>3, <1>4 DEF IInv, TypeOK, Apart, DirectoriesStayApart
<1>5. CASE run' = [run EXCEPT ![q].result = "executor", ![q].thread = "answer"]
  <2> DEFINE x == [run[q] EXCEPT !.result = "executor", !.thread = "answer"]
  <2>1. run' = [run EXCEPT ![q] = x]
    BY <1>5
  <2>2. x \in Request
    BY <1>1, Advances, Places
  <2>3. x.dir = run[q].dir /\ Tidy(x)
    BY <1>1 DEF At, Request, Tidy, Group, Outcome, Limit
  <2> QED BY <1>1, <1>3, <2>1, <2>2, <2>3, SameDirectoryKeepsIInv DEF SameDirectory, Only
<1>6. CASE /\ sequence \notin taken /\ taken' = taken \cup {sequence}
           /\ run' = [run EXCEPT ![q].dir = {sequence}, ![q].thread = "stage"]
  <2> DEFINE x == [run[q] EXCEPT !.dir = {sequence}, !.thread = "stage"]
  <2>1. run' = [run EXCEPT ![q] = x]
    BY <1>6
  <2>2. x \in Request /\ x.dir = {sequence}
    BY <1>1 DEF Request, Threads
  <2>3. Tidy(x)
    BY <1>1 DEF At, Request, Tidy, Group, Outcome, Limit
  <2>4. /\ run' \in [Requests -> Request] /\ run'[q] = x
        /\ \A p \in Requests \ {q} : run'[p] = run[p]
    BY <1>1, <2>1, <2>2
  <2>5. TypeOK' /\ \A p \in Requests : Tidy(run'[p])
    BY <1>1, <1>3, <2>3, <2>4 DEF IInv, TypeOK
  <2>6. Apart'
    <3>1. \A p \in Requests : run'[p].dir \subseteq (taken \ Leftovers) \cup {sequence}
      BY <2>2, <2>4 DEF IInv, Apart, DirectoriesStayApart
    <3>2. sequence \notin Leftovers /\ \A p \in Requests : sequence \notin run[p].dir
      BY <1>6 DEF IInv, Apart, DirectoriesStayApart
    <3>3. \A p \in Requests : run'[p].dir \subseteq taken' \ Leftovers
      BY <1>6, <3>1, <3>2
    <3>4. ASSUME NEW p \in Requests, NEW r \in Requests, p # r
          PROVE  run'[p].dir \cap run'[r].dir = {}
      <4>1. run[p].dir \cap run[r].dir = {}
        BY <3>4 DEF IInv, Apart, DirectoriesStayApart
      <4>2. /\ p # q => run'[p].dir = run[p].dir /\ sequence \notin run[p].dir
            /\ r # q => run'[r].dir = run[r].dir /\ sequence \notin run[r].dir
        BY <2>4, <3>2
      <4>3. (p = q => run'[p].dir = {sequence}) /\ (r = q => run'[r].dir = {sequence})
        BY <2>2, <2>4
      <4> QED BY <3>4, <4>1, <4>2, <4>3
    <3>5. Leftovers \subseteq taken'
      BY <1>6 DEF IInv, Apart
    <3> QED BY <3>3, <3>4, <3>5 DEF Apart, DirectoriesStayApart
  <2> QED BY <2>5, <2>6 DEF IInv
<1> QED BY <1>4, <1>5, <1>6 DEF CreateRoot

LEMMA CleanupKeepsIInv == ASSUME IInv, NEW q \in Requests, Cleanup(q) PROVE IInv'
<1>1. /\ run[q] \in Request /\ run \in [Requests -> Request] /\ Tidy(run[q])
      /\ sequence' \in Nat /\ taken \subseteq Nat /\ At(q, "cleanup")
  BY OneRequest DEF Cleanup
<1>2. CASE /\ taken' = taken
           /\ run' = [run EXCEPT ![q].result = "executor", ![q].thread = "answer"]
  <2> DEFINE x == [run[q] EXCEPT !.result = "executor", !.thread = "answer"]
  <2>1. run' = [run EXCEPT ![q] = x]
    BY <1>2
  <2>2. x \in Request
    BY <1>1, Advances, Places
  <2>3. x.dir = run[q].dir /\ Tidy(x)
    BY <1>1 DEF At, Request, Tidy, Group, Outcome, Limit
  <2> QED BY <1>1, <1>2, <2>1, <2>2, <2>3, SameDirectoryKeepsIInv DEF SameDirectory, Only
<1>3. CASE /\ taken' = taken \ run[q].dir
           /\ run' = [run EXCEPT ![q].dir = {}, ![q].thread = "answer"]
  <2> DEFINE x == [run[q] EXCEPT !.dir = {}, !.thread = "answer"]
  <2>1. run' = [run EXCEPT ![q] = x]
    BY <1>3
  <2>2. x \in Request /\ x.dir = {}
    BY <1>1 DEF Request, Threads
  <2>3. Tidy(x)
    BY <1>1 DEF At, Request, Tidy, Group, Outcome, Limit
  <2>4. /\ run' \in [Requests -> Request] /\ run'[q] = x
        /\ \A p \in Requests \ {q} : run'[p] = run[p]
    BY <1>1, <2>1, <2>2
  <2>5. TypeOK' /\ \A p \in Requests : Tidy(run'[p])
    BY <1>1, <1>3, <2>3, <2>4 DEF IInv, TypeOK
  <2>6. Apart'
    <3>1. Leftovers \subseteq taken'
      BY <1>3 DEF IInv, Apart, DirectoriesStayApart
    <3>2. ASSUME NEW p \in Requests PROVE run'[p].dir \subseteq taken' \ Leftovers
      <4>1. p # q => run[p].dir \cap run[q].dir = {}
        BY DEF IInv, Apart, DirectoriesStayApart
      <4>2. run[p].dir \subseteq taken \ Leftovers
        BY DEF IInv, Apart, DirectoriesStayApart
      <4> QED BY <1>3, <2>2, <2>4, <4>1, <4>2
    <3>3. ASSUME NEW p \in Requests, NEW r \in Requests, p # r
          PROVE  run'[p].dir \cap run'[r].dir = {}
      <4>1. run[p].dir \cap run[r].dir = {}
        BY <3>3 DEF IInv, Apart, DirectoriesStayApart
      <4> QED BY <2>2, <2>4, <4>1
    <3> QED BY <3>1, <3>2, <3>3 DEF Apart, DirectoriesStayApart
  <2> QED BY <2>5, <2>6 DEF IInv
<1> QED BY <1>2, <1>3 DEF Cleanup

\* The service dies.  Its threads are gone, their directories and processes stay.
LEMMA CrashKeepsIInv == ASSUME IInv, Crash PROVE IInv'
<1>1. run \in [Requests -> Request] /\ taken' = taken /\ sequence' = 0
  BY DEF IInv, TypeOK, Crash
<1>2. ASSUME NEW q \in Requests
      PROVE  run'[q] \in Request /\ run'[q].dir = run[q].dir /\ Tidy(run'[q])
  <2>1. run[q] \in Request /\ Tidy(run[q])
    BY OneRequest
  <2>2. CASE run[q].thread \in {"none", "gone"}
    BY <2>1, <2>2 DEF Crash
  <2>3. CASE run[q].thread \notin {"none", "gone"}
    <3> DEFINE x == [run[q] EXCEPT !.thread = "crashed",
                                   !.client = IF @ = "waiting" THEN "executor" ELSE @]
    <3>1. run'[q] = x
      BY <2>3 DEF Crash
    <3>2. x \in Request
      <4> DEFINE y == [run[q] EXCEPT !.client = IF @ = "waiting" THEN "executor" ELSE @]
      <4>1. y \in Request
        BY <2>1 DEF Request, Results
      <4>2. x = [y EXCEPT !.thread = "crashed"]
        BY <2>1 DEF Request
      <4> HIDE DEF y, x
      <4>3. "crashed" \in Threads
        BY DEF Threads
      <4> QED BY <4>1, <4>2, <4>3 DEF Request
    <3>3. /\ x.thread = "crashed" /\ x.dir = run[q].dir /\ x.spent = run[q].spent
          /\ x.client = "outcome" => run[q].client = "outcome"
      BY <2>1 DEF Request
    <3> HIDE DEF x
    <3>4. Tidy(x)
      BY <2>1, <2>3, <3>3 DEF Tidy, Group, Outcome, Limit
    <3> QED BY <3>1, <3>2, <3>3, <3>4
  <2> QED BY <2>2, <2>3
<1>3. run' \in [Requests -> Request]
  BY <1>2 DEF Crash
<1>4. Apart'
  BY <1>1, <1>2 DEF IInv, Apart, DirectoriesStayApart
<1> QED BY <1>1, <1>2, <1>3, <1>4 DEF IInv, TypeOK

LEMMA NextKeepsIInv == ASSUME IInv, [Next]_vars PROVE IInv'
<1>1. CASE UNCHANGED vars
  BY <1>1 DEF vars, IInv, TypeOK, Apart, DirectoriesStayApart
<1>2. ASSUME NEW q \in Requests, Send(q) \/ GiveUp(q) \/ LeaderDies(q) \/ RestDies(q) PROVE IInv'
  BY <1>2, OutsideKeepsIInv
<1>3. ASSUME NEW q \in Requests, Program(q) PROVE IInv'
  BY <1>3, ProgramKeepsIInv
<1>4. ASSUME NEW q \in Requests, Clock(q) \/ Monitor(q) PROVE IInv'
  BY <1>4, AlarmsKeepIInv
<1>5. ASSUME NEW q \in Requests, Serve(q) PROVE IInv'
  BY <1>5, ThreadKeepsIInv, SupervisorKeepsIInv, CreateRootKeepsIInv, CleanupKeepsIInv DEF Serve
<1>6. CASE Crash
  BY <1>6, CrashKeepsIInv
<1> QED BY <1>1, <1>2, <1>3, <1>4, <1>5, <1>6 DEF Next, Finished

\* What holds of every reachable state.
THEOREM Invariance == Spec => []IInv
<1>1. Init => IInv
  BY InitIInv
<1>2. IInv /\ [Next]_vars => IInv'
  BY NextKeepsIInv
<1> QED BY <1>1, <1>2, PTL DEF Spec

\* Two requests never use one directory, and none uses one that was there before
\* the service was started, whatever fails and however often the service dies.
THEOREM RequestsStayApart == Spec => []DirectoriesStayApart
<1>1. IInv => DirectoriesStayApart
  BY DEF IInv, Apart
<1> QED BY <1>1, Invariance, PTL

\* Past the supervisor no process of a request goes on, and a client that has an
\* outcome has it of a request whose directory is gone.
THEOREM SupervisionLeavesNothing == Spec => []NothingIsLeft
<1>1. IInv => NothingIsLeft
  BY DEF IInv, Tidy, Group, Outcome, NothingIsLeft
<1> QED BY <1>1, Invariance, PTL

\* A run that was over its limit when its leader's exit was seen is never reported
\* as one that exited.
THEOREM LimitIsEnforced == Spec => []LimitHolds
<1>1. IInv => LimitHolds
  BY DEF IInv, Tidy, Limit, LimitHolds, At
<1> QED BY <1>1, Invariance, PTL
=============================================================================
