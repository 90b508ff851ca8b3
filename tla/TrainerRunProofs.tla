--------------------------- MODULE TrainerRunProofs ---------------------------
(***************************************************************************)
(* Proofs about the distributed run, for every number of ranks, steps,     *)
(* groups and epochs, in both execution modes, and under any number of     *)
(* local failures, kills, preemption signals and relaunches.               *)
(*                                                                         *)
(* StaysInLockstep: the ranks never leave the sequence of collectives      *)
(* their peers are in (SameCall).  SameCall is not inductive.  A           *)
(* tensor-parallel rank decides from its own set of live groups whether    *)
(* the next group rendezvouses and whether the window updates at all, so   *)
(* the ranks stay together only because those sets agree; and they agree   *)
(* only between the reductions, because the first preflight of a window    *)
(* empties them one rank at a time.                                        *)
(*                                                                         *)
(* PublishesForTheWorld: what rank 0 publishes is the state of every rank. *)
(*                                                                         *)
(* The rest is about what the run computes, and has four inductive parts,  *)
(* each of which uses the ones before it:                                  *)
(*   RunInv     where a rank can be (Place) and what its policy, the       *)
(*              checkpoints and the metrics then are: CheckpointIsItsStep, *)
(*              MetricsReachCheckpoint, NoPublishedWorkIsRedone;           *)
(*   Snapshots  which state the snapshot of a rank is, so that a rollback  *)
(*              takes every rank to the same one;                          *)
(*   Final      what a verdict says: RestoredMeansRestored,                *)
(*              VerdictsAreBacked;                                         *)
(*   Streams    the candidate streams without a window that is half way    *)
(*              in: CandidateStreamsAgree.                                 *)
(***************************************************************************)
EXTENDS TrainerRun, SequenceTheorems, FiniteSetTheorems, WellFoundedInduction, TLAPS

(***************************************************************************)
(* The calls, by the straight line they belong to.                         *)
(***************************************************************************)
Looking == {"discover"} \cup IF Sharded THEN {"capture", "validate"} ELSE {"identity"}
Loading == {"binding", "payload", "apply"} \cup IF Sharded THEN {} ELSE {"capture"}
Preparing == {"publication", "rebinding", "vars", "optimizer"}
             \cup IF Sharded THEN {"contract"} ELSE {"reidentity", "schema"}
Scored == {"decode", "reward", "result", "finalize"} \cup IF Sharded THEN {"canonical"} ELSE {}
Asking == {"generate"} \cup IF Sharded THEN {"request"} ELSE {}
Grouping == {"preflight"} \cup Asking \cup Scored
Recording == {"boundary", "append"}
Saving == {"rebind", "state", "publish"}

LEMMA LinesHold ==
  /\ LoadResumePoint \in Seq(Loading) /\ Prepare \in Seq(Preparing)
  /\ CollectGroup \in Seq(Grouping) /\ WriteCandidates \in Seq(Recording)
<1>1. CASE Sharded
  <2>1. LoadResumePoint \in Seq(Loading)
    BY <1>1 DEF LoadResumePoint, Loading
  <2>2. Prepare \in Seq(Preparing)
    BY <1>1 DEF Prepare, Preparing
  <2>3. CollectGroup \in Seq(Grouping)
    BY <1>1 DEF CollectGroup, Grouping, Asking, Scored
  <2>4. WriteCandidates \in Seq(Recording)
    BY DEF WriteCandidates, Recording
  <2> QED BY <2>1, <2>2, <2>3, <2>4
<1>2. CASE ~Sharded
  <2>1. LoadResumePoint \in Seq(Loading)
    BY <1>2 DEF LoadResumePoint, Loading
  <2>2. Prepare \in Seq(Preparing)
    BY <1>2 DEF Prepare, Preparing
  <2>3. CollectGroup \in Seq(Grouping)
    BY <1>2 DEF CollectGroup, Grouping, Asking, Scored
  <2>4. WriteCandidates \in Seq(Recording)
    BY DEF WriteCandidates, Recording
  <2> QED BY <2>1, <2>2, <2>3, <2>4
<1> QED BY <1>1, <1>2

\* The call at place i of the line s, which occurs nowhere else.
Sole(s, i, c) ==
  /\ s \in StraightLines /\ i \in 1..Len(s) /\ i + 1 \in 1..Len(s) /\ s[i] = c
  /\ \A t \in StraightLines : \A k \in 1..Len(t) : t[k] = c => t = s /\ k = i

LEMMA FollowingIs ==
  ASSUME NEW s, NEW i, NEW c, Sole(s, i, c)
  PROVE  Following(c) = s[i + 1]
<1>1. i \in 1..Len(s) /\ s[i] = c
  BY DEF Sole
<1>2. Contains(s, c) /\ \A t \in StraightLines : Contains(t, c) => t = s
  BY DEF Contains, Sole
<1>3. (CHOOSE t \in StraightLines : Contains(t, c)) = s
  BY <1>2 DEF Sole
<1>4. (CHOOSE k \in 1..Len(s) : s[k] = c) = i
  BY <1>1 DEF Sole
<1> QED BY <1>3, <1>4 DEF Following

LEMMA FollowingWhenSharded ==
  ASSUME Sharded
  PROVE  /\ Following("capture") = "validate" /\ Following("validate") = "discover"
         /\ Following("binding") = "payload" /\ Following("payload") = "apply"
         /\ Following("contract") = "publication" /\ Following("publication") = "rebinding"
         /\ Following("rebinding") = "vars" /\ Following("vars") = "optimizer"
         /\ Following("preflight") = "request" /\ Following("request") = "generate"
         /\ Following("generate") = "decode" /\ Following("decode") = "reward"
         /\ Following("reward") = "canonical" /\ Following("canonical") = "result"
         /\ Following("result") = "finalize"
         /\ Following("boundary") = "append"
         /\ Following("backward") = "reduction" /\ Following("reduction") = "post"
         /\ Following("rebind") = "state" /\ Following("state") = "publish"
<1> USE Sharded DEF StraightLines, ResumeLatest, LoadResumePoint, Prepare, CollectGroup,
            WriteCandidates, AccumulateStep, WriteCheckpoint
<1>1. /\ Following("capture") = "validate" /\ Following("validate") = "discover"
  <2>1. Sole(ResumeLatest, 1, "capture")
    BY DEF Sole
  <2>2. Sole(ResumeLatest, 2, "validate")
    BY DEF Sole
  <2> QED BY <2>1, <2>2, FollowingIs
<1>2. /\ Following("binding") = "payload" /\ Following("payload") = "apply"
  <2>1. Sole(LoadResumePoint, 1, "binding")
    BY DEF Sole
  <2>2. Sole(LoadResumePoint, 2, "payload")
    BY DEF Sole
  <2> QED BY <2>1, <2>2, FollowingIs
<1>3. /\ Following("contract") = "publication" /\ Following("publication") = "rebinding"
      /\ Following("rebinding") = "vars" /\ Following("vars") = "optimizer"
  <2>1. Sole(Prepare, 1, "contract")
    BY DEF Sole
  <2>2. Sole(Prepare, 2, "publication")
    BY DEF Sole
  <2>3. Sole(Prepare, 3, "rebinding")
    BY DEF Sole
  <2>4. Sole(Prepare, 4, "vars")
    BY DEF Sole
  <2> QED BY <2>1, <2>2, <2>3, <2>4, FollowingIs
<1>4. /\ Following("preflight") = "request" /\ Following("request") = "generate"
      /\ Following("generate") = "decode" /\ Following("decode") = "reward"
      /\ Following("reward") = "canonical" /\ Following("canonical") = "result"
      /\ Following("result") = "finalize"
  <2>1. Sole(CollectGroup, 1, "preflight")
    BY DEF Sole
  <2>2. Sole(CollectGroup, 2, "request")
    BY DEF Sole
  <2>3. Sole(CollectGroup, 3, "generate")
    BY DEF Sole
  <2>4. Sole(CollectGroup, 4, "decode")
    BY DEF Sole
  <2>5. Sole(CollectGroup, 5, "reward")
    BY DEF Sole
  <2>6. Sole(CollectGroup, 6, "canonical")
    BY DEF Sole
  <2>7. Sole(CollectGroup, 7, "result")
    BY DEF Sole
  <2> QED BY <2>1, <2>2, <2>3, <2>4, <2>5, <2>6, <2>7, FollowingIs
<1>5. /\ Following("boundary") = "append"
  <2>1. Sole(WriteCandidates, 1, "boundary")
    BY DEF Sole
  <2> QED BY <2>1, FollowingIs
<1>6. /\ Following("backward") = "reduction" /\ Following("reduction") = "post"
  <2>1. Sole(AccumulateStep, 1, "backward")
    BY DEF Sole
  <2>2. Sole(AccumulateStep, 2, "reduction")
    BY DEF Sole
  <2> QED BY <2>1, <2>2, FollowingIs
<1>7. /\ Following("rebind") = "state" /\ Following("state") = "publish"
  <2>1. Sole(WriteCheckpoint, 1, "rebind")
    BY DEF Sole
  <2>2. Sole(WriteCheckpoint, 2, "state")
    BY DEF Sole
  <2> QED BY <2>1, <2>2, FollowingIs
<1> QED BY <1>1, <1>2, <1>3, <1>4, <1>5, <1>6, <1>7

LEMMA FollowingWhenNotSharded ==
  ASSUME ~Sharded
  PROVE  /\ Following("identity") = "discover"
         /\ Following("capture") = "binding" /\ Following("binding") = "payload"
         /\ Following("payload") = "apply"
         /\ Following("reidentity") = "publication" /\ Following("publication") = "rebinding"
         /\ Following("rebinding") = "vars" /\ Following("vars") = "schema"
         /\ Following("schema") = "optimizer"
         /\ Following("preflight") = "generate" /\ Following("generate") = "decode"
         /\ Following("decode") = "reward" /\ Following("reward") = "result"
         /\ Following("result") = "finalize"
         /\ Following("boundary") = "append"
         /\ Following("backward") = "reduction" /\ Following("reduction") = "post"
         /\ Following("rebind") = "state" /\ Following("state") = "publish"
<1> USE ~Sharded DEF StraightLines, ResumeLatest, LoadResumePoint, Prepare, CollectGroup,
            WriteCandidates, AccumulateStep, WriteCheckpoint
<1>1. /\ Following("identity") = "discover"
  <2>1. Sole(ResumeLatest, 1, "identity")
    BY DEF Sole
  <2> QED BY <2>1, FollowingIs
<1>2. /\ Following("capture") = "binding" /\ Following("binding") = "payload"
      /\ Following("payload") = "apply"
  <2>1. Sole(LoadResumePoint, 1, "capture")
    BY DEF Sole
  <2>2. Sole(LoadResumePoint, 2, "binding")
    BY DEF Sole
  <2>3. Sole(LoadResumePoint, 3, "payload")
    BY DEF Sole
  <2> QED BY <2>1, <2>2, <2>3, FollowingIs
<1>3. /\ Following("reidentity") = "publication" /\ Following("publication") = "rebinding"
      /\ Following("rebinding") = "vars" /\ Following("vars") = "schema"
      /\ Following("schema") = "optimizer"
  <2>1. Sole(Prepare, 1, "reidentity")
    BY DEF Sole
  <2>2. Sole(Prepare, 2, "publication")
    BY DEF Sole
  <2>3. Sole(Prepare, 3, "rebinding")
    BY DEF Sole
  <2>4. Sole(Prepare, 4, "vars")
    BY DEF Sole
  <2>5. Sole(Prepare, 5, "schema")
    BY DEF Sole
  <2> QED BY <2>1, <2>2, <2>3, <2>4, <2>5, FollowingIs
<1>4. /\ Following("preflight") = "generate" /\ Following("generate") = "decode"
      /\ Following("decode") = "reward" /\ Following("reward") = "result"
      /\ Following("result") = "finalize"
  <2>1. Sole(CollectGroup, 1, "preflight")
    BY DEF Sole
  <2>2. Sole(CollectGroup, 2, "generate")
    BY DEF Sole
  <2>3. Sole(CollectGroup, 3, "decode")
    BY DEF Sole
  <2>4. Sole(CollectGroup, 4, "reward")
    BY DEF Sole
  <2>5. Sole(CollectGroup, 5, "result")
    BY DEF Sole
  <2> QED BY <2>1, <2>2, <2>3, <2>4, <2>5, FollowingIs
<1>5. /\ Following("boundary") = "append"
  <2>1. Sole(WriteCandidates, 1, "boundary")
    BY DEF Sole
  <2> QED BY <2>1, FollowingIs
<1>6. /\ Following("backward") = "reduction" /\ Following("reduction") = "post"
  <2>1. Sole(AccumulateStep, 1, "backward")
    BY DEF Sole
  <2>2. Sole(AccumulateStep, 2, "reduction")
    BY DEF Sole
  <2> QED BY <2>1, <2>2, FollowingIs
<1>7. /\ Following("rebind") = "state" /\ Following("state") = "publish"
  <2>1. Sole(WriteCheckpoint, 1, "rebind")
    BY DEF Sole
  <2>2. Sole(WriteCheckpoint, 2, "state")
    BY DEF Sole
  <2> QED BY <2>1, <2>2, FollowingIs
<1> QED BY <1>1, <1>2, <1>3, <1>4, <1>5, <1>6, <1>7

LEMMA SeqMembers ==
  ASSUME NEW S, NEW s \in Seq(S), NEW t \in Seq(S)
  PROVE  ToSet(s \o t) \subseteq S
<1>1. s \o t \in Seq(S)
  OBVIOUS
<1> QED BY <1>1 DEF ToSet

\* What the transactions that are rolled back consist of.
LEMMA Transactions ==
  ASSUME NEW p
  PROVE  /\ InResume(p) => \/ p.resumed = TRUE /\ p.call \in Loading \cup Preparing
                           \/ Sharded /\ p.call \in {"validate", "discover"}
         /\ InCollection(p) => p.call \in Grouping \cup Recording \cup {"materialize", "truncate"}
<1>1. ToSet(LoadResumePoint \o Prepare) \subseteq Loading \cup Preparing
  <2> DEFINE S == Loading \cup Preparing
  <2>1. LoadResumePoint \in Seq(S) /\ Prepare \in Seq(S)
    BY LinesHold
  <2> HIDE DEF S
  <2>2. ToSet(LoadResumePoint \o Prepare) \subseteq S
    BY <2>1, SeqMembers
  <2> QED BY <2>2 DEF S
<1>2. ToSet(CollectGroup \o WriteCandidates) \subseteq Grouping \cup Recording
  <2> DEFINE S == Grouping \cup Recording
  <2>1. CollectGroup \in Seq(S) /\ WriteCandidates \in Seq(S)
    BY LinesHold
  <2> HIDE DEF S
  <2>2. ToSet(CollectGroup \o WriteCandidates) \subseteq S
    BY <2>1, SeqMembers
  <2> QED BY <2>2 DEF S
<1> QED BY <1>1, <1>2 DEF InResume, InCollection

\* The fields of a position that the invariants read.
Fields == {"call", "step", "epoch", "verdict"}

\* pos and live are functions of the ranks; every position has its fields, and
\* a rank that has a verdict waits nowhere.
Shape ==
  /\ pos = [r \in Ranks |-> pos[r]]
  /\ \A r \in Ranks : Fields \subseteq DOMAIN pos[r]
  /\ live = [r \in Ranks |-> live[r]]
  /\ entered \subseteq Ranks
  /\ \A r \in entered : ~Over(r)

\* r has begun the window that its peers may not have begun.
Begun(r) == r \in entered /\ pos[r].call = "preflight" /\ pos[r].group = 1

LiveSetsAgree ==
  /\ \A r \in Ranks : Begun(r) => live[r] = {}
  /\ Sharded /\ comm = "live" =>
       \A r, s \in Alive : (Begun(r) <=> Begun(s)) => live[r] = live[s]

Lockstep == Shape /\ SameCall /\ LiveSetsAgree

\* Ranks that hold the same groups to be live go the same way.
LEMMA SameWay ==
  ASSUME NEW r, NEW s, NEW p, NEW x, Sharded => live[r] = live[s]
  PROVE  Succeed(p, r, x) = Succeed(p, s, x)
<1>1. \A h : Rendezvouses(r, h) <=> Rendezvouses(s, h)
  BY DEF Rendezvouses, Items
<1>2. Collected(p, r) = Collected(p, s)
  BY DEF Collected, Items, Update
<1>3. \A g : MaterializeFrom(p, r, g) = MaterializeFrom(p, s, g)
  <2> SUFFICES ASSUME NEW g PROVE MaterializeFrom(p, r, g) = MaterializeFrom(p, s, g)
    OBVIOUS
  <2>1. {h \in g..Accum : Rendezvouses(r, h)} = {h \in g..Accum : Rendezvouses(s, h)}
    BY <1>1
  <2>2. \A G : MaterializeFirst(p, r, G) = MaterializeFirst(p, s, G)
    BY <1>2 DEF MaterializeFirst
  <2> QED BY <2>1, <2>2 DEF MaterializeFrom
<1>4. \A g : CollectFrom(p, r, g) = CollectFrom(p, s, g)
  BY <1>2 DEF CollectFrom
<1>5. GroupCollected(p, r) = GroupCollected(p, s)
  BY <1>1, <1>4, Zenon DEF GroupCollected
<1>6. GroupMaterialized(p, r) = GroupMaterialized(p, s)
  BY <1>3, <1>4, Zenon DEF GroupMaterialized
<1>7. Update(p, r, x) = Update(p, s, x)
  BY DEF Update
<1> QED BY <1>3, <1>4, <1>5, <1>6, <1>7, Zenon DEF Succeed

\* Going on from a reduction keeps the fields of a position.
LEMMA GoingOnKeepsFields ==
  ASSUME NEW p, NEW r, NEW x
  PROVE  DOMAIN Fail(p, x) = DOMAIN p /\ DOMAIN Succeed(p, r, x) = DOMAIN p
<1>1. \A q, c : DOMAIN Goto(q, c) = DOMAIN q /\ DOMAIN Return(q, c) = DOMAIN q
  BY DEF Goto, Return
<1>2. \A q : DOMAIN Window(q) = DOMAIN q /\ DOMAIN Epoch(q) = DOMAIN q
  BY <1>1 DEF Window, Epoch
<1>3. \A q : DOMAIN NextStep(q) = DOMAIN q
  BY <1>2 DEF NextStep
<1>4. DOMAIN Update(p, r, x) = DOMAIN p /\ DOMAIN Collected(p, r) = DOMAIN p
  BY <1>1, <1>2 DEF Update, Collected
<1>5. \A g : DOMAIN CollectFrom(p, r, g) = DOMAIN p
  BY <1>4 DEF CollectFrom
<1>6. \A G : DOMAIN MaterializeFirst(p, r, G) = DOMAIN p
  BY <1>4 DEF MaterializeFirst
<1>7. \A g : DOMAIN MaterializeFrom(p, r, g) = DOMAIN p
  BY <1>6 DEF MaterializeFrom
<1>8. DOMAIN GroupCollected(p, r) = DOMAIN p /\ DOMAIN GroupMaterialized(p, r) = DOMAIN p
  BY <1>1, <1>5, <1>7 DEF GroupCollected, GroupMaterialized
<1>9. DOMAIN MaybeCheckpoint(p) = DOMAIN p /\ DOMAIN MaybePreempt(p, x) = DOMAIN p
  BY <1>1, <1>3 DEF MaybeCheckpoint, MaybePreempt
<1>10. DOMAIN Branch(p, x) = DOMAIN p
  BY <1>1 DEF Branch
<1>11. DOMAIN Fail(p, x) = DOMAIN p
  BY <1>1 DEF Fail
<1>12. DOMAIN Succeed(p, r, x) = DOMAIN p
  BY <1>1, <1>2, <1>4, <1>5, <1>7, <1>8, <1>9, <1>10, ZenonT(60) DEF Succeed
<1> QED BY <1>11, <1>12

LEMMA LockstepInit == ASSUME Init PROVE Lockstep
<1>1. Shape
  BY DEF Init, Boot, Shape, Over, Start, Fields
<1>2. SameCall
  BY DEF Init, Boot, SameCall, Alive
<1>3. LiveSetsAgree
  BY DEF Init, Boot, LiveSetsAgree, Begun, Alive
<1> QED BY <1>1, <1>2, <1>3 DEF Lockstep

(***************************************************************************)
(* The local work of a rank.                                               *)
(***************************************************************************)
\* Every local action enters the reduction of the rank's call and goes nowhere.
LEMMA WorkEnters ==
  ASSUME NEW r \in Ranks, LocalWork(r)
  PROVE  /\ pos' = pos /\ comm' = comm
         /\ ~Over(r) /\ r \notin entered /\ entered' = entered \cup {r}
<1>1. CASE Check(r)
  BY <1>1 DEF Check, At, Join, Enter
<1>2. CASE AnnouncePublication(r)
  BY <1>2 DEF AnnouncePublication, At, Join, Enter
<1>3. CASE CapturePrestate(r)
  BY <1>3 DEF CapturePrestate, At, Join, Enter
<1>4. CASE ScanLocalResume(r)
  BY <1>4 DEF ScanLocalResume, At, Join, Enter
<1>5. CASE ApplyCheckpoint(r)
  BY <1>5 DEF ApplyCheckpoint, At, Join, Enter
<1>6. CASE RollbackResume(r)
  BY <1>6 DEF RollbackResume, At, Restore, Join, Enter
<1>7. CASE RollbackGroups(r)
  BY <1>7 DEF RollbackGroups, At, Restore, Join, Enter
<1>8. CASE SnapshotWindow(r)
  BY <1>8 DEF SnapshotWindow, At, Join, Enter
<1>9. CASE PreflightGroup(r)
  BY <1>9 DEF PreflightGroup, At, Join, Enter
<1>10. CASE Generate(r)
  BY <1>10 DEF Generate, At, Join, Enter
<1>11. CASE ScoreGroup(r)
  BY <1>11 DEF ScoreGroup, At, Join, Enter
<1>12. CASE BroadcastRewards(r)
  BY <1>12 DEF BroadcastRewards, At, Join, Enter
<1>13. CASE MaterializeGroup(r)
  BY <1>13 DEF MaterializeGroup, At, Join, Enter
<1>14. CASE CandidateBoundary(r)
  BY <1>14 DEF CandidateBoundary, At, Join, Enter
<1>15. CASE AppendCandidates(r)
  BY <1>15 DEF AppendCandidates, At, Join, Enter
<1>16. CASE TruncateCandidates(r)
  BY <1>16 DEF TruncateCandidates, At, Join, Enter
<1>17. CASE CountWindow(r)
  BY <1>17 DEF CountWindow, At, Join, Enter
<1>18. CASE ReduceEpoch(r)
  BY <1>18 DEF ReduceEpoch, At, Join, Enter
<1>19. CASE StepOptimizer(r)
  BY <1>19 DEF StepOptimizer, At, Join, Enter
<1>20. CASE AppendMetrics(r)
  BY <1>20 DEF AppendMetrics, At, Join, Enter
<1>21. CASE PublishCheckpoint(r)
  BY <1>21 DEF PublishCheckpoint, At, Join, Enter
<1>22. CASE PollPreemption(r)
  BY <1>22 DEF PollPreemption, At, Join, Enter
<1> QED BY <1>1, <1>2, <1>3, <1>4, <1>5, <1>6, <1>7, <1>8, <1>9, <1>10, <1>11,
           <1>12, <1>13, <1>14, <1>15, <1>16, <1>17, <1>18, <1>19, <1>20, <1>21,
           <1>22, Zenon DEF LocalWork

\* Only two of them touch a live set: the first preflight of a window empties
\* it, and a data-parallel rank that scores its group may add the group.
LEMMA WorkOnLive ==
  ASSUME NEW r \in Ranks, LocalWork(r), Shape
  PROVE  /\ live' = [s \in Ranks |-> live'[s]]
         /\ \A s \in Ranks : s # r => live'[s] = live[s]
         /\ pos[r].call = "preflight" /\ pos[r].group = 1 => live'[r] = {}
         /\ Sharded /\ ~(pos[r].call = "preflight" /\ pos[r].group = 1) => live'[r] = live[r]
<1>1. CASE PreflightGroup(r)
  BY <1>1 DEF PreflightGroup, Shape, At
<1>2. CASE ScoreGroup(r)
  BY <1>2 DEF ScoreGroup, Shape, At
<1>3. CASE live' = live /\ pos[r].call # "preflight"
  BY <1>3 DEF Shape
<1>4. PreflightGroup(r) \/ ScoreGroup(r) \/ (live' = live /\ pos[r].call # "preflight")
  <2>1. CASE Check(r)
    BY <2>1 DEF Check, At, Checks, memory
  <2>2. CASE AnnouncePublication(r) \/ ScanLocalResume(r) \/ BroadcastRewards(r)
             \/ CountWindow(r) \/ ReduceEpoch(r) \/ PollPreemption(r)
    BY <2>2 DEF AnnouncePublication, ScanLocalResume, BroadcastRewards, CountWindow,
                ReduceEpoch, PollPreemption, At, memory
  <2>3. CASE CapturePrestate(r) \/ ApplyCheckpoint(r) \/ RollbackResume(r)
             \/ RollbackGroups(r) \/ SnapshotWindow(r) \/ Generate(r)
             \/ MaterializeGroup(r) \/ CandidateBoundary(r) \/ StepOptimizer(r)
    BY <2>3 DEF CapturePrestate, ApplyCheckpoint, RollbackResume, RollbackGroups,
                SnapshotWindow, Generate, MaterializeGroup, CandidateBoundary,
                StepOptimizer, At
  <2>4. CASE AppendCandidates(r) \/ TruncateCandidates(r) \/ AppendMetrics(r)
             \/ PublishCheckpoint(r)
    BY <2>4 DEF AppendCandidates, TruncateCandidates, AppendMetrics, PublishCheckpoint,
                At, memory
  <2> QED BY <2>1, <2>2, <2>3, <2>4, Zenon DEF LocalWork
<1> QED BY <1>1, <1>2, <1>3, <1>4

LEMMA WorkKeepsLockstep ==
  ASSUME NEW r \in Ranks, LocalWork(r), Lockstep
  PROVE  Lockstep'
<1> USE DEF Lockstep
<1>1. /\ pos' = pos /\ comm' = comm
      /\ ~Over(r) /\ r \notin entered /\ entered' = entered \cup {r}
  BY WorkEnters
<1>2. Shape'
  BY <1>1, WorkOnLive DEF Shape, Over
<1>3. SameCall'
  BY <1>1 DEF SameCall, Alive
<1>4. Begun(r)' <=> pos[r].call = "preflight" /\ pos[r].group = 1
  BY <1>1 DEF Begun
<1>5. ~Begun(r)
  BY <1>1 DEF Begun
<1>6. \A s \in Ranks : s # r => (Begun(s)' <=> Begun(s))
  BY <1>1 DEF Begun
<1>7. \A s \in Ranks : Begun(s)' => live'[s] = {}
  BY <1>4, <1>6, WorkOnLive DEF LiveSetsAgree
<1>8. ASSUME Sharded, comm' = "live",
             NEW s \in Alive', NEW t \in Alive', Begun(s)' <=> Begun(t)'
      PROVE  live'[s] = live'[t]
  <2>1. s \in Alive /\ t \in Alive /\ s \in Ranks /\ t \in Ranks /\ pos[s] = pos[t]
    BY <1>1, <1>8 DEF Alive, SameCall
  <2>2. CASE Begun(s)'
    BY <1>7, <1>8, <2>1, <2>2
  <2>3. CASE ~Begun(s)'
    <3>1. ~Begun(s) /\ ~Begun(t)
      BY <1>5, <1>6, <1>8, <2>1, <2>3
    <3>2. live[s] = live[t]
      BY <1>1, <1>8, <2>1, <3>1 DEF LiveSetsAgree
    <3>3. \A u \in {s, t} : live'[u] = live[u]
      BY <1>4, <1>8, <2>1, <2>3, WorkOnLive
    <3> QED BY <3>2, <3>3
  <2> QED BY <2>2, <2>3
<1>9. LiveSetsAgree'
  BY <1>7, <1>8 DEF LiveSetsAgree
<1> QED BY <1>2, <1>3, <1>9

(***************************************************************************)
(* The reduction.                                                          *)
(***************************************************************************)
LEMMA ReduceKeepsLockstep ==
  ASSUME Reduce, Lockstep
  PROVE  Lockstep' /\ \A r, s \in Ranks : pos'[r] = pos'[s]
<1> USE DEF Lockstep
<1>1. comm = "live" /\ comm' = "live" /\ entered = Ranks /\ entered' = {}
  BY DEF Reduce
<1>2. Alive = Ranks
  BY <1>1 DEF Shape, Over, Alive
<1>3. \A r, s \in Ranks : pos[r] = pos[s]
  BY <1>1, <1>2 DEF SameCall
<1>4. \A r, s \in Ranks : Sharded => live[r] = live[s]
  <2>1. \A r, s \in Ranks : Begun(r) <=> Begun(s)
    BY <1>1, <1>3 DEF Begun
  <2> QED BY <1>1, <1>2, <2>1 DEF LiveSetsAgree
<1>5. \A r, s \in Ranks : AnyFailure(r) <=> AnyFailure(s)
  BY DEF AnyFailure
<1>6. \A r \in Ranks : pos'[r] = IF AnyFailure(r) THEN Fail(pos[r], Sum)
                                 ELSE Succeed(pos[r], r, Sum)
  BY DEF Reduce
<1>7. \A r, s \in Ranks : pos'[r] = pos'[s]
  <2> SUFFICES ASSUME NEW r \in Ranks, NEW s \in Ranks PROVE pos'[r] = pos'[s]
    OBVIOUS
  <2>1. pos[r] = pos[s]
    BY <1>3
  <2>2. Succeed(pos[s], r, Sum) = Succeed(pos[s], s, Sum)
    BY <1>4, SameWay
  <2> QED BY <1>5, <1>6, <2>1, <2>2
<1>8. \A r, s \in Ranks : Sharded => live'[r] = live'[s]
  BY <1>3, <1>4, <1>5 DEF Reduce
<1>9. Shape'
  <2>1. \A r \in Ranks : Fields \subseteq DOMAIN pos'[r]
    <3> SUFFICES ASSUME NEW r \in Ranks PROVE Fields \subseteq DOMAIN pos'[r]
      OBVIOUS
    <3>1. DOMAIN Fail(pos[r], Sum) = DOMAIN pos[r]
      BY GoingOnKeepsFields
    <3>2. DOMAIN Succeed(pos[r], r, Sum) = DOMAIN pos[r]
      BY GoingOnKeepsFields
    <3> QED BY <1>6, <3>1, <3>2 DEF Shape
  <2>2. pos' = [r \in Ranks |-> pos'[r]] /\ live' = [r \in Ranks |-> live'[r]]
    BY DEF Reduce
  <2> QED BY <1>1, <2>1, <2>2 DEF Shape
<1>10. SameCall'
  BY <1>7 DEF SameCall, Alive
<1>11. LiveSetsAgree'
  BY <1>1, <1>8 DEF LiveSetsAgree, Begun, Alive
<1> QED BY <1>7, <1>9, <1>10, <1>11

(***************************************************************************)
(* Failures, signals, kills and the launcher.                              *)
(***************************************************************************)
LEMMA CommFailureKeepsLockstep ==
  ASSUME CommFails \/ Deadline, Lockstep PROVE Lockstep'
<1>1. pos' = pos /\ entered' = entered /\ live' = live /\ comm' = "dead"
  BY DEF CommFails, Deadline, memory
<1> QED BY <1>1 DEF Lockstep, Shape, SameCall, LiveSetsAgree, Begun, Over

LEMMA CommErrorKeepsLockstep ==
  ASSUME NEW r \in Ranks, CommError(r), Lockstep PROVE Lockstep'
<1>1. /\ pos' = [pos EXCEPT ![r] = Return(@, "terminal")]
      /\ entered' = entered \ {r} /\ live' = live
      /\ comm = "dead" /\ comm' = "dead"
  BY DEF CommError
<1>2. Shape'
  <2>1. pos' = [s \in Ranks |-> pos'[s]] /\ live' = [s \in Ranks |-> live'[s]]
    BY <1>1 DEF Lockstep, Shape
  <2>2. \A s \in Ranks : DOMAIN pos'[s] = DOMAIN pos[s]
    BY <1>1 DEF Return, Lockstep, Shape
  <2>3. \A s \in Ranks : s # r => pos'[s] = pos[s]
    BY <1>1 DEF Lockstep, Shape
  <2> QED BY <1>1, <2>1, <2>2, <2>3 DEF Lockstep, Shape, Over
<1>3. SameCall'
  BY <1>1 DEF SameCall
<1>4. \A s \in Ranks : Begun(s)' => Begun(s)
  BY <1>1 DEF Begun, Lockstep, Shape
<1>5. LiveSetsAgree'
  BY <1>1, <1>4 DEF Lockstep, LiveSetsAgree
<1> QED BY <1>2, <1>3, <1>5 DEF Lockstep

LEMMA SignalKeepsLockstep ==
  ASSUME NEW r \in Ranks, Signal(r), Lockstep PROVE Lockstep'
<1>1. UNCHANGED <<pos, entered, comm, live>>
  BY DEF Signal, world, memory
<1> QED BY <1>1 DEF Lockstep, Shape, SameCall, LiveSetsAgree, Begun, Over, Alive

LEMMA KillKeepsLockstep ==
  ASSUME NEW K \in SUBSET Ranks, Kill(K), Lockstep PROVE Lockstep'
<1>1. /\ pos' = [r \in Ranks |-> IF r \in K THEN Return(pos[r], "killed") ELSE pos[r]]
      /\ entered' = entered \ K /\ live' = live /\ comm' = comm
  BY DEF Kill, memory
<1>2. \A r \in Ranks \ K : pos'[r] = pos[r]
  BY <1>1
<1>3. \A r \in K : pos'[r].verdict = "killed"
  <2> SUFFICES ASSUME NEW r \in K PROVE pos'[r].verdict = "killed"
    OBVIOUS
  <2>1. pos'[r] = Return(pos[r], "killed")
    BY <1>1
  <2> QED BY <2>1 DEF Return, Lockstep, Shape, Fields
<1>4. Shape'
  <2>1. pos' = [s \in Ranks |-> pos'[s]] /\ live' = [s \in Ranks |-> live'[s]]
    BY <1>1 DEF Lockstep, Shape
  <2>2. \A s \in Ranks : DOMAIN pos'[s] = DOMAIN pos[s]
    BY <1>1 DEF Return, Lockstep, Shape
  <2> QED BY <1>1, <1>2, <2>1, <2>2 DEF Lockstep, Shape, Over
<1>5. Alive' \subseteq Alive \ K
  BY <1>2, <1>3 DEF Alive
<1>6. SameCall'
  BY <1>1, <1>2, <1>5 DEF Lockstep, SameCall, Alive
<1>7. \A r \in Ranks : Begun(r)' => r \notin K /\ Begun(r)
  BY <1>1, <1>2 DEF Begun
<1>8. \A r \in Alive' : Begun(r)' <=> Begun(r)
  BY <1>1, <1>2, <1>5 DEF Begun, Alive
<1>9. LiveSetsAgree'
  BY <1>1, <1>5, <1>7, <1>8 DEF Lockstep, LiveSetsAgree
<1> QED BY <1>4, <1>6, <1>9 DEF Lockstep

LEMMA RelaunchKeepsLockstep == ASSUME Relaunch, Lockstep PROVE Lockstep'
<1>1. /\ pos' = [r \in Ranks |-> Start] /\ entered' = {}
      /\ live' = [r \in Ranks |-> {}]
  BY DEF Relaunch
<1>2. Shape'
  BY <1>1 DEF Shape, Start, Fields
<1>3. SameCall' /\ LiveSetsAgree'
  BY <1>1 DEF SameCall, LiveSetsAgree, Begun, Alive
<1> QED BY <1>2, <1>3 DEF Lockstep

LEMMA StutterKeepsLockstep == ASSUME UNCHANGED vars, Lockstep PROVE Lockstep'
BY DEF vars, world, memory, Lockstep, Shape, SameCall, LiveSetsAgree, Begun, Over, Alive

\* No local failure, degenerate shard, flag or scan makes a rank leave the
\* sequence of collectives of its peers: coordinate_comm_result and its kin,
\* for any number of ranks.
THEOREM StaysInLockstep == Spec => []SameCall
<1>1. Init => Lockstep
  BY LockstepInit
<1>2. Lockstep /\ [Next]_vars => Lockstep'
  <2> SUFFICES ASSUME Lockstep, [Next]_vars PROVE Lockstep'
    OBVIOUS
  <2>1. ASSUME NEW r \in Ranks, LocalWork(r) PROVE Lockstep'
    BY <2>1, WorkKeepsLockstep
  <2>2. ASSUME NEW r \in Ranks, CommError(r) PROVE Lockstep'
    BY <2>2, CommErrorKeepsLockstep
  <2>3. ASSUME NEW r \in Ranks, Signal(r) PROVE Lockstep'
    BY <2>3, SignalKeepsLockstep
  <2>4. CASE Reduce
    BY <2>4, ReduceKeepsLockstep
  <2>5. CASE CommFails \/ Deadline
    BY <2>5, CommFailureKeepsLockstep
  <2>6. CASE Relaunch
    BY <2>6, RelaunchKeepsLockstep
  <2>7. CASE Finished
    BY <2>7, StutterKeepsLockstep DEF Finished
  <2>8. ASSUME NEW K \in {{r} : r \in Ranks} \cup {Ranks}, Kill(K) PROVE Lockstep'
    <3>1. K \in SUBSET Ranks
      BY <2>8
    <3> QED BY <2>8, <3>1, KillKeepsLockstep
  <2>9. CASE UNCHANGED vars
    BY <2>9, StutterKeepsLockstep
  <2> QED BY <2>1, <2>2, <2>3, <2>4, <2>5, <2>6, <2>7, <2>8, <2>9 DEF Next
<1>3. Lockstep => SameCall
  BY DEF Lockstep
<1> QED BY <1>1, <1>2, <1>3, PTL DEF Spec

(***************************************************************************)
(* What rank 0 publishes is the state of every rank.                       *)
(*                                                                         *)
(* Three things carry the proof.  The ranks are in the same call of the    *)
(* same window even when some are dead (SamePlace): nobody moves but in a  *)
(* reduction.  In a call that changes the policy, a rank that has done its *)
(* work and one that has not differ by exactly that work (After), unless   *)
(* the work failed.  And no call after a failure leads back into the run.  *)
(***************************************************************************)
Recovering == {"rollback", "unresume", "truncate"}

\* The policy once the work of the call of p is done.
Effect(q, p) ==
  CASE p.call = "apply" ->
         [[q EXCEPT !.updates = store[p.step].updates] EXCEPT !.sampled = store[p.step].sampled]
    [] p.call \in {"preflight", "materialize"} -> [q EXCEPT !.adapter = TRUE]
    [] p.call = "generate" -> [q EXCEPT !.sampled = @ + 1]
    [] p.call = "post" ->
         [q EXCEPT !.updates = Append(@, [step |-> p.step, epoch |-> p.epoch])]
    [] OTHER -> q

After(r) == IF r \in entered THEN policy[r] ELSE Effect(policy[r], pos[r])

\* r is in the run, and its work in this call has not failed.
Sound(r) ==
  /\ ~Over(r) /\ pos[r].call \notin Recovering
  /\ r \in entered => ~gives[r].failed

StateShape ==
  /\ policy = [r \in Ranks |-> policy[r]]
  /\ gives = [r \in Ranks |-> gives[r]]
  /\ store = [n \in 1..Steps |-> store[n]]

SamePlace ==
  \A r, s \in Ranks :
    pos[r].call = pos[s].call /\ pos[r].step = pos[s].step /\ pos[r].epoch = pos[s].epoch

WorldAgrees ==
  /\ \A r, s \in Ranks : Sound(r) /\ Sound(s) => After(r) = After(s)
  /\ \A r, s \in Ranks : pos[r].call = "publish" => policy[r] = policy[s]

World == Lockstep /\ StateShape /\ SamePlace /\ WorldAgrees

LEMMA WorldInit == ASSUME Init PROVE World
<1>1. Lockstep
  BY LockstepInit
<1>2. StateShape
  BY DEF Init, Boot, StateShape
<1>3. SamePlace
  BY DEF Init, Boot, SamePlace
<1>4. WorldAgrees
  <2>1. \A r, s \in Ranks : pos[r] = pos[s] /\ policy[r] = policy[s] /\ r \notin entered
    BY DEF Init, Boot
  <2>2. \A r, s \in Ranks : After(r) = After(s)
    <3> SUFFICES ASSUME NEW r \in Ranks, NEW s \in Ranks PROVE After(r) = After(s)
      OBVIOUS
    <3>1. pos[r] = pos[s] /\ policy[r] = policy[s] /\ r \notin entered /\ s \notin entered
      BY <2>1
    <3> QED BY <3>1 DEF After
  <2> QED BY <2>1, <2>2 DEF WorldAgrees
<1> QED BY <1>1, <1>2, <1>3, <1>4 DEF World

\* The work of a rank touches only its own policy and contribution, and the
\* policy is what After says unless the work failed or is a recovery.
LEMMA WorkOnPolicy ==
  ASSUME NEW r \in Ranks, LocalWork(r), StateShape
  PROVE  /\ policy' = [s \in Ranks |-> policy'[s]]
         /\ gives' = [s \in Ranks |-> gives'[s]]
         /\ store' = [n \in 1..Steps |-> store'[n]]
         /\ \A s \in Ranks : s # r => policy'[s] = policy[s] /\ gives'[s] = gives[s]
         /\ pos[r].call # "publish" => store' = store
         /\ pos[r].call = "publish" => policy' = policy /\ PublishCheckpoint(r)
         /\ pos[r].call \notin Recovering /\ ~gives'[r].failed => policy'[r] = After(r)
<1> DEFINE Goal ==
         /\ policy' = [s \in Ranks |-> policy'[s]]
         /\ gives' = [s \in Ranks |-> gives'[s]]
         /\ store' = [n \in 1..Steps |-> store'[n]]
         /\ \A s \in Ranks : s # r => policy'[s] = policy[s] /\ gives'[s] = gives[s]
         /\ pos[r].call # "publish" => store' = store
         /\ pos[r].call = "publish" => policy' = policy /\ PublishCheckpoint(r)
         /\ pos[r].call \notin Recovering /\ ~gives'[r].failed => policy'[r] = After(r)
<1> SUFFICES Goal
  OBVIOUS
<1>1. ASSUME policy' = policy, store' = store, r \notin entered,
             pos[r].call \notin {"apply", "preflight", "materialize", "generate", "post",
                                 "publish"},
             NEW bad, NEW v, gives' = [gives EXCEPT ![r] = [failed |-> bad, value |-> v]]
      PROVE  Goal
  BY <1>1 DEF StateShape, After, Effect
<1>2. CASE Check(r)
  BY <1>1, <1>2 DEF Check, At, Checks, Join, Enter, memory, disk
<1>3. CASE AnnouncePublication(r)
  BY <1>1, <1>3 DEF AnnouncePublication, At, Join, Enter, memory, disk
<1>4. CASE CapturePrestate(r)
  BY <1>1, <1>4 DEF CapturePrestate, At, Join, Enter, disk
<1>5. CASE ScanLocalResume(r)
  BY <1>1, <1>5 DEF ScanLocalResume, At, Join, Enter, memory, disk
<1>6. CASE ApplyCheckpoint(r)
  BY <1>6 DEF ApplyCheckpoint, At, Join, Enter, disk, StateShape, After, Effect
<1>7. CASE RollbackResume(r)
  BY <1>7 DEF RollbackResume, Restore, At, Join, Enter, disk, StateShape, Recovering
<1>8. CASE RollbackGroups(r)
  BY <1>8 DEF RollbackGroups, Restore, At, Join, Enter, disk, StateShape, Recovering
<1>9. CASE SnapshotWindow(r)
  BY <1>1, <1>9 DEF SnapshotWindow, At, Join, Enter, disk
<1>10. CASE PreflightGroup(r)
  BY <1>10 DEF PreflightGroup, At, Join, Enter, disk, StateShape, After, Effect
<1>11. CASE Generate(r)
  BY <1>11 DEF Generate, At, Join, Enter, disk, StateShape, After, Effect
<1>12. CASE ScoreGroup(r)
  BY <1>1, <1>12 DEF ScoreGroup, At, Join, Enter, disk
<1>13. CASE BroadcastRewards(r)
  BY <1>1, <1>13 DEF BroadcastRewards, At, Join, Enter, memory, disk
<1>14. CASE MaterializeGroup(r)
  BY <1>14 DEF MaterializeGroup, At, Join, Enter, disk, StateShape, After, Effect
<1>15. CASE CandidateBoundary(r)
  BY <1>1, <1>15 DEF CandidateBoundary, At, Join, Enter, disk
<1>16. CASE AppendCandidates(r)
  BY <1>1, <1>16 DEF AppendCandidates, At, Join, Enter, memory
<1>17. CASE TruncateCandidates(r)
  BY <1>1, <1>17 DEF TruncateCandidates, At, Join, Enter, memory
<1>18. CASE CountWindow(r)
  BY <1>1, <1>18 DEF CountWindow, At, Join, Enter, memory, disk
<1>19. CASE ReduceEpoch(r)
  BY <1>1, <1>19 DEF ReduceEpoch, At, Join, Enter, memory, disk
<1>20. CASE StepOptimizer(r)
  BY <1>20 DEF StepOptimizer, At, Join, Enter, disk, StateShape, After, Effect
<1>21. CASE AppendMetrics(r)
  BY <1>1, <1>21 DEF AppendMetrics, At, Join, Enter, memory
<1>22. CASE PublishCheckpoint(r)
  BY <1>22 DEF PublishCheckpoint, At, Join, Enter, memory, StateShape, After, Effect
<1>23. CASE PollPreemption(r)
  BY <1>1, <1>23 DEF PollPreemption, At, Join, Enter, memory, disk
<1> HIDE DEF Goal
<1> QED BY <1>2, <1>3, <1>4, <1>5, <1>6, <1>7, <1>8, <1>9, <1>10, <1>11, <1>12,
           <1>13, <1>14, <1>15, <1>16, <1>17, <1>18, <1>19, <1>20, <1>21, <1>22,
           <1>23, Zenon DEF LocalWork

\* The work of a rank makes no rank sound, and leaves what After says alone.
LEMMA WorkKeepsAfter ==
  ASSUME NEW r \in Ranks, LocalWork(r), World,
         NEW s \in Ranks, Sound(s)'
  PROVE  Sound(s) /\ After(s)' = After(s)
<1> USE DEF World
<1>1. /\ pos' = pos /\ comm' = comm
      /\ ~Over(r) /\ r \notin entered /\ entered' = entered \cup {r}
  BY WorkEnters
<1>2. CASE s = r
  <2>1. Sound(s)
    BY <1>1, <1>2 DEF Sound, Over
  <2>2. policy'[r] = After(r)
    BY <1>1, <1>2, WorkOnPolicy DEF Sound
  <2> QED BY <1>1, <1>2, <2>1, <2>2 DEF After, Effect
<1>3. CASE s # r
  <2>1. gives'[s] = gives[s] /\ policy'[s] = policy[s] /\ (s \in entered' <=> s \in entered)
    BY <1>1, <1>3, WorkOnPolicy
  <2>2. Sound(s)
    BY <1>1, <2>1 DEF Sound, Over
  <2>3. pos[s].call = "apply" => store' = store
    BY WorkOnPolicy DEF SamePlace
  <2> QED BY <1>1, <2>1, <2>2, <2>3 DEF After, Effect
<1> QED BY <1>2, <1>3

LEMMA WorkKeepsWorld ==
  ASSUME NEW r \in Ranks, LocalWork(r), World
  PROVE  World'
<1> USE DEF World
<1>1. /\ pos' = pos /\ comm' = comm
      /\ ~Over(r) /\ r \notin entered /\ entered' = entered \cup {r}
  BY WorkEnters
<1>2. StateShape'
  BY WorkOnPolicy DEF StateShape
<1>3. SamePlace'
  BY <1>1 DEF SamePlace
<1>4. \A s \in Ranks : Sound(s)' => Sound(s) /\ After(s)' = After(s)
  BY WorkKeepsAfter
<1>5. ASSUME NEW s \in Ranks, NEW t \in Ranks, pos'[s].call = "publish"
      PROVE  policy'[s] = policy'[t]
  BY <1>1, <1>5, WorkOnPolicy DEF SamePlace, WorldAgrees
<1>6. WorldAgrees'
  BY <1>4, <1>5 DEF WorldAgrees
<1> QED BY <1>2, <1>3, <1>6, WorkKeepsLockstep

\* No call leads from a recovery, or from a failure, back into the run.
LEMMA NoWayBack ==
  ASSUME NEW p, NEW r, NEW x, Fields \subseteq DOMAIN p, p.verdict = "none"
  PROVE  /\ Fail(p, x).verdict # "none" \/ Fail(p, x).call \in Recovering
         /\ Fail(p, x).call = "publish" => p.call = "publish"
         /\ p.call \in Recovering =>
              /\ Succeed(p, r, x).verdict # "none" \/ Succeed(p, r, x).call \in Recovering
              /\ Succeed(p, r, x).call # "publish"
<1>1. \A c : /\ Goto(p, c).call = c /\ Return(p, c).verdict = c
             /\ Return(p, c).call = p.call
  BY DEF Goto, Return, Fields
<1>2. /\ Fail(p, x).verdict # "none" \/ Fail(p, x).call \in Recovering
      /\ Fail(p, x).call = "publish" => p.call = "publish"
  BY <1>1 DEF Fail, Recovering
<1>3. ASSUME p.call \in Recovering
      PROVE  /\ Succeed(p, r, x).verdict # "none" \/ Succeed(p, r, x).call \in Recovering
             /\ Succeed(p, r, x).call # "publish"
  <2>1. p.call = "truncate" => Succeed(p, r, x) = Goto(p, "rollback")
    BY DEF Succeed
  <2>2. p.call \in {"rollback", "unresume"} => Succeed(p, r, x) = Return(p, "restored")
    BY DEF Succeed
  <2> QED BY <1>1, <1>3, <2>1, <2>2 DEF Recovering
<1> QED BY <1>2, <1>3

LEMMA ReduceKeepsWorld == ASSUME Reduce, World PROVE World'
<1> USE DEF World
<1>1. /\ comm = "live" /\ entered = Ranks /\ entered' = {}
      /\ policy' = policy /\ store' = store /\ gives' = gives
  BY DEF Reduce, disk
<1>2. Lockstep'
  BY ReduceKeepsLockstep
<1>3. \A r \in Ranks : ~Over(r)
  BY <1>1 DEF Lockstep, Shape
<1>4. \A r, s \in Ranks : pos[r] = pos[s]
  BY <1>1, <1>3 DEF Lockstep, SameCall, Alive, Over
<1>5. \A r \in Ranks : pos'[r] = IF AnyFailure(r) THEN Fail(pos[r], Sum)
                                 ELSE Succeed(pos[r], r, Sum)
  BY DEF Reduce
<1>6. \A r, s \in Ranks : AnyFailure(r) <=> AnyFailure(s)
  BY DEF AnyFailure
<1>7. \A r, s \in Ranks : pos'[r] = pos'[s]
  BY ReduceKeepsLockstep
<1>8. SamePlace'
  BY <1>7 DEF SamePlace
<1>9. \A r \in Ranks : AnyFailure(r) \/ pos[r].call \in Recovering =>
        /\ ~Sound(r)'
        /\ pos'[r].call = "publish" => pos[r].call = "publish"
  <2> SUFFICES ASSUME NEW r \in Ranks, AnyFailure(r) \/ pos[r].call \in Recovering
               PROVE  /\ ~Sound(r)'
                      /\ pos'[r].call = "publish" => pos[r].call = "publish"
    OBVIOUS
  <2>1. Fields \subseteq DOMAIN pos[r] /\ pos[r].verdict = "none"
    BY <1>3 DEF Lockstep, Shape, Over
  <2>2. pos'[r].verdict # "none" \/ pos'[r].call \in Recovering
    BY <1>5, <2>1, NoWayBack
  <2>3. pos'[r].call = "publish" => pos[r].call = "publish"
    BY <1>5, <2>1, NoWayBack
  <2> QED BY <2>2, <2>3 DEF Sound, Over, Recovering
<1>10. ASSUME NEW r \in Ranks, NEW s \in Ranks, ~AnyFailure(r), pos[r].call \notin Recovering
       PROVE  policy[r] = policy[s]
  <2>1. Sound(r) /\ Sound(s)
    BY <1>1, <1>3, <1>4, <1>10 DEF Sound, AnyFailure
  <2> QED BY <1>1, <2>1 DEF WorldAgrees, After, Effect
<1>11. ASSUME NEW r \in Ranks, NEW s \in Ranks, Sound(r)', Sound(s)'
       PROVE  After(r)' = After(s)'
  <2>1. policy[r] = policy[s]
    BY <1>9, <1>10, <1>11
  <2> QED BY <1>1, <1>7, <2>1 DEF After, Effect
<1>12. ASSUME NEW r \in Ranks, NEW s \in Ranks, pos'[r].call = "publish"
       PROVE  policy'[r] = policy'[s]
  BY <1>1, <1>9, <1>10, <1>12 DEF WorldAgrees
<1>13. WorldAgrees'
  BY <1>11, <1>12 DEF WorldAgrees
<1>14. StateShape'
  BY <1>1 DEF StateShape
<1> QED BY <1>2, <1>8, <1>13, <1>14

\* A rank that leaves the run stays in the place where it was.
LEMMA LeavingKeepsWorld ==
  ASSUME World, Lockstep', StateShape',
         store' = store, gives' = gives, NEW K \in SUBSET Ranks,
         \A r \in Ranks \ K : pos'[r] = pos[r] /\ policy'[r] = policy[r],
         \A r \in K : \E v : pos'[r] = Return(pos[r], v) /\ v # "none",
         \A r \in K : pos[r].call = "publish" => policy'[r] = policy[r],
         entered' = entered \ K
  PROVE  World'
<1>1. \A r \in Ranks : /\ pos'[r].call = pos[r].call /\ pos'[r].step = pos[r].step
                       /\ pos'[r].epoch = pos[r].epoch
  BY DEF Return, World, Lockstep, Shape, Fields
<1>2. SamePlace'
  BY <1>1 DEF World, SamePlace
<1>3. \A r \in Ranks : Sound(r)' => r \notin K /\ Sound(r) /\ After(r)' = After(r)
  <2> SUFFICES ASSUME NEW r \in Ranks, Sound(r)'
               PROVE  r \notin K /\ Sound(r) /\ After(r)' = After(r)
    OBVIOUS
  <2>1. r \notin K
    <3>1. \A v : Return(pos[r], v).verdict = v
      BY DEF Return, World, Lockstep, Shape, Fields
    <3> QED BY <3>1 DEF Sound, Over
  <2> QED BY <2>1 DEF Sound, Over, After, Effect
<1>4. \A r, s \in Ranks : pos'[r].call = "publish" => policy'[r] = policy'[s]
  BY <1>1 DEF World, WorldAgrees, SamePlace
<1>5. WorldAgrees'
  BY <1>3, <1>4 DEF World, WorldAgrees
<1> QED BY <1>2, <1>5 DEF World

\* Publication is no part of the transactions that are rolled back.
LEMMA PublishIsNotRolledBack ==
  ASSUME NEW p, p.call = "publish" PROVE ~InResume(p) /\ ~InCollection(p)
BY Transactions DEF Loading, Preparing, Grouping, Asking, Scored, Recording

LEMMA CommErrorKeepsWorld ==
  ASSUME NEW r \in Ranks, CommError(r), World PROVE World'
<1>1. /\ pos' = [pos EXCEPT ![r] = Return(@, "terminal")]
      /\ entered' = entered \ {r} /\ gives' = gives /\ store' = store
  BY DEF CommError
<1>2. StateShape' /\ \A s \in Ranks : s # r => policy'[s] = policy[s]
  BY DEF CommError, World, StateShape
<1>3. pos[r].call = "publish" => policy' = policy
  BY PublishIsNotRolledBack DEF CommError
<1>4. \A s \in Ranks \ {r} : pos'[s] = pos[s]
  BY <1>1 DEF World, Lockstep, Shape
<1>5. \A s \in {r} : \E v : pos'[s] = Return(pos[s], v) /\ v # "none"
  <2>1. pos'[r] = Return(pos[r], "terminal")
    BY <1>1 DEF World, Lockstep, Shape
  <2> QED BY <2>1
<1>6. Lockstep'
  BY CommErrorKeepsLockstep DEF World
<1>7. \A s \in {r} : pos[s].call = "publish" => policy'[s] = policy[s]
  BY <1>3
<1>8. \A s \in Ranks \ {r} : pos'[s] = pos[s] /\ policy'[s] = policy[s]
  BY <1>2, <1>4
<1> QED BY <1>1, <1>2, <1>5, <1>6, <1>7, <1>8, LeavingKeepsWorld

LEMMA KillKeepsWorld ==
  ASSUME NEW K \in SUBSET Ranks, Kill(K), World PROVE World'
<1>1. /\ pos' = [r \in Ranks |-> IF r \in K THEN Return(pos[r], "killed") ELSE pos[r]]
      /\ entered' = entered \ K /\ gives' = gives /\ store' = store /\ policy' = policy
  BY DEF Kill, memory
<1>2. Lockstep' /\ StateShape'
  BY <1>1, KillKeepsLockstep DEF World, StateShape
<1>3. \A r \in K : \E v : pos'[r] = Return(pos[r], v) /\ v # "none"
  <2>1. \A r \in K : pos'[r] = Return(pos[r], "killed")
    BY <1>1
  <2> QED BY <2>1
<1>4. \A r \in Ranks \ K : pos'[r] = pos[r] /\ policy'[r] = policy[r]
  BY <1>1
<1> QED BY <1>1, <1>2, <1>3, <1>4, LeavingKeepsWorld

LEMMA SameMemoryKeepsWorld ==
  ASSUME UNCHANGED <<pos, entered, gives, policy, store>>, World, Lockstep' PROVE World'
<1>1. StateShape' /\ SamePlace'
  BY DEF World, StateShape, SamePlace
<1>2. \A r \in Ranks : (Sound(r)' <=> Sound(r)) /\ After(r)' = After(r)
  BY DEF Sound, After, Effect, Over
<1>3. WorldAgrees'
  BY <1>2 DEF World, WorldAgrees
<1> QED BY <1>1, <1>3 DEF World

LEMMA RelaunchKeepsWorld == ASSUME Relaunch, World PROVE World'
<1>1. /\ pos' = [r \in Ranks |-> Start] /\ entered' = {} /\ store' = store
      /\ gives' = [r \in Ranks |-> Nothing]
      /\ policy' = [r \in Ranks |-> FreshPolicy]
  BY DEF Relaunch, disk
<1>2. Lockstep'
  BY RelaunchKeepsLockstep DEF World
<1>3. StateShape' /\ SamePlace'
  BY <1>1 DEF World, StateShape, SamePlace
<1>4. \A r, s \in Ranks : pos'[r] = pos'[s] /\ policy'[r] = policy'[s]
  BY <1>1
<1>5. WorldAgrees'
  BY <1>1, <1>4 DEF WorldAgrees, After, Effect
<1> QED BY <1>2, <1>3, <1>5 DEF World

LEMMA NextKeepsWorld == ASSUME World, [Next]_vars PROVE World'
<1>1. ASSUME NEW r \in Ranks, LocalWork(r) PROVE World'
  BY <1>1, WorkKeepsWorld
<1>2. ASSUME NEW r \in Ranks, CommError(r) PROVE World'
  BY <1>2, CommErrorKeepsWorld
<1>3. ASSUME NEW r \in Ranks, Signal(r) PROVE World'
  <2>1. UNCHANGED <<pos, entered, gives, policy, store>>
    BY <1>3 DEF Signal, world, memory, disk
  <2>2. Lockstep'
    BY <1>3, SignalKeepsLockstep DEF World
  <2> QED BY <2>1, <2>2, SameMemoryKeepsWorld
<1>4. CASE Reduce
  BY <1>4, ReduceKeepsWorld
<1>5. CASE CommFails \/ Deadline
  <2>1. UNCHANGED <<pos, entered, gives, policy, store>>
    BY <1>5 DEF CommFails, Deadline, memory, disk
  <2>2. Lockstep'
    BY <1>5, CommFailureKeepsLockstep DEF World
  <2> QED BY <2>1, <2>2, SameMemoryKeepsWorld
<1>6. CASE Relaunch
  BY <1>6, RelaunchKeepsWorld
<1>7. CASE UNCHANGED vars
  <2>1. UNCHANGED <<pos, entered, gives, policy, store>>
    BY <1>7 DEF vars, world, memory, disk
  <2>2. Lockstep'
    BY <1>7, StutterKeepsLockstep DEF World
  <2> QED BY <2>1, <2>2, SameMemoryKeepsWorld
<1>8. CASE Finished
  BY <1>7, <1>8 DEF Finished
<1>9. ASSUME NEW K \in {{r} : r \in Ranks} \cup {Ranks}, Kill(K) PROVE World'
  <2>1. K \in SUBSET Ranks
    BY <1>9
  <2> QED BY <1>9, <2>1, KillKeepsWorld
<1> QED BY <1>1, <1>2, <1>3, <1>4, <1>5, <1>6, <1>7, <1>8, <1>9 DEF Next

\* Whatever rank 0 publishes as step n is the policy of every rank of the
\* world: write_checkpoint saves the primary's copy only, and this is why that
\* copy is enough.
THEOREM PublishesForTheWorld == Spec => PublishesTheWorldsState
<1>1. Init => World
  BY WorldInit
<1>2. World /\ [Next]_vars => World'
  BY NextKeepsWorld
<1>3. ASSUME World, [Next]_vars
      PROVE  [\A n \in 1..Steps : store'[n] # store[n] =>
                \A r \in Ranks : policy[r] = store'[n]]_vars
  <2>1. SUFFICES ASSUME Next, NEW n \in 1..Steps, store'[n] # store[n], NEW r \in Ranks
                 PROVE  policy[r] = store'[n]
    BY <1>3
  <2>2. PICK s \in Ranks : LocalWork(s)
    <3>1. ASSUME NEW s \in Ranks, CommError(s) \/ Signal(s) PROVE store' = store
      BY <3>1 DEF CommError, Signal, disk
    <3>2. Reduce \/ CommFails \/ Deadline \/ Relaunch \/ Finished => store' = store
      BY DEF Reduce, CommFails, Deadline, Relaunch, Finished, vars, disk
    <3>3. ASSUME NEW K, Kill(K) PROVE store' = store
      BY <3>3 DEF Kill
    <3> QED BY <2>1, <3>1, <3>2, <3>3 DEF Next
  <2>3. pos[s].call = "publish" /\ PublishCheckpoint(s)
    BY <1>3, <2>1, <2>2, WorkOnPolicy DEF World
  <2>4. store' = [store EXCEPT ![pos[s].step + 1] = policy[s]]
    BY <2>1, <2>3 DEF PublishCheckpoint
  <2>5. store'[n] = policy[s]
    BY <1>3, <2>1, <2>4 DEF World, StateShape
  <2> QED BY <1>3, <2>1, <2>3, <2>5 DEF World, WorldAgrees, SamePlace
<1> QED BY <1>1, <1>2, <1>3, PTL DEF Spec, PublishesTheWorldsState
(***************************************************************************)
(* Positions, and where they lead.                                         *)
(***************************************************************************)
AllFields == {"call", "step", "group", "epoch", "resumed", "stop", "verdict"}

Counting == {"tokens", "livecount"}
Training == {"backward", "reduction", "post", "idle"}
InWindow == {"snapshot", "materialize", "metrics", "poll"} \cup Grouping \cup Recording
            \cup Counting \cup Training \cup Saving

\* A position that the program can be in.
Place(p) ==
  /\ AllFields \subseteq DOMAIN p
  /\ p.step \in 0..Steps /\ p.group \in 0..Accum /\ p.epoch \in 0..Mu
  /\ p.call \in Looking \cup Loading \cup Preparing \cup InWindow \cup Recovering
  /\ p.call \in Looking => p.step = 0 /\ p.resumed # TRUE
  /\ p.call \in Loading => p.resumed = TRUE
  /\ p.call \in Preparing => p.resumed = TRUE \/ p.step = 0
  /\ p.resumed = TRUE => p.step > 0
  /\ p.call \in InWindow /\ p.verdict # "completed" => p.step < Steps
  /\ p.call \in Grouping \cup Recording \cup {"materialize"} => p.group > 0
  /\ p.call \in Recording => LogCandidates
  /\ p.call \in Training => p.epoch > 0
  /\ p.stop = TRUE => p.call \in Saving /\ p.step + 1 < Steps

LEMMA FieldsGo ==
  ASSUME NEW p, AllFields \subseteq DOMAIN p, NEW c
  PROVE  /\ AllFields \subseteq DOMAIN Goto(p, c)
         /\ Goto(p, c).call = c /\ Goto(p, c).step = p.step /\ Goto(p, c).group = p.group
         /\ Goto(p, c).epoch = p.epoch /\ Goto(p, c).resumed = p.resumed
         /\ Goto(p, c).stop = p.stop /\ Goto(p, c).verdict = p.verdict
BY DEF Goto, AllFields

LEMMA FieldsReturn ==
  ASSUME NEW p, AllFields \subseteq DOMAIN p, NEW v
  PROVE  /\ AllFields \subseteq DOMAIN Return(p, v)
         /\ Return(p, v).verdict = v /\ Return(p, v).call = p.call
         /\ Return(p, v).step = p.step /\ Return(p, v).group = p.group
         /\ Return(p, v).epoch = p.epoch /\ Return(p, v).resumed = p.resumed
         /\ Return(p, v).stop = p.stop
BY DEF Return, AllFields

\* Every group of the window is collected and, where it has to be, materialized.
Full(p) ==
  \/ p.call = "append"
  \/ p.call = "materialize" /\ (LogCandidates \/ p.group = Accum)
  \/ p.call = "finalize" /\ ~LogCandidates /\ p.group = Accum

\* One call leads to another, and nothing else changes.
Link(p, c) ==
  \/ p.call \in Looking \ {"discover"} /\ c \in Looking \ {"capture", "identity"}
  \/ p.call \in Loading \ {"apply"} /\ c \in Loading \ {"capture"}
  \/ p.call \in {"apply"} \cup (Preparing \ {"optimizer"}) /\ c \in Preparing
  \/ p.call \in {"preflight", "request"} /\ c \in Asking
  \/ p.call \in {"generate"} \cup Scored /\ c \in Scored
  \/ p.call = "finalize" /\ ~LogCandidates /\ c = "materialize"
  \/ p.call = "finalize" /\ LogCandidates /\ p.group = Accum /\ c = "boundary"
  \/ p.call = "boundary" /\ c = "append"
  \/ Full(p) /\ c \in {"tokens", "metrics"}
  \/ p.call = "tokens" /\ c = "livecount"
  \/ p.call \in {"backward", "reduction"} /\ c \in {"reduction", "post", "idle"}
  \/ p.call \in {"livecount", "post", "idle"} /\ c = "metrics"
  \/ p.call = "metrics" /\ (c = "rebind" \/ (c = "poll" /\ ~Due(p.step + 1)))
  \/ p.call = "rebind" /\ c = "state"
  \/ p.call = "state" /\ c = "publish"
  \/ p.call = "publish" /\ p.stop # TRUE /\ c = "poll"

\* The run goes on in the window of the step, or has done them all.
Enters(p, q) ==
  /\ q.group \in 0..Accum /\ q.resumed = p.resumed /\ q.stop = p.stop
  /\ \/ q.verdict = "completed" /\ q.call = p.call /\ q.step = Steps
     \/ q.verdict = "none" /\ q.step # Steps /\ LogCandidates /\ q.call = "preflight" /\ q.group = 1
     \/ q.verdict = "none" /\ q.step # Steps /\ ~LogCandidates /\ q.call = "snapshot"

Stays(p, q) == q.step = p.step /\ q.resumed = p.resumed /\ q.stop = p.stop /\ q.verdict = "none"

Links(p, q) == Stays(p, q) /\ q.group = p.group /\ q.epoch = p.epoch /\ Link(p, q.call)

Collects(p, q) ==
  /\ Stays(p, q) /\ q.epoch = p.epoch /\ q.group \in 1..Accum /\ q.call = "preflight"
  /\ \/ p.call = "snapshot" /\ q.group = 1
     \/ p.call = "finalize" /\ q.group = p.group + 1
     \/ p.call = "materialize" /\ ~LogCandidates /\ q.group = p.group + 1

Materializes(p, q) ==
  /\ Stays(p, q) /\ q.epoch = p.epoch /\ q.group \in 1..Accum /\ q.call = "materialize"
  /\ LogCandidates /\ p.call \in {"append", "materialize"}

Trains(p, q) ==
  /\ Stays(p, q) /\ q.group = p.group /\ q.call = "backward"
  /\ p.epoch < Mu /\ q.epoch = p.epoch + 1
  /\ Full(p) \/ p.call \in {"livecount", "post", "idle"}

Preempts(p, q) ==
  /\ p.call = "poll" /\ p.step + 1 < Steps /\ q.call = "rebind" /\ q.stop = TRUE
  /\ q.step = p.step /\ q.group = p.group /\ q.epoch = p.epoch /\ q.resumed = p.resumed
  /\ q.verdict = "none"

Branches(p, q, x) ==
  /\ p.call = "discover" /\ q.group = p.group /\ q.epoch = p.epoch /\ q.stop = p.stop
  /\ q.verdict = "none"
  /\ \/ x = 0 /\ q.call \in Preparing /\ q.step = p.step /\ q.resumed = p.resumed
     \/ x # 0 /\ q.call = Head(LoadResumePoint) /\ q.step = x - 1 /\ q.resumed = TRUE

Opens(p, q) == p.call = "optimizer" /\ q.step = p.step /\ q.epoch = p.epoch /\ Enters(p, q)
StepsOn(p, q) == p.call = "poll" /\ q.step = p.step + 1 /\ q.epoch = 0 /\ Enters(p, q)

Yields(p, q) ==
  /\ p.call = "publish" /\ p.stop = TRUE /\ q.verdict = "preempted" /\ q.call = p.call
  /\ q.step = p.step /\ q.group = p.group /\ q.epoch = p.epoch /\ q.resumed = p.resumed
  /\ q.stop = p.stop

Flow(p, q, x) ==
  \/ Links(p, q) \/ Collects(p, q) \/ Materializes(p, q) \/ Trains(p, q)
  \/ Preempts(p, q) \/ Branches(p, q, x) \/ Opens(p, q) \/ StepsOn(p, q) \/ Yields(p, q)

LEMMA GotoLinks ==
  ASSUME NEW p, AllFields \subseteq DOMAIN p, p.verdict = "none", NEW c, Link(p, c)
  PROVE  Links(p, Goto(p, c))
BY FieldsGo DEF Links, Stays

LEMMA EpochFlows ==
  ASSUME NEW p, Place(p), p.verdict = "none", NEW x,
         Full(p) \/ p.call \in {"livecount", "post", "idle"}
  PROVE  Flow(p, Epoch(p), x)
<1>1. CASE p.epoch < Mu
  <2>1. Epoch(p) = [p EXCEPT !.call = "backward", !.epoch = @ + 1]
    BY <1>1 DEF Epoch
  <2>2. Trains(p, Epoch(p))
    BY <1>1, <2>1 DEF Trains, Stays, Place, AllFields
  <2> QED BY <2>2 DEF Flow
<1>2. CASE ~(p.epoch < Mu)
  BY <1>2, GotoLinks DEF Epoch, Flow, Link, Place
<1> QED BY <1>1, <1>2

LEMMA CollectedFlows ==
  ASSUME NEW p, Place(p), p.verdict = "none", NEW x, NEW r, Full(p)
  PROVE  Flow(p, Collected(p, r), x)
<1>1. Link(p, "tokens") /\ Link(p, "metrics")
  BY DEF Link
<1>2. Flow(p, Goto(p, "tokens"), x) /\ Flow(p, Goto(p, "metrics"), x)
  BY <1>1, GotoLinks DEF Flow, Place
<1> QED BY <1>2, EpochFlows DEF Collected, Update

LEMMA WindowEnters ==
  ASSUME NEW p, NEW q, AllFields \subseteq DOMAIN q, q.verdict = "none", q.call = p.call, q.group \in 0..Accum,
         q.resumed = p.resumed, q.stop = p.stop
  PROVE  /\ Enters(p, Window(q)) /\ Window(q).step = q.step /\ Window(q).epoch = q.epoch
         /\ AllFields \subseteq DOMAIN Window(q)
<1>0. Accum \in Nat \ {0}
  BY RunAssumption
<1>1. CASE q.step = Steps
  BY <1>1, FieldsReturn DEF Window, Enters
<1>2. CASE q.step # Steps /\ LogCandidates
  <2>1. Window(q) = [q EXCEPT !.call = "preflight", !.group = 1]
    BY <1>2 DEF Window
  <2> QED BY <1>0, <1>2, <2>1 DEF Enters, AllFields
<1>3. CASE q.step # Steps /\ ~LogCandidates
  BY <1>3, FieldsGo DEF Window, Enters
<1> QED BY <1>1, <1>2, <1>3

\* The calls that lead to the next call of their straight line.
Plain == ((Looking \cup Loading \cup Preparing \cup Grouping \cup Saving)
            \ {"discover", "apply", "publication", "optimizer", "finalize", "publish"})
         \cup {"boundary", "backward"}

LEMMA PlainLinks ==
  ASSUME NEW p, p.call \in Plain
  PROVE  Link(p, Following(p.call))
<1>1. CASE Sharded
  <2>1. p.call \in {"capture", "validate", "binding", "payload", "contract", "rebinding", "vars",
                    "preflight", "request", "generate", "decode", "reward", "canonical", "result",
                    "boundary", "backward", "rebind", "state"}
    BY <1>1 DEF Plain, Looking, Loading, Preparing, Grouping, Asking, Scored, Saving
  <2>2. p.call \in {"capture", "validate"} => Link(p, Following(p.call))
    BY <1>1, FollowingWhenSharded DEF Link, Looking
  <2>3. p.call \in {"binding", "payload"} => Link(p, Following(p.call))
    BY <1>1, FollowingWhenSharded DEF Link, Loading
  <2>4. p.call \in {"contract", "publication", "rebinding", "vars"} => Link(p, Following(p.call))
    BY <1>1, FollowingWhenSharded DEF Link, Preparing
  <2>5. p.call \in {"preflight", "request"} => Link(p, Following(p.call))
    BY <1>1, FollowingWhenSharded DEF Link, Asking
  <2>6. p.call \in {"generate", "decode", "reward", "canonical", "result"}
          => Link(p, Following(p.call))
    BY <1>1, FollowingWhenSharded DEF Link, Scored
  <2>7. p.call \in {"boundary", "backward", "rebind", "state"} => Link(p, Following(p.call))
    BY <1>1, FollowingWhenSharded DEF Link
  <2> QED BY <2>1, <2>2, <2>3, <2>4, <2>5, <2>6, <2>7
<1>2. CASE ~Sharded
  <2>1. p.call \in {"identity", "capture", "binding", "payload", "reidentity", "rebinding", "vars",
                    "schema", "preflight", "generate", "decode", "reward", "result",
                    "boundary", "backward", "rebind", "state"}
    BY <1>2 DEF Plain, Looking, Loading, Preparing, Grouping, Asking, Scored, Saving
  <2>2. p.call = "identity" => Link(p, Following(p.call))
    BY <1>2, FollowingWhenNotSharded DEF Link, Looking
  <2>3. p.call \in {"capture", "binding", "payload"} => Link(p, Following(p.call))
    BY <1>2, FollowingWhenNotSharded DEF Link, Loading
  <2>4. p.call \in {"reidentity", "rebinding", "vars", "schema"} => Link(p, Following(p.call))
    BY <1>2, FollowingWhenNotSharded DEF Link, Preparing
  <2>5. p.call = "preflight" => Link(p, Following(p.call))
    BY <1>2, FollowingWhenNotSharded DEF Link, Asking
  <2>6. p.call \in {"generate", "decode", "reward", "result"} => Link(p, Following(p.call))
    BY <1>2, FollowingWhenNotSharded DEF Link, Scored
  <2>7. p.call \in {"boundary", "backward", "rebind", "state"} => Link(p, Following(p.call))
    BY <1>2, FollowingWhenNotSharded DEF Link
  <2> QED BY <2>1, <2>2, <2>3, <2>4, <2>5, <2>6, <2>7
<1> QED BY <1>1, <1>2

LEMMA CollectFlows ==
  ASSUME NEW p, Place(p), p.verdict = "none", NEW x, NEW r
  PROVE  /\ p.call = "snapshot" => Flow(p, CollectFrom(p, r, 1), x)
         /\ p.call = "finalize" /\ ~LogCandidates => Flow(p, CollectFrom(p, r, p.group + 1), x)
         /\ p.call = "finalize" /\ p.group < Accum => Flow(p, CollectFrom(p, r, p.group + 1), x)
         /\ p.call = "materialize" /\ ~LogCandidates => Flow(p, CollectFrom(p, r, p.group + 1), x)
<1>0. Accum \in Nat \ {0} /\ p.group \in 0..Accum
  BY RunAssumption DEF Place
<1>1. \A g : ~(g > Accum) => CollectFrom(p, r, g) = [p EXCEPT !.call = "preflight", !.group = g]
  BY DEF CollectFrom
<1>2. \A g : g > Accum => CollectFrom(p, r, g) = Collected(p, r)
  BY DEF CollectFrom
<1>3. ASSUME NEW g \in 1..Accum,
             \/ p.call = "snapshot" /\ g = 1
             \/ p.call = "finalize" /\ g = p.group + 1
             \/ p.call = "materialize" /\ ~LogCandidates /\ g = p.group + 1
      PROVE  Flow(p, CollectFrom(p, r, g), x)
  <2>1. CollectFrom(p, r, g) = [p EXCEPT !.call = "preflight", !.group = g]
    <3>1. ~(g > Accum)
      BY <1>0
    <3> QED BY <3>1, <1>1
  <2>2. Collects(p, CollectFrom(p, r, g))
    BY <1>3, <2>1 DEF Collects, Stays, Place, AllFields
  <2> QED BY <2>2 DEF Flow
<1>4. ASSUME p.group = Accum, ~LogCandidates, p.call \in {"finalize", "materialize"}
      PROVE  Flow(p, CollectFrom(p, r, p.group + 1), x)
  <2>1. CollectFrom(p, r, p.group + 1) = Collected(p, r)
    BY <1>0, <1>2, <1>4
  <2> QED BY <1>4, <2>1, CollectedFlows DEF Full
<1>5. p.group < Accum => p.group + 1 \in 1..Accum
  BY <1>0
<1> QED BY <1>0, <1>3, <1>4, <1>5

\* A non-empty set of naturals has a least element.
LEMMA LeastNatural == ASSUME NEW S, S \subseteq Nat, S # {} PROVE \E i \in S : \A j \in S : i <= j
<1> DEFINE R == OpToRel(<, Nat)
<1>1. IsWellFoundedOn(R, Nat)
  BY NatLessThanWellFounded
<1>2. R = {p \in Nat \X Nat : p[1] < p[2]}
  BY DEF OpToRel
<1> HIDE DEF R
<1>3. PICK i \in S : \A j \in S : ~ (<<j, i>> \in R)
  BY <1>1, WFMin
<1>4. ASSUME NEW j \in S PROVE i <= j
  <2>1. j \in Nat /\ i \in Nat
    OBVIOUS
  <2>2. ~ (<<j, i>> \in {p \in Nat \X Nat : p[1] < p[2]})
    BY <1>2, <1>3
  <2>3. <<j, i>> \in Nat \X Nat /\ <<j, i>>[1] = j /\ <<j, i>>[2] = i
    BY <2>1
  <2>4. ~ (j < i)
    BY <2>2, <2>3
  <2> QED BY <2>1, <2>4
<1> QED BY <1>3, <1>4

LEMMA MaterializeFlows ==
  ASSUME NEW p, Place(p), p.verdict = "none", NEW x, NEW r, NEW g \in Nat \ {0},
         LogCandidates, p.call \in {"append", "materialize"}
  PROVE  Flow(p, MaterializeFrom(p, r, g), x)
<1> DEFINE G == {h \in g..Accum : Rendezvouses(r, h)}
           first == CHOOSE h \in G : \A k \in G : h <= k
<1>0. Accum \in Nat \ {0}
  BY RunAssumption
<1>1. CASE G = {}
  <2>1. MaterializeFrom(p, r, g) = Collected(p, r)
    BY <1>1 DEF MaterializeFrom, MaterializeFirst
  <2> QED BY <2>1, CollectedFlows DEF Full
<1>2. CASE G # {}
  <2>1. G \subseteq Nat
    BY <1>0
  <2>2. first \in G
    <3>1. \E h \in G : \A k \in G : h <= k
      <4> HIDE DEF G
      <4> QED BY <1>2, <2>1, LeastNatural
    <3> HIDE DEF G
    <3> QED BY <3>1
  <2>3. first \in 1..Accum
    <3> HIDE DEF first
    <3> QED BY <1>0, <2>2
  <2>4. MaterializeFrom(p, r, g) = [p EXCEPT !.call = "materialize", !.group = first]
    BY <1>2 DEF MaterializeFrom, MaterializeFirst
  <2>5. Materializes(p, MaterializeFrom(p, r, g))
    <3> HIDE DEF first
    <3> QED BY <2>3, <2>4 DEF Materializes, Stays, Place, AllFields
  <2> QED BY <2>5 DEF Flow
<1> QED BY <1>1, <1>2

LEMMA FlowIs ==
  ASSUME NEW p, Place(p), p.verdict = "none", p.call \notin Recovering, NEW x, NEW r
  PROVE  Flow(p, Succeed(p, r, x), x)
<1> DEFINE q == Succeed(p, r, x)
<1>0. AllFields \subseteq DOMAIN p /\ Accum \in Nat \ {0} /\ p.group \in 0..Accum
  BY RunAssumption DEF Place
<1>1. CASE p.call \in Plain
  <2>1. q = Goto(p, Following(p.call))
    BY <1>1 DEF Succeed, Plain, Looking, Loading, Preparing, Grouping, Asking, Scored, Saving
  <2> QED BY <1>0, <1>1, <2>1, PlainLinks, GotoLinks DEF Flow
<1>2. CASE p.call = "discover"
  <2>1. q = Branch(p, x)
    BY <1>2 DEF Succeed
  <2>2. x = 0 => q = Goto(p, Head(Prepare))
    BY <2>1 DEF Branch
  <2>3. Head(Prepare) \in Preparing
    BY DEF Prepare, Preparing
  <2>4. x # 0 => q = [p EXCEPT !.call = Head(LoadResumePoint), !.step = x - 1, !.resumed = TRUE]
    BY <2>1 DEF Branch
  <2>5. x # 0 => Branches(p, q, x)
    BY <1>0, <1>2, <2>4 DEF Branches, AllFields
  <2>6. x = 0 => Branches(p, q, x)
    BY <1>0, <1>2, <2>2, <2>3, FieldsGo DEF Branches
  <2> QED BY <2>5, <2>6 DEF Flow
<1>3. CASE p.call = "apply"
  <2>1. q = Goto(p, Head(Prepare)) /\ Head(Prepare) \in Preparing
    BY <1>3 DEF Succeed, Prepare, Preparing
  <2>2. Link(p, Head(Prepare))
    BY <1>3, <2>1 DEF Link
  <2> QED BY <1>0, <2>1, <2>2, GotoLinks DEF Flow
<1>4. CASE p.call = "publication"
  <2>1. q = Goto(p, IF x > 0 THEN "rebinding" ELSE "vars")
    BY <1>4 DEF Succeed
  <2>2. \A c \in {"rebinding", "vars"} : Link(p, c)
    BY <1>4 DEF Link, Preparing
  <2> QED BY <1>0, <2>1, <2>2, GotoLinks DEF Flow
<1>5. CASE p.call = "optimizer"
  <2>1. q = Window(p)
    BY <1>5 DEF Succeed
  <2> QED BY <1>0, <1>5, <2>1, WindowEnters DEF Flow, Opens
<1>6. CASE p.call = "snapshot"
  <2>1. q = CollectFrom(p, r, 1)
    BY <1>6 DEF Succeed
  <2> QED BY <1>6, <2>1, CollectFlows
<1>7. CASE p.call = "finalize"
  <2>1. q = GroupCollected(p, r)
    BY <1>7 DEF Succeed
  <2>2. CASE LogCandidates /\ p.group < Accum
    BY <1>7, <2>1, <2>2, CollectFlows DEF GroupCollected
  <2>3. CASE LogCandidates /\ ~(p.group < Accum)
    <3>1. Link(p, "boundary")
      BY <1>0, <1>7, <2>3 DEF Link
    <3> QED BY <1>0, <2>1, <2>3, <3>1, GotoLinks DEF GroupCollected, Flow
  <2>4. CASE ~LogCandidates /\ Rendezvouses(r, p.group)
    <3>1. Link(p, "materialize")
      BY <1>7, <2>4 DEF Link
    <3> QED BY <1>0, <2>1, <2>4, <3>1, GotoLinks DEF GroupCollected, Flow
  <2>5. CASE ~LogCandidates /\ ~Rendezvouses(r, p.group)
    BY <1>7, <2>1, <2>5, CollectFlows DEF GroupCollected
  <2> QED BY <2>2, <2>3, <2>4, <2>5
<1>8. CASE p.call = "append"
  <2>1. q = MaterializeFrom(p, r, 1) /\ LogCandidates
    BY <1>8 DEF Succeed, Place, Recording
  <2> QED BY <1>8, <2>1, MaterializeFlows
<1>9. CASE p.call = "materialize"
  <2>1. q = GroupMaterialized(p, r)
    BY <1>9 DEF Succeed
  <2>2. CASE LogCandidates
    <3>1. p.group + 1 \in Nat \ {0} /\ q = MaterializeFrom(p, r, p.group + 1)
      BY <1>0, <2>1, <2>2 DEF GroupMaterialized
    <3> QED BY <1>9, <2>2, <3>1, MaterializeFlows
  <2>3. CASE ~LogCandidates
    BY <1>9, <2>1, <2>3, CollectFlows DEF GroupMaterialized
  <2> QED BY <2>2, <2>3
<1>10. CASE p.call = "tokens"
  <2>1. q = Goto(p, "livecount") /\ Link(p, "livecount")
    BY <1>10 DEF Succeed, Link
  <2> QED BY <1>0, <2>1, GotoLinks DEF Flow
<1>11. CASE p.call = "livecount"
  <2>1. q = Update(p, r, x) /\ Link(p, "metrics")
    BY <1>11 DEF Succeed, Link
  <2>2. Flow(p, Goto(p, "metrics"), x)
    BY <1>0, <2>1, GotoLinks DEF Flow
  <2> QED BY <1>11, <2>1, <2>2, EpochFlows DEF Update
<1>12. CASE p.call = "reduction"
  <2>1. q = Goto(p, IF x > 0 THEN "post" ELSE "idle") /\ Link(p, "post") /\ Link(p, "idle")
    BY <1>12 DEF Succeed, Link
  <2> QED BY <1>0, <2>1, GotoLinks DEF Flow
<1>13. CASE p.call \in {"post", "idle"}
  <2>1. q = Epoch(p)
    BY <1>13 DEF Succeed
  <2> QED BY <1>13, <2>1, EpochFlows
<1>14. CASE p.call = "metrics"
  <2>1. q = MaybeCheckpoint(p)
    BY <1>14 DEF Succeed
  <2>2. Link(p, "rebind") /\ (~Due(p.step + 1) => Link(p, "poll"))
    BY <1>14 DEF Link
  <2>3. q = IF Due(p.step + 1) THEN Goto(p, "rebind") ELSE Goto(p, "poll")
    BY <2>1 DEF MaybeCheckpoint, WriteCheckpoint
  <2> QED BY <1>0, <2>2, <2>3, GotoLinks DEF Flow
<1>15. CASE p.call = "publish"
  <2>1. q = IF p.stop THEN Return(p, "preempted") ELSE Goto(p, "poll")
    BY <1>15 DEF Succeed
  <2>2. CASE p.stop = TRUE
    BY <1>0, <1>15, <2>1, <2>2, FieldsReturn DEF Flow, Yields
  <2>3. CASE p.stop # TRUE
    <3>1. q = Goto(p, "poll") /\ Link(p, "poll")
      BY <1>15, <2>1, <2>3 DEF Link, Place
    <3> QED BY <1>0, <3>1, GotoLinks DEF Flow
  <2> QED BY <2>2, <2>3
<1>16. CASE p.call = "poll"
  <2>1. q = MaybePreempt(p, x)
    BY <1>16 DEF Succeed
  <2>2. CASE x > 0 /\ p.step + 1 < Steps
    <3>1. q = [p EXCEPT !.call = "rebind", !.stop = TRUE]
      BY <2>1, <2>2 DEF MaybePreempt, WriteCheckpoint
    <3> QED BY <1>0, <1>16, <2>2, <3>1 DEF Flow, Preempts, AllFields
  <2>3. CASE ~(x > 0 /\ p.step + 1 < Steps)
    <3> DEFINE n == [p EXCEPT !.step = @ + 1, !.group = 0, !.epoch = 0]
    <3>1. q = Window(n)
      BY <2>1, <2>3 DEF MaybePreempt, NextStep
    <3>2. /\ AllFields \subseteq DOMAIN n /\ n.verdict = "none" /\ n.call = p.call
          /\ n.group = 0 /\ n.epoch = 0 /\ n.step = p.step + 1
          /\ n.resumed = p.resumed /\ n.stop = p.stop
      BY <1>0 DEF AllFields
    <3> HIDE DEF n
    <3> QED BY <1>0, <1>16, <3>1, <3>2, WindowEnters DEF Flow, StepsOn
  <2> QED BY <2>2, <2>3
<1>17. p.call \in Plain \cup {"discover", "apply", "publication", "optimizer", "snapshot",
         "finalize", "append", "materialize", "tokens", "livecount", "reduction", "post", "idle",
         "metrics", "publish", "poll"}
  BY DEF Place, Plain, InWindow, Recording, Counting, Training, Looking, Loading, Preparing,
         Grouping, Asking, Scored, Saving
<1> HIDE DEF q
<1> QED BY <1>1, <1>2, <1>3, <1>4, <1>5, <1>6, <1>7, <1>8, <1>9, <1>10, <1>11, <1>12, <1>13,
           <1>14, <1>15, <1>16, <1>17 DEF q

(***************************************************************************)
(* A sum with one term.                                                    *)
(***************************************************************************)
LEMMA OneTerm ==
  ASSUME NEW f, DOMAIN f = Ranks, NEW v \in Int,
         f[Primary] = v, \A r \in Ranks : r # Primary => f[r] = 0
  PROVE  SumFunction(f) = v
<1> DEFINE Some(s) == CHOOSE x \in s : TRUE
           Iter(g) == g = [s \in SUBSET Ranks |-> IF s = {} THEN 0 ELSE f[Some(s)] + g[s \ {Some(s)}]]
           F == [s \in SUBSET Ranks |-> IF Primary \in s THEN v ELSE 0]
           G == CHOOSE g : Iter(g)
<1>1. SumFunction(f) = G[Ranks]
  BY DEF SumFunction, SumFunctionOnSet, FoldFunctionOnSet, MapThenFoldSet
<1>2. \A s \in SUBSET Ranks : s # {} => Some(s) \in s
  OBVIOUS
<1> HIDE DEF Some
<1>3. Iter(F)
  <2> SUFFICES ASSUME NEW s \in SUBSET Ranks, s # {}
               PROVE  F[s] = f[Some(s)] + F[s \ {Some(s)}]
    OBVIOUS
  <2>1. Some(s) \in s /\ s \ {Some(s)} \in SUBSET Ranks
    BY <1>2
  <2>2. CASE Some(s) = Primary
    BY <2>1, <2>2
  <2>3. CASE Some(s) # Primary
    BY <2>1, <2>3
  <2> QED BY <2>2, <2>3
<1>4. Iter(G)
  <2> HIDE DEF Iter
  <2> QED BY <1>3
<1>5. \A s \in SUBSET Ranks : G[s] = IF s = {} THEN 0 ELSE f[Some(s)] + G[s \ {Some(s)}]
  <2> HIDE DEF G
  <2> QED BY <1>4
<1>6. \A s \in SUBSET Ranks : F[s] = IF s = {} THEN 0 ELSE f[Some(s)] + F[s \ {Some(s)}]
  <2> HIDE DEF F
  <2> QED BY <1>3
<1> HIDE DEF F, G, Iter
<1> DEFINE Bad == {s \in SUBSET Ranks : G[s] # F[s]}
           Sizes == {Cardinality(s) : s \in Bad}
<1>7. Bad = {}
  <2> SUFFICES ASSUME Bad # {} PROVE FALSE
    OBVIOUS
  <2>1. \A s \in SUBSET Ranks : IsFiniteSet(s) /\ Cardinality(s) \in Nat
    BY RunAssumption, FS_Subset, FS_CardinalityType
  <2>2. PICK n \in Sizes : \A m \in Sizes : n <= m
    <3>1. Sizes \subseteq Nat /\ Sizes # {}
      BY <2>1
    <3> HIDE DEF Sizes
    <3> QED BY <3>1, LeastNatural
  <2>3. PICK s \in Bad : n = Cardinality(s)
    OBVIOUS
  <2>4. s \in SUBSET Ranks /\ G[s] # F[s]
    OBVIOUS
  <2>5. s # {}
    BY <1>5, <1>6, <2>4
  <2>6. Some(s) \in s /\ s \ {Some(s)} \in SUBSET Ranks
    BY <1>2, <2>4, <2>5
  <2>7. Cardinality(s \ {Some(s)}) = Cardinality(s) - 1
    BY <2>1, <2>4, <2>6, FS_RemoveElement
  <2>8. s \ {Some(s)} \notin Bad
    BY <2>1, <2>2, <2>3, <2>4, <2>6, <2>7
  <2>9. G[s \ {Some(s)}] = F[s \ {Some(s)}]
    BY <2>6, <2>8
  <2> QED BY <1>5, <1>6, <2>4, <2>5, <2>9
<1>8. G[Ranks] = F[Ranks]
  BY <1>7
<1> QED BY <1>1, <1>8, RunAssumption DEF F

(***************************************************************************)
(* Positions after a failure and after a recovery.                         *)
(***************************************************************************)
Kept(p, q) ==
  /\ AllFields \subseteq DOMAIN q
  /\ q.step = p.step /\ q.group = p.group /\ q.epoch = p.epoch
  /\ q.resumed = p.resumed /\ q.stop = p.stop

\* The recovery c undoes what a failure in the call of p has left.
Undoes(p, c) ==
  \/ p.call = "append" /\ c = "truncate"
  \/ p.call \in (Loading \ {"capture"}) \cup Preparing /\ p.resumed = TRUE /\ c = "unresume"
  \/ p.call \in {"validate", "discover"} /\ Sharded /\ c = "unresume"
  \/ p.call \in Grouping \cup {"boundary", "materialize", "truncate"} /\ c = "rollback"

Errs(p, q) ==
  /\ Kept(p, q)
  /\ \/ q.verdict \in {"discard", "aborted", "ambiguous"} /\ q.call = p.call
     \/ q.verdict = "none" /\ Undoes(p, q.call)

Recovers(p, q) ==
  /\ Kept(p, q)
  /\ \/ p.call = "truncate" /\ q.call = "rollback" /\ q.verdict = "none"
     \/ p.call \in {"rollback", "unresume"} /\ q.call = p.call /\ q.verdict = "restored"

LEMMA FailErrs ==
  ASSUME NEW p, Place(p), p.verdict = "none", NEW x
  PROVE  Errs(p, Fail(p, x))
<1>0. AllFields \subseteq DOMAIN p
  BY DEF Place
<1>1. \A c : Kept(p, Goto(p, c)) /\ Goto(p, c).call = c /\ Goto(p, c).verdict = "none"
  BY <1>0, FieldsGo DEF Kept
<1>2. \A v : Kept(p, Return(p, v)) /\ Return(p, v).call = p.call /\ Return(p, v).verdict = v
  BY <1>0, FieldsReturn DEF Kept
<1>3. \A c : Undoes(p, c) => Errs(p, Goto(p, c))
  BY <1>1 DEF Errs
<1>4. \A v \in {"discard", "aborted", "ambiguous"} : Errs(p, Return(p, v))
  BY <1>2 DEF Errs
<1>5. CASE p.call = "append"
  <2>1. Fail(p, x) = Goto(p, "truncate") /\ Undoes(p, "truncate")
    BY <1>5 DEF Fail, Undoes
  <2> QED BY <1>3, <2>1
<1>6. CASE p.call \in {"capture", "rollback", "unresume"}
  <2>1. Fail(p, x) = Return(p, "discard")
    BY <1>6 DEF Fail
  <2> QED BY <1>4, <2>1
<1>7. CASE p.call \notin {"append", "capture", "rollback", "unresume"} /\ InResume(p)
  <2>1. Fail(p, x) = Goto(p, "unresume")
    BY <1>7 DEF Fail
  <2>2. Undoes(p, "unresume")
    BY <1>7, Transactions DEF Undoes
  <2> QED BY <1>3, <2>1, <2>2
<1>8. CASE p.call \notin {"append", "capture", "rollback", "unresume"} /\ ~InResume(p) /\ InCollection(p)
  <2>1. Fail(p, x) = Goto(p, "rollback")
    BY <1>8 DEF Fail
  <2>2. Undoes(p, "rollback")
    BY <1>8, Transactions DEF Undoes, Recording
  <2> QED BY <1>3, <2>1, <2>2
<1>9. CASE p.call \notin {"append", "capture", "rollback", "unresume"} /\ ~InResume(p) /\ ~InCollection(p)
  <2>1. Fail(p, x) \in {Return(p, "ambiguous"), Return(p, "aborted")}
    BY <1>9 DEF Fail
  <2> QED BY <1>4, <2>1
<1> QED BY <1>5, <1>6, <1>7, <1>8, <1>9

LEMMA RecoveryIs ==
  ASSUME NEW p, Place(p), p.verdict = "none", p.call \in Recovering, NEW x, NEW r
  PROVE  Recovers(p, Succeed(p, r, x))
<1>0. AllFields \subseteq DOMAIN p
  BY DEF Place
<1>1. p.call = "truncate" => Succeed(p, r, x) = Goto(p, "rollback")
  BY DEF Succeed
<1>2. p.call \in {"rollback", "unresume"} => Succeed(p, r, x) = Return(p, "restored")
  BY DEF Succeed
<1> QED BY <1>0, <1>1, <1>2, FieldsGo, FieldsReturn DEF Recovers, Kept, Recovering

(***************************************************************************)
(* Every position the program reaches is a Place.                          *)
(***************************************************************************)
LEMMA Disjoint ==
  /\ Looking \cap Loading = {} /\ Looking \cap Preparing = {} /\ Looking \cap InWindow = {}
  /\ Looking \cap Recovering = {} /\ Loading \cap Preparing = {} /\ Loading \cap InWindow = {}
  /\ Loading \cap Recovering = {} /\ Preparing \cap InWindow = {}
  /\ Preparing \cap Recovering = {} /\ InWindow \cap Recovering = {}
<1> USE DEF Looking, Loading, Preparing, InWindow, Recovering, Grouping, Asking, Scored,
            Recording, Counting, Training, Saving
<1>1. CASE Sharded
  BY <1>1
<1>2. CASE ~Sharded
  BY <1>2
<1> QED BY <1>1, <1>2

LEMMA ErrsToPlace ==
  ASSUME NEW p, NEW q, Place(p), p.verdict = "none", Errs(p, q)
  PROVE  Place(q)
<1>1. CASE q.call = p.call
  BY <1>1 DEF Errs, Kept, Place
<1>2. CASE q.call # p.call
  <2>1. q.call \in Recovering /\ p.call \notin Saving
    BY <1>2 DEF Errs, Undoes, Recovering, Saving, Loading, Preparing, Grouping, Asking, Scored
  <2>2. q.call \notin Looking \cup Loading \cup Preparing \cup InWindow
    BY <2>1 DEF Recovering, Looking, Loading, Preparing, InWindow, Grouping, Asking, Scored,
                Recording, Counting, Training, Saving
  <2>3. q.call \notin Grouping \cup Recording \cup {"materialize"} /\ q.call \notin Training
    BY <2>2 DEF InWindow
  <2> QED BY <2>1, <2>2, <2>3 DEF Errs, Kept, Place
<1> QED BY <1>1, <1>2

LEMMA RecoversToPlace ==
  ASSUME NEW p, NEW q, Place(p), p.verdict = "none", Recovers(p, q)
  PROVE  Place(q)
<1>1. p.call \in Recovering /\ q.call \in Recovering
  BY DEF Recovers, Recovering
<1>2. \A c \in Recovering : c \notin Looking \cup Loading \cup Preparing \cup InWindow
  BY DEF Recovering, Looking, Loading, Preparing, InWindow, Grouping, Asking, Scored,
         Recording, Counting, Training, Saving
<1>3. \A c \in Recovering : c \notin Grouping \cup Recording \cup {"materialize"} \cup Training \cup Saving
  BY <1>2 DEF InWindow
<1> QED BY <1>1, <1>2, <1>3 DEF Recovers, Kept, Place

\* The parts of Place that matter before the windows, and in them.
Ranges(q) ==
  /\ AllFields \subseteq DOMAIN q
  /\ q.step \in 0..Steps /\ q.group \in 0..Accum /\ q.epoch \in 0..Mu
  /\ q.resumed = TRUE => q.step > 0

PlaceBefore(q) ==
  /\ q.call \in Looking \cup Loading \cup Preparing
  /\ q.call \in Looking => q.step = 0 /\ q.resumed # TRUE
  /\ q.call \in Loading => q.resumed = TRUE
  /\ q.call \in Preparing => q.resumed = TRUE \/ q.step = 0
  /\ q.stop # TRUE

PlaceWithin(q) ==
  /\ q.call \in InWindow
  /\ q.verdict # "completed" => q.step < Steps
  /\ q.call \in Grouping \cup Recording \cup {"materialize"} => q.group > 0
  /\ q.call \in Recording => LogCandidates
  /\ q.call \in Training => q.epoch > 0
  /\ q.stop = TRUE => q.call \in Saving /\ q.step + 1 < Steps

LEMMA Parts ==
  /\ Grouping \cup Recording \cup {"materialize"} \subseteq InWindow
  /\ Training \subseteq InWindow /\ Saving \subseteq InWindow
BY DEF InWindow

LEMMA PlaceIs ==
  ASSUME NEW q
  PROVE  /\ Ranges(q) /\ PlaceBefore(q) => Place(q)
         /\ Ranges(q) /\ PlaceWithin(q) => Place(q)
         /\ Place(q) => Ranges(q)
         /\ Place(q) /\ q.call \in Looking \cup Loading \cup Preparing => PlaceBefore(q)
         /\ Place(q) /\ q.call \in InWindow => PlaceWithin(q)
<1>1. ASSUME Ranges(q), PlaceBefore(q) PROVE Place(q)
  <2>1. q.call \notin InWindow
    BY <1>1, Disjoint DEF PlaceBefore
  <2> QED BY <1>1, <2>1, Parts DEF Place, Ranges, PlaceBefore
<1>2. ASSUME Ranges(q), PlaceWithin(q) PROVE Place(q)
  <2>1. q.call \notin Looking /\ q.call \notin Loading /\ q.call \notin Preparing
    BY <1>2, Disjoint DEF PlaceWithin
  <2> QED BY <1>2, <2>1 DEF Place, Ranges, PlaceWithin
<1>3. ASSUME Place(q) PROVE Ranges(q)
  BY <1>3 DEF Place, Ranges
<1>4. ASSUME Place(q), q.call \in Looking \cup Loading \cup Preparing PROVE PlaceBefore(q)
  <2>1. q.call \notin Saving
    BY <1>4, Disjoint, Parts
  <2> QED BY <1>4, <2>1 DEF Place, PlaceBefore
<1>5. ASSUME Place(q), q.call \in InWindow PROVE PlaceWithin(q)
  BY <1>5 DEF Place, PlaceWithin
<1> QED BY <1>1, <1>2, <1>3, <1>4, <1>5

LEMMA LinksToPlace ==
  ASSUME NEW p, NEW q, Place(p), AllFields \subseteq DOMAIN q, Links(p, q), p.verdict = "none"
  PROVE  Place(q)
<1>1. q.step = p.step /\ q.resumed = p.resumed /\ q.stop = p.stop /\ q.verdict = "none"
      /\ q.group = p.group /\ q.epoch = p.epoch /\ Link(p, q.call)
  BY DEF Links, Stays
<1>2. Ranges(q)
  BY <1>1, PlaceIs DEF Ranges
<1>3. ASSUME p.call \in Looking \cup Loading \cup Preparing PROVE PlaceBefore(q)
  <2>1. p.call \notin InWindow
    BY <1>3, Disjoint
  <2>2. /\ p.call \notin {"preflight", "generate", "finalize", "boundary", "append", "materialize"}
        /\ p.call \notin {"tokens", "livecount", "metrics", "rebind", "state", "publish"}
        /\ p.call \notin {"backward", "reduction", "post", "idle"} /\ p.call \notin Scored
        /\ (p.call = "request" => q.call \notin Asking)
    <3>1. \A c \in {"preflight", "generate", "finalize", "boundary", "append", "materialize",
                    "tokens", "livecount", "metrics", "rebind", "state", "publish",
                    "backward", "reduction", "post", "idle"} \cup Scored : c \in InWindow
      BY DEF InWindow, Grouping, Asking, Scored, Recording, Counting, Training, Saving
    <3>2. Sharded => "request" \in InWindow
      BY DEF InWindow, Grouping, Asking
    <3>3. ~Sharded => p.call # "request"
      BY <1>3 DEF Looking, Loading, Preparing
    <3>4. p.call # "request"
      BY <2>1, <3>2, <3>3
    <3> QED BY <2>1, <3>1, <3>4
  <2>3. \/ p.call \in Looking /\ q.call \in Looking
        \/ p.call \in Loading /\ q.call \in Loading
        \/ p.call \in Loading \cup Preparing /\ q.call \in Preparing
    BY <1>1, <2>2, Zenon DEF Link, Full, Loading
  <2>4. PlaceBefore(p)
    BY <1>3, PlaceIs
  <2> QED BY <1>1, <2>3, <2>4, Disjoint DEF PlaceBefore
<1>4. ASSUME p.call \in InWindow PROVE PlaceWithin(q)
  <2>0. p.call \notin Looking /\ p.call \notin Loading /\ p.call \notin Preparing
    BY <1>4, Disjoint
  <2>1. p.call # "apply"
    BY <2>0 DEF Loading
  <2> USE DEF Grouping, Asking, Scored, Recording, Saving, Counting, Training
  <2>2. q.call \in InWindow
    BY <1>1, <2>0, <2>1 DEF Link, Full, InWindow
  <2>3. q.call \in Grouping \cup Recording \cup {"materialize"} =>
          p.call \in Grouping \cup Recording \cup {"materialize"}
    <3>1. q.call \notin Looking /\ q.call \notin Loading /\ q.call \notin Preparing
      BY <2>2, Disjoint
    <3>2. p.call = "request" => Sharded
      BY <1>4 DEF InWindow
    <3> QED BY <1>1, <2>0, <2>1, <3>1, <3>2 DEF Link, Full
  <2>4. q.call \in Recording => LogCandidates
    BY <1>1, <1>4, <2>0, <2>1, <2>2, PlaceIs, Disjoint DEF Link, Full, PlaceWithin
  <2>5. q.call \in Training => p.call \in Training
    BY <1>1, <2>0, <2>1, <2>2, Disjoint DEF Link, Full
  <2>6. q.stop = TRUE => q.call \in Saving
    BY <1>1, <1>4, <2>0, <2>1, PlaceIs DEF Link, Full, PlaceWithin
  <2> QED BY <1>1, <1>4, <2>2, <2>3, <2>4, <2>5, <2>6, PlaceIs DEF PlaceWithin
<1>5. ASSUME p.call \in Recovering PROVE FALSE
  <2>1. p.call \notin Looking /\ p.call \notin Loading /\ p.call \notin Preparing
    BY <1>5, Disjoint
  <2>2. p.call # "apply"
    BY <2>1 DEF Loading
  <2> QED BY <1>1, <1>5, <2>1, <2>2 DEF Link, Full, Recovering, Asking, Scored
<1> QED BY <1>2, <1>3, <1>4, <1>5, PlaceIs DEF Place

LEMMA FlowToPlace ==
  ASSUME NEW p, NEW q, NEW x, Place(p), AllFields \subseteq DOMAIN q, Flow(p, q, x),
         p.verdict = "none", p.call = "discover" /\ x # 0 => x - 1 \in 1..Steps
  PROVE  Place(q)
<1>0. Accum \in Nat \ {0} /\ Mu \in Nat \ {0} /\ Steps \in Nat /\ Ranges(p)
  BY RunAssumption, PlaceIs
<1> SUFFICES ASSUME ~Links(p, q) PROVE Place(q)
  BY LinksToPlace
<1>1. CASE Collects(p, q)
  <2>1. p.call \in InWindow \ Saving /\ q.call \in InWindow \ (Recording \cup Training)
    BY <1>1 DEF Collects, InWindow, Grouping, Asking, Scored, Recording, Counting,
              Training, Saving
  <2>2. PlaceWithin(p)
    BY <2>1, PlaceIs
  <2>3. Ranges(q) /\ PlaceWithin(q)
    BY <1>0, <1>1, <2>1, <2>2 DEF Collects, Stays, Ranges, PlaceWithin
  <2> QED BY <2>3, PlaceIs
<1>2. CASE Materializes(p, q)
  <2>1. p.call \in InWindow \ Saving /\ q.call \in InWindow \ (Recording \cup Training)
    BY <1>2 DEF Materializes, InWindow, Grouping, Asking, Scored, Recording, Counting,
              Training, Saving
  <2>2. PlaceWithin(p)
    BY <2>1, PlaceIs
  <2>3. Ranges(q) /\ PlaceWithin(q)
    BY <1>0, <1>2, <2>1, <2>2 DEF Materializes, Stays, Ranges, PlaceWithin
  <2> QED BY <2>3, PlaceIs
<1>3. CASE Trains(p, q)
  <2>1. /\ p.call \in InWindow \ Saving
        /\ q.call \in InWindow \ (Grouping \cup Recording \cup {"materialize"})
    BY <1>3 DEF Trains, Full, InWindow, Grouping, Asking, Scored, Recording, Counting,
              Training, Saving
  <2>2. PlaceWithin(p)
    BY <2>1, PlaceIs
  <2>3. Ranges(q) /\ PlaceWithin(q)
    BY <1>0, <1>3, <2>1, <2>2 DEF Trains, Stays, Ranges, PlaceWithin
  <2> QED BY <2>3, PlaceIs
<1>4. CASE Preempts(p, q)
  <2>1. /\ p.call \in InWindow /\ q.call \in Saving
        /\ q.call \in InWindow \ (Grouping \cup Recording \cup Training \cup {"materialize"})
    BY <1>4 DEF Preempts, InWindow, Grouping, Asking, Scored, Recording, Counting,
              Training, Saving
  <2>2. PlaceWithin(p)
    BY <2>1, PlaceIs
  <2>3. Ranges(q) /\ PlaceWithin(q)
    BY <1>0, <1>4, <2>1, <2>2 DEF Preempts, Ranges, PlaceWithin
  <2> QED BY <2>3, PlaceIs
<1>5. CASE Branches(p, q, x)
  <2>1. p.call \in Looking
    BY <1>5 DEF Branches, Looking
  <2>2. PlaceBefore(p)
    BY <2>1, PlaceIs
  <2>3. Head(LoadResumePoint) \in Loading
    BY DEF LoadResumePoint, Loading
  <2>4. CASE x = 0
    <3>1. q.call \in Preparing /\ q.call \notin Looking /\ q.call \notin Loading
      BY <1>5, <2>4, Disjoint DEF Branches
    <3>2. Ranges(q) /\ PlaceBefore(q)
      BY <1>0, <1>5, <2>1, <2>2, <2>4, <3>1 DEF Branches, Ranges, PlaceBefore
    <3> QED BY <3>2, PlaceIs
  <2>5. CASE x # 0
    <3>1. q.call \in Loading /\ q.call \notin Looking /\ q.call \notin Preparing
      BY <1>5, <2>3, <2>5, Disjoint DEF Branches
    <3>2. q.step \in 1..Steps /\ q.resumed = TRUE
      BY <1>5, <2>5 DEF Branches
    <3>3. Ranges(q)
      BY <1>0, <1>5, <3>2 DEF Branches, Ranges
    <3>4. PlaceBefore(q)
      BY <1>5, <2>2, <3>1, <3>2 DEF Branches, PlaceBefore
    <3> QED BY <3>3, <3>4, PlaceIs
  <2> QED BY <2>4, <2>5
<1>6. CASE Opens(p, q)
  <2>1. p.call \in Preparing /\ PlaceBefore(p)
    BY <1>6, PlaceIs DEF Opens, Preparing
  <2>2. Ranges(q)
    BY <1>0, <1>6 DEF Opens, Enters, Ranges
  <2>3. CASE q.call = p.call
    <3>1. q.call \notin Looking /\ q.call \notin Loading /\ q.call \in Preparing
      BY <2>1, <2>3, Disjoint
    <3>2. PlaceBefore(q)
      BY <1>6, <2>1, <3>1 DEF Opens, Enters, PlaceBefore
    <3> QED BY <2>2, <3>2, PlaceIs
  <2>4. CASE q.call # p.call
    <3>1. q.call \in InWindow \ (Recording \cup Training) /\ (q.call = "preflight" \/ q.call \notin Grouping \cup {"materialize"})
      BY <1>6, <2>4 DEF Opens, Enters, InWindow, Grouping, Asking, Scored, Recording, Counting,
              Training, Saving
    <3>2. q.step < Steps
      BY <1>0, <1>6, <2>4 DEF Opens, Enters, Ranges
    <3>3. q.call = "preflight" => q.group > 0
      BY <1>6, <2>4 DEF Opens, Enters
    <3>4. q.stop # TRUE
      BY <1>6, <2>1 DEF Opens, Enters, PlaceBefore
    <3>5. PlaceWithin(q)
      BY <3>1, <3>2, <3>3, <3>4 DEF PlaceWithin
    <3> QED BY <2>2, <3>5, PlaceIs
  <2> QED BY <2>3, <2>4
<1>7. CASE StepsOn(p, q)
  <2>1. p.call \in InWindow \ Saving
    BY <1>7 DEF StepsOn, InWindow, Grouping, Asking, Scored, Recording, Counting,
              Training, Saving
  <2>2. PlaceWithin(p)
    BY <2>1, PlaceIs
  <2>3. q.call \in InWindow \ (Recording \cup Training) /\ (q.call = "preflight" \/ q.call \notin Grouping \cup {"materialize"})
    BY <1>7 DEF StepsOn, Enters, InWindow, Grouping, Asking, Scored, Recording, Counting,
              Training, Saving
  <2>4. Ranges(q)
    BY <1>0, <1>7, <2>2 DEF StepsOn, Enters, Ranges, PlaceWithin
  <2>5. PlaceWithin(q)
    BY <1>0, <1>7, <2>1, <2>2, <2>3, <2>4 DEF StepsOn, Enters, PlaceWithin, Ranges
  <2> QED BY <2>4, <2>5, PlaceIs
<1>8. CASE Yields(p, q)
  <2>1. p.call \in InWindow
    BY <1>8 DEF Yields, InWindow, Grouping, Asking, Scored, Recording, Counting,
              Training, Saving
  <2>2. PlaceWithin(p)
    BY <2>1, PlaceIs
  <2>3. Ranges(q) /\ PlaceWithin(q)
    BY <1>0, <1>8, <2>1, <2>2 DEF Yields, Ranges, PlaceWithin
  <2> QED BY <2>3, PlaceIs
<1> QED BY <1>1, <1>2, <1>3, <1>4, <1>5, <1>6, <1>7, <1>8 DEF Flow

(***************************************************************************)
(* What a policy holds.                                                    *)
(***************************************************************************)
State(u, n) == [updates |-> u, sampled |-> n, adapter |-> TRUE]
Updates == Seq([step : Nat, epoch : Nat])

\* A policy with its adapter on.
Tidy(q) == \E u \in Updates : \E n \in Nat : q = State(u, n)

LEMMA Setters ==
  ASSUME NEW u, NEW n, NEW v, NEW m
  PROVE  /\ State(u, n).updates = u /\ State(u, n).sampled = n
         /\ [State(u, n) EXCEPT !.updates = v] = State(v, n)
         /\ [State(u, n) EXCEPT !.sampled = m] = State(u, m)
         /\ [State(u, n) EXCEPT !.adapter = TRUE] = State(u, n)
<1> DEFINE R(x, y, b) == [updates |-> x, sampled |-> y, adapter |-> b]
<1>1. \A b : [R(u, n, b) EXCEPT !.adapter = b] = R(u, n, b)
  OBVIOUS
<1>2. \A b : [R(u, n, b) EXCEPT !.updates = v] = R(v, n, b)
  OBVIOUS
<1>3. \A b : [R(u, n, b) EXCEPT !.sampled = m] = R(u, m, b)
  OBVIOUS
<1>4. \A x, y : State(x, y) = R(x, y, TRUE)
  BY DEF State
<1>5. State(u, n).updates = u /\ State(u, n).sampled = n
  BY DEF State
<1> HIDE DEF R
<1> QED BY <1>1, <1>2, <1>3, <1>4, <1>5, Zenon

LEMMA FreshIsTidy ==
  /\ Tidy(FreshPolicy) /\ StateAfter(FreshPolicy, 0)
  /\ \A q : Tidy(q) => q # NoPolicy
<1>1. FreshPolicy = State(<<>>, 0)
  BY DEF FreshPolicy, State
<1>2. <<>> \in Updates
  BY DEF Updates
<1>3. Tidy(FreshPolicy)
  BY <1>1, <1>2 DEF Tidy
<1>4. Accum \in Nat
  BY RunAssumption
<1>5. StateAfter(FreshPolicy, 0)
  BY <1>4 DEF StateAfter, FreshPolicy
<1>6. ASSUME NEW q, Tidy(q) PROVE q # NoPolicy
  <2>1. PICK u \in Updates, n \in Nat : q = State(u, n)
    BY <1>6 DEF Tidy
  <2>2. q.sampled = n /\ NoPolicy.sampled = -1
    BY <2>1, Setters DEF NoPolicy
  <2> QED BY <2>2
<1> QED BY <1>3, <1>5, <1>6

\* The updates were applied in order, and lie before epoch e of window n.
InOrder(q) == \A i \in DOMAIN q.updates : i > 1 => Before(q.updates[i - 1], q.updates[i])
Behind(q, n) == \A i \in DOMAIN q.updates : q.updates[i].step < n
UpTo(q, n, e) ==
  \A i \in DOMAIN q.updates :
    q.updates[i].step < n \/ (q.updates[i].step = n /\ q.updates[i].epoch < e)

\* The groups of the window that are sampled, before (FALSE) or after (TRUE)
\* the work of the call.
Sampled(p, done) ==
  IF p.call \in {"preflight", "request"} \/ (p.call = "generate" /\ ~done) THEN p.group - 1
  ELSE IF p.call \in {"generate"} \cup Scored \/ (p.call = "materialize" /\ ~LogCandidates)
       THEN p.group
  ELSE Accum

\* The policy of a rank that is before or after the work of the call of p.
Content(q, p, done) ==
  /\ p.call \in Looking \cup Loading /\ ~(done /\ p.call = "apply") => q = FreshPolicy
  /\ p.call \in {"snapshot"} \cup Preparing \/ (done /\ p.call = "apply") => StateAfter(q, p.step)
  /\ p.call \in Grouping \cup Recording \cup Counting \cup {"materialize"} =>
       InOrder(q) /\ Behind(q, p.step) /\ q.sampled = p.step * Accum + Sampled(p, done)
  /\ p.call \in Training =>
       /\ InOrder(q) /\ q.sampled = (p.step + 1) * Accum
       /\ UpTo(q, p.step, IF done /\ p.call = "post" THEN p.epoch + 1 ELSE p.epoch)
  /\ p.call \in Saving \cup {"metrics", "poll"} => StateAfter(q, p.step + 1)

LEMMA StateAfterIs ==
  ASSUME NEW q, NEW n
  PROVE  StateAfter(q, n) <=> InOrder(q) /\ Behind(q, n) /\ q.sampled = n * Accum
BY DEF StateAfter, InOrder, Behind

\* The work of a call, from the policy that the call before it has left.
\* One lemma for each kind of work.
LEMMA OneMoreGroup ==
  ASSUME NEW q, Tidy(q), NEW p, p.call = "generate"
  PROVE  /\ Tidy(Effect(q, p)) /\ Effect(q, p).sampled = q.sampled + 1
         /\ Effect(q, p).updates = q.updates
<1>1. PICK u \in Updates, n \in Nat : q = State(u, n)
  BY DEF Tidy
<1>2. Effect(q, p) = State(u, n + 1)
  BY <1>1, Setters DEF Effect
<1> QED BY <1>1, <1>2, Setters DEF Tidy

LEMMA OneMoreUpdate ==
  ASSUME NEW q, Tidy(q), NEW p, p.call = "post", p.step \in Nat, p.epoch \in Nat,
         InOrder(q), UpTo(q, p.step, p.epoch)
  PROVE  /\ Tidy(Effect(q, p)) /\ Effect(q, p).sampled = q.sampled
         /\ InOrder(Effect(q, p)) /\ UpTo(Effect(q, p), p.step, p.epoch + 1)
<1>1. PICK u \in Updates, n \in Nat : q = State(u, n)
  BY DEF Tidy
<1> DEFINE e == [step |-> p.step, epoch |-> p.epoch]
           v == Append(u, e)
<1>2. Effect(q, p) = State(v, n)
  <2>1. Effect(q, p) = [q EXCEPT !.updates = Append(@, e)]
    BY DEF Effect
  <2>2. q.updates = u
    BY <1>1, Setters
  <2>3. Effect(q, p) = [State(u, n) EXCEPT !.updates = v]
    BY <1>1, <2>1, <2>2
  <2> HIDE DEF v
  <2> QED BY <2>3, Setters
<1>3. e \in [step : Nat, epoch : Nat] /\ e.step = p.step /\ e.epoch = p.epoch
  OBVIOUS
<1> HIDE DEF e
<1>4. /\ v \in Updates /\ Len(v) = Len(u) + 1 /\ Len(u) \in Nat /\ v[Len(v)] = e
      /\ \A i \in 1..Len(u) : v[i] = u[i]
      /\ DOMAIN u = 1..Len(u) /\ DOMAIN v = 1..Len(v)
  <2> DEFINE S == [step : Nat, epoch : Nat]
  <2>1. u \in Seq(S) /\ e \in S
    BY <1>3 DEF Updates
  <2>2. Updates = Seq(S)
    BY DEF Updates
  <2> HIDE DEF S
  <2>3. v \in Seq(S) /\ Len(v) = Len(u) + 1 /\ Len(u) \in Nat /\ v[Len(v)] = e
    BY <2>1
  <2>4. \A i \in 1..Len(u) : v[i] = u[i]
    BY <2>1
  <2>5. DOMAIN u = 1..Len(u) /\ DOMAIN v = 1..Len(v)
    BY <2>1, <2>3
  <2> QED BY <2>2, <2>3, <2>4, <2>5
<1>5. \A i \in 1..Len(u) : u[i] \in [step : Nat, epoch : Nat]
  <2> DEFINE S == [step : Nat, epoch : Nat]
  <2>1. u \in Seq(S)
    BY DEF Updates
  <2> HIDE DEF S
  <2>2. \A i \in 1..Len(u) : u[i] \in S
    BY <2>1
  <2> QED BY <2>2 DEF S
<1> HIDE DEF v
<1>6. q.updates = u /\ Effect(q, p).updates = v /\ Effect(q, p).sampled = n /\ q.sampled = n
  BY <1>1, <1>2, Setters
<1>7. InOrder(Effect(q, p))
  <2> SUFFICES ASSUME NEW i \in 1..Len(v), i > 1 PROVE Before(v[i - 1], v[i])
    BY <1>4, <1>6 DEF InOrder
  <2>1. CASE i \in 1..Len(u)
    <3>1. i - 1 \in 1..Len(u)
      BY <2>1
    <3>2. Before(u[i - 1], u[i])
      BY <1>4, <1>6, <2>1 DEF InOrder
    <3> QED BY <1>4, <2>1, <3>1, <3>2
  <2>2. CASE i = Len(v)
    <3>1. i - 1 \in 1..Len(u) /\ v[i - 1] = u[i - 1] /\ v[i] = e
      BY <1>4, <2>2
    <3>2. u[i - 1].step < p.step \/ (u[i - 1].step = p.step /\ u[i - 1].epoch < p.epoch)
      BY <1>4, <1>6, <3>1 DEF UpTo
    <3> QED BY <1>3, <3>1, <3>2 DEF Before
  <2> QED BY <1>4, <2>1, <2>2
<1>8. UpTo(Effect(q, p), p.step, p.epoch + 1)
  <2> SUFFICES ASSUME NEW i \in 1..Len(v)
               PROVE  v[i].step < p.step \/ (v[i].step = p.step /\ v[i].epoch < p.epoch + 1)
    BY <1>4, <1>6 DEF UpTo
  <2>1. CASE i \in 1..Len(u)
    <3>1. v[i] = u[i] /\ u[i].epoch \in Nat
      BY <1>4, <1>5, <2>1
    <3>2. u[i].step < p.step \/ (u[i].step = p.step /\ u[i].epoch < p.epoch)
      BY <1>4, <1>6, <2>1 DEF UpTo
    <3> QED BY <3>1, <3>2
  <2>2. CASE i = Len(v)
    BY <1>3, <1>4, <2>2
  <2> QED BY <1>4, <2>1, <2>2
<1> QED BY <1>2, <1>4, <1>6, <1>7, <1>8 DEF Tidy

LEMMA Resumption ==
  ASSUME NEW q, Tidy(q), NEW p, p.call = "apply", Tidy(store[p.step])
  PROVE  Effect(q, p) = store[p.step]
<1>1. PICK u \in Updates, n \in Nat : q = State(u, n)
  BY DEF Tidy
<1>2. PICK v \in Updates, m \in Nat : store[p.step] = State(v, m)
  BY DEF Tidy
<1>3. Effect(q, p) = [[q EXCEPT !.updates = store[p.step].updates]
                          EXCEPT !.sampled = store[p.step].sampled]
  BY DEF Effect
<1>4. store[p.step].updates = v /\ store[p.step].sampled = m
  BY <1>2, Setters
<1>5. [q EXCEPT !.updates = v] = State(v, n)
  BY <1>1, Setters
<1>6. [State(v, n) EXCEPT !.sampled = m] = State(v, m)
  BY Setters
<1> QED BY <1>2, <1>3, <1>4, <1>5, <1>6

LEMMA NoEffect ==
  ASSUME NEW q, Tidy(q), NEW p, p.call \notin {"apply", "generate", "post"}
  PROVE  Effect(q, p) = q
<1>1. PICK u \in Updates, n \in Nat : q = State(u, n)
  BY DEF Tidy
<1>2. [q EXCEPT !.adapter = TRUE] = q
  BY <1>1, Setters
<1> QED BY <1>2 DEF Effect

LEMMA Numbers ==
  /\ Accum \in Nat \ {0} /\ Mu \in Nat \ {0} /\ Steps \in Nat
  /\ \A n \in Nat : n * Accum \in Nat /\ (n + 1) * Accum = n * Accum + Accum
BY RunAssumption

\* The calls of a window are told apart.
LEMMA DisjointWithin ==
  /\ Grouping \cap Recording = {} /\ Grouping \cap Counting = {} /\ Grouping \cap Training = {}
  /\ Grouping \cap Saving = {} /\ Grouping \cap {"snapshot", "materialize", "metrics", "poll"} = {}
  /\ Recording \cap Counting = {} /\ Recording \cap Training = {} /\ Recording \cap Saving = {}
  /\ Recording \cap {"snapshot", "materialize", "metrics", "poll"} = {}
  /\ Counting \cap Training = {} /\ Counting \cap Saving = {}
  /\ Counting \cap {"snapshot", "materialize", "metrics", "poll"} = {}
  /\ Training \cap Saving = {} /\ Training \cap {"snapshot", "materialize", "metrics", "poll"} = {}
  /\ Saving \cap {"snapshot", "materialize", "metrics", "poll"} = {}
BY DEF Grouping, Asking, Scored, Recording, Counting, Training, Saving

\* The work of a call turns the policy a rank arrives with into the policy
\* that the next call expects.
LEMMA WorkReaches ==
  ASSUME NEW p, NEW q, Place(p), Tidy(q), Content(q, p, FALSE),
         p.call = "apply" => Tidy(store[p.step]) /\ StateAfter(store[p.step], p.step)
  PROVE  Tidy(Effect(q, p)) /\ Content(Effect(q, p), p, TRUE)
<1>0. p.step \in Nat /\ p.group \in Nat /\ p.epoch \in Nat
  BY RunAssumption DEF Place
<1>1. CASE p.call = "apply"
  <2>1. Effect(q, p) = store[p.step]
    BY <1>1, Resumption
  <2>2. p.call \in Loading
    BY <1>1 DEF Loading
  <2>3. p.call \notin InWindow /\ p.call \notin Looking /\ p.call \notin Preparing
    BY <2>2, Disjoint
  <2>4. /\ p.call \notin Grouping \cup Recording \cup Counting \cup {"materialize"}
        /\ p.call \notin Training /\ p.call \notin Saving \cup {"metrics", "poll"}
    BY <2>3 DEF InWindow
  <2> QED BY <1>1, <2>1, <2>3, <2>4 DEF Content
<1>2. CASE p.call = "generate"
  <2>1. Tidy(Effect(q, p)) /\ Effect(q, p).sampled = q.sampled + 1 /\ Effect(q, p).updates = q.updates
    BY <1>2, OneMoreGroup
  <2>2. p.call \in Grouping
    BY <1>2 DEF Grouping, Asking
  <2>3. p.call \notin Looking /\ p.call \notin Loading /\ p.call \notin Preparing
    BY <2>2, Disjoint, Parts
  <2>4. InOrder(q) /\ Behind(q, p.step) /\ q.sampled = p.step * Accum + (p.group - 1)
    BY <1>2, <2>2 DEF Content, Sampled
  <2>5. Effect(q, p).sampled = p.step * Accum + p.group
    <3> DEFINE k == p.step * Accum
    <3>1. k \in Nat
      BY <1>0, Numbers
    <3>2. q.sampled = k + (p.group - 1)
      BY <2>4
    <3> HIDE DEF k
    <3>3. Effect(q, p).sampled = k + p.group
      BY <1>0, <2>1, <3>1, <3>2
    <3> QED BY <3>3 DEF k
  <2>6. InOrder(Effect(q, p)) /\ Behind(Effect(q, p), p.step)
    BY <2>1, <2>4 DEF InOrder, Behind
  <2>7. Sampled(p, TRUE) = p.group
    BY <1>2 DEF Sampled
  <2> QED BY <1>2, <2>1, <2>2, <2>3, <2>5, <2>6, <2>7, DisjointWithin DEF Content
<1>3. CASE p.call = "post"
  <2>1. p.call \in Training
    BY <1>3 DEF Training
  <2>2. p.call \notin Looking /\ p.call \notin Loading /\ p.call \notin Preparing
    BY <2>1, Disjoint, Parts
  <2>3. InOrder(q) /\ q.sampled = (p.step + 1) * Accum /\ UpTo(q, p.step, p.epoch)
    BY <2>1 DEF Content
  <2>4. /\ Tidy(Effect(q, p)) /\ Effect(q, p).sampled = q.sampled
        /\ InOrder(Effect(q, p)) /\ UpTo(Effect(q, p), p.step, p.epoch + 1)
    BY <1>0, <1>3, <2>3, OneMoreUpdate
  <2> QED BY <1>3, <2>1, <2>2, <2>3, <2>4, DisjointWithin DEF Content
<1>4. CASE p.call \notin {"apply", "generate", "post"}
  <2>1. Effect(q, p) = q
    BY <1>4, NoEffect
  <2>2. Sampled(p, TRUE) = Sampled(p, FALSE)
    BY <1>4 DEF Sampled
  <2> QED BY <1>4, <2>1, <2>2 DEF Content
<1> QED BY <1>1, <1>2, <1>3, <1>4

\* Every policy that StateAfter or UpTo describes is Behind the next step.
LEMMA BehindNext ==
  ASSUME NEW q, Tidy(q), NEW n \in Nat
  PROVE  /\ Behind(q, n) => Behind(q, n + 1)
         /\ \A e : Behind(q, n) => UpTo(q, n, e)
         /\ \A e : UpTo(q, n, e) => Behind(q, n + 1)
         /\ \A e \in Nat : UpTo(q, n, e) => UpTo(q, n, e + 1)
<1>1. PICK u \in Updates, m \in Nat : q = State(u, m)
  BY DEF Tidy
<1>2. q.updates = u
  BY <1>1, Setters
<1>3. \A i \in DOMAIN u : u[i].step \in Nat /\ u[i].epoch \in Nat
  <2> DEFINE S == [step : Nat, epoch : Nat]
  <2>1. u \in Seq(S)
    BY DEF Updates
  <2> HIDE DEF S
  <2>2. \A i \in DOMAIN u : u[i] \in S
    BY <2>1
  <2> QED BY <2>2 DEF S
<1>4. Behind(q, n) => Behind(q, n + 1)
  BY <1>2, <1>3 DEF Behind
<1>5. \A e : Behind(q, n) => UpTo(q, n, e)
  BY <1>2, <1>3 DEF Behind, UpTo
<1>6. \A e : UpTo(q, n, e) => Behind(q, n + 1)
  BY <1>2, <1>3 DEF Behind, UpTo
<1>7. \A e \in Nat : UpTo(q, n, e) => UpTo(q, n, e + 1)
  BY <1>2, <1>3 DEF UpTo
<1> QED BY <1>4, <1>5, <1>6, <1>7

\* The policy that a call leaves is the one that the next call expects.
LEMMA FlowArrives ==
  ASSUME NEW p, NEW c, NEW x, NEW q, Place(p), Place(c), Flow(p, c, x), c.verdict = "none",
         Tidy(q), Content(q, p, TRUE)
  PROVE  Content(q, c, FALSE)
<1>0. p.step \in Nat /\ p.group \in Nat /\ p.epoch \in Nat /\ Accum \in Nat
  BY Numbers DEF Place
<1>1. /\ InOrder(q) /\ Behind(q, p.step) /\ q.sampled = p.step * Accum => StateAfter(q, p.step)
      /\ InOrder(q) /\ Behind(q, p.step + 1) /\ q.sampled = (p.step + 1) * Accum
           => StateAfter(q, p.step + 1)
      /\ StateAfter(q, p.step) =>
           InOrder(q) /\ Behind(q, p.step) /\ q.sampled = p.step * Accum
  BY StateAfterIs
\* The windows begin from the state after the windows before.
<1>2. ASSUME StateAfter(q, c.step), c.step \in Nat,
             c.call = "snapshot" \/ (c.call = "preflight" /\ c.group = 1)
      PROVE  Content(q, c, FALSE)
  <2>1. CASE c.call = "snapshot"
    <3>1. c.call \in InWindow
      BY <2>1 DEF InWindow
    <3> QED BY <1>2, <2>1, <3>1, Disjoint, DisjointWithin DEF Content
  <2>2. CASE c.call = "preflight" /\ c.group = 1
    <3>1. c.call \in Grouping /\ c.call \in InWindow
      BY <2>2 DEF InWindow, Grouping
    <3>2. Sampled(c, FALSE) = 0
      BY <2>2 DEF Sampled
    <3>3. c.step * Accum + 0 = c.step * Accum
      BY <1>2, Numbers
    <3>4. InOrder(q) /\ Behind(q, c.step) /\ q.sampled = c.step * Accum
      BY <1>2, StateAfterIs
    <3> QED BY <3>1, <3>2, <3>3, <3>4, Disjoint, DisjointWithin DEF Content
  <2> QED BY <1>2, <2>1, <2>2
\* Between the windows, and in their last part.
<1>3. ASSUME StateAfter(q, c.step + 1), c.call \in Saving \cup {"metrics", "poll"}
      PROVE  Content(q, c, FALSE)
  <2>1. c.call \in InWindow
    BY <1>3 DEF InWindow
  <2> QED BY <1>3, <2>1, Disjoint, DisjointWithin DEF Content
\* While groups are collected.
<1>4. ASSUME p.call \in Grouping \cup Recording \cup Counting \cup {"materialize"},
             c.call \in Grouping \cup Recording \cup Counting \cup {"materialize"},
             c.step = p.step, Sampled(c, FALSE) = Sampled(p, TRUE)
      PROVE  Content(q, c, FALSE)
  <2>1. c.call \in InWindow
    BY <1>4 DEF InWindow
  <2>2. InOrder(q) /\ Behind(q, p.step) /\ q.sampled = p.step * Accum + Sampled(p, TRUE)
    BY <1>4 DEF Content
  <2> QED BY <1>4, <2>1, <2>2, Disjoint, DisjointWithin DEF Content
\* When they all are.
<1>5. ASSUME Full(p) \/ p.call \in Counting
      PROVE  /\ p.call \in Grouping \cup Recording \cup Counting \cup {"materialize"}
             /\ Sampled(p, TRUE) = Accum
             /\ InOrder(q) /\ Behind(q, p.step) /\ q.sampled = (p.step + 1) * Accum
  <2>1. p.call \in Grouping \cup Recording \cup Counting \cup {"materialize"}
    BY <1>5 DEF Full, Grouping, Scored, Recording
  <2>2. Sampled(p, TRUE) = Accum
    BY <1>5 DEF Full, Sampled, Scored, Counting
  <2>3. InOrder(q) /\ Behind(q, p.step) /\ q.sampled = p.step * Accum + Accum
    BY <2>1, <2>2 DEF Content
  <2> QED BY <1>0, <2>1, <2>2, <2>3, Numbers
\* While epochs are applied.
<1>6. ASSUME p.call \in Training
      PROVE  InOrder(q) /\ q.sampled = (p.step + 1) * Accum /\ Behind(q, p.step + 1)
             /\ UpTo(q, p.step, p.epoch + 1)
             /\ (p.call # "post" => UpTo(q, p.step, p.epoch))
  BY <1>0, <1>6, BehindNext DEF Content
<1>7. ASSUME c.call \in Training, InOrder(q), q.sampled = (c.step + 1) * Accum,
             UpTo(q, c.step, c.epoch)
      PROVE  Content(q, c, FALSE)
  <2>1. c.call \in InWindow
    BY <1>7 DEF InWindow
  <2> QED BY <1>7, <2>1, Disjoint, DisjointWithin DEF Content
<1>8. CASE Links(p, c)
  <2>0. c.step = p.step /\ c.group = p.group /\ c.epoch = p.epoch /\ Link(p, c.call)
    BY <1>8 DEF Links, Stays
  <2>1. CASE p.call \in Looking /\ c.call \in Looking
    <3>1. p.call # "apply" /\ c.call \notin InWindow /\ c.call \notin Loading /\ c.call \notin Preparing
      BY <2>1, Disjoint DEF Looking
    <3>2. q = FreshPolicy
      BY <2>1, <3>1 DEF Content
    <3> QED BY <2>1, <3>1, <3>2 DEF Content, InWindow
  <2>2. CASE p.call \in Loading \ {"apply"} /\ c.call \in Loading
    <3>1. c.call \notin InWindow /\ c.call \notin Looking /\ c.call \notin Preparing
      BY <2>2, Disjoint
    <3>2. q = FreshPolicy
      BY <2>2 DEF Content
    <3> QED BY <2>2, <3>1, <3>2 DEF Content, InWindow
  <2>3. CASE p.call \in {"apply"} \cup Preparing /\ c.call \in Preparing
    <3>1. c.call \notin InWindow /\ c.call \notin Looking /\ c.call \notin Loading
      BY <2>3, Disjoint
    <3>2. StateAfter(q, p.step)
      BY <2>3 DEF Content
    <3> QED BY <2>0, <2>3, <3>1, <3>2 DEF Content, InWindow
  <2>4. CASE p.call \in {"preflight", "request"} /\ c.call \in Asking
    <3>1. Sampled(p, TRUE) = p.group - 1 /\ Sampled(c, FALSE) = p.group - 1
      BY <2>0, <2>4 DEF Sampled, Asking
    <3>2. p.call \in Grouping /\ c.call \in Grouping
      <4>1. p.call = "request" => Sharded
        BY <2>4 DEF Place, Looking, Loading, Preparing, InWindow, Grouping, Asking, Scored,
                    Recording, Counting, Training, Saving, Recovering
      <4> QED BY <2>4, <4>1 DEF Grouping, Asking
    <3> QED BY <1>4, <2>0, <3>1, <3>2
  <2>5. CASE p.call \in {"generate"} \cup Scored /\ c.call \in Scored
    <3>1. Sampled(p, TRUE) = p.group /\ Sampled(c, FALSE) = p.group
      BY <2>0, <2>5 DEF Sampled, Scored
    <3>2. p.call \in Grouping /\ c.call \in Grouping
      BY <2>5 DEF Grouping, Asking
    <3> QED BY <1>4, <2>0, <3>1, <3>2
  <2>6. CASE p.call = "finalize" /\ ~LogCandidates /\ c.call = "materialize"
    <3>1. Sampled(p, TRUE) = p.group /\ Sampled(c, FALSE) = p.group
      BY <2>0, <2>6 DEF Sampled, Scored
    <3>2. p.call \in Grouping
      BY <2>6 DEF Grouping, Scored
    <3> QED BY <1>4, <2>0, <2>6, <3>1, <3>2
  <2>7. CASE p.call = "finalize" /\ LogCandidates /\ p.group = Accum /\ c.call = "boundary"
    <3>1. Sampled(p, TRUE) = Accum /\ Sampled(c, FALSE) = Accum
      BY <2>0, <2>7 DEF Sampled, Scored
    <3>2. p.call \in Grouping /\ c.call \in Recording
      BY <2>7 DEF Grouping, Scored, Recording
    <3> QED BY <1>4, <2>0, <3>1, <3>2
  <2>8. CASE p.call = "boundary" /\ c.call = "append"
    <3>1. Sampled(p, TRUE) = Accum /\ Sampled(c, FALSE) = Accum
      BY <2>0, <2>8 DEF Sampled, Scored
    <3>2. p.call \in Recording /\ c.call \in Recording
      BY <2>8 DEF Recording
    <3> QED BY <1>4, <2>0, <3>1, <3>2
  <2>9. CASE (Full(p) /\ c.call = "tokens") \/ (p.call = "tokens" /\ c.call = "livecount")
    <3>1. Full(p) \/ p.call \in Counting
      BY <2>9 DEF Counting
    <3>2. Sampled(c, FALSE) = Accum /\ c.call \in Counting
      BY <2>9 DEF Sampled, Scored, Counting
    <3> QED BY <1>4, <1>5, <2>0, <3>1, <3>2
  <2>10. CASE (Full(p) \/ p.call = "livecount") /\ c.call = "metrics"
    <3>1. Full(p) \/ p.call \in Counting
      BY <2>10 DEF Counting
    <3>2. Behind(q, p.step + 1)
      BY <1>0, <1>5, <3>1, BehindNext
    <3> QED BY <1>1, <1>3, <1>5, <2>0, <2>10, <3>1, <3>2
  <2>11. CASE p.call \in {"backward", "reduction"} /\ c.call \in {"reduction", "post", "idle"}
    <3>1. p.call \in Training /\ c.call \in Training /\ p.call # "post"
      BY <2>11 DEF Training
    <3> QED BY <1>6, <1>7, <2>0, <3>1
  <2>12. CASE p.call \in {"post", "idle"} /\ c.call = "metrics"
    <3>1. p.call \in Training
      BY <2>12 DEF Training
    <3> QED BY <1>1, <1>3, <1>6, <2>0, <2>12, <3>1
  <2>13. CASE p.call \in Saving \cup {"metrics"} /\ c.call \in Saving \cup {"poll"}
    <3>1. StateAfter(q, p.step + 1)
      BY <2>13 DEF Content
    <3> QED BY <1>3, <2>0, <2>13, <3>1
  <2> QED BY <2>0, <2>1, <2>2, <2>3, <2>4, <2>5, <2>6, <2>7, <2>8, <2>9, <2>10, <2>11, <2>12, <2>13
          DEF Link, Saving
<1>9. CASE Collects(p, c)
  <2>0. c.step = p.step
    BY <1>9 DEF Collects, Stays
  <2>1. CASE p.call = "snapshot" /\ c.group = 1
    <3>1. StateAfter(q, p.step)
      BY <2>1 DEF Content
    <3> QED BY <1>0, <1>2, <1>9, <2>0, <2>1, <3>1 DEF Collects
  <2>2. CASE c.group = p.group + 1 /\ (p.call = "finalize" \/ (p.call = "materialize" /\ ~LogCandidates))
    <3>1. Sampled(p, TRUE) = p.group
      BY <2>2 DEF Sampled, Scored
    <3>2. Sampled(c, FALSE) = p.group
      BY <1>0, <1>9, <2>2 DEF Sampled, Collects
    <3>3. c.call \in Grouping /\ p.call \in Grouping \cup {"materialize"}
      BY <1>9, <2>2 DEF Collects, Grouping, Scored
    <3> QED BY <1>4, <2>0, <3>1, <3>2, <3>3
  <2> QED BY <1>9, <2>1, <2>2 DEF Collects
<1>10. CASE Materializes(p, c)
  <2>1. Sampled(p, TRUE) = Accum /\ Sampled(c, FALSE) = Accum
    BY <1>10 DEF Materializes, Sampled, Scored
  <2>2. p.call \in Recording \cup {"materialize"} /\ c.call = "materialize" /\ c.step = p.step
    BY <1>10 DEF Materializes, Stays, Recording
  <2> QED BY <1>4, <2>1, <2>2
<1>11. CASE Trains(p, c)
  <2>0. c.step = p.step /\ c.epoch = p.epoch + 1 /\ c.call \in Training
    BY <1>11 DEF Trains, Stays, Training
  <2>1. CASE Full(p) \/ p.call = "livecount"
    <3>1. Full(p) \/ p.call \in Counting
      BY <2>1 DEF Counting
    <3>2. UpTo(q, p.step, c.epoch)
      BY <1>0, <1>5, <3>1, BehindNext
    <3> QED BY <1>5, <1>7, <2>0, <3>1, <3>2
  <2>2. CASE p.call \in {"post", "idle"}
    <3>1. p.call \in Training
      BY <2>2 DEF Training
    <3> QED BY <1>6, <1>7, <2>0, <3>1
  <2> QED BY <1>11, <2>1, <2>2 DEF Trains
<1>12. CASE Preempts(p, c)
  <2>1. StateAfter(q, p.step + 1)
    BY <1>12 DEF Preempts, Content
  <2>2. c.step = p.step /\ c.call \in Saving
    BY <1>12 DEF Preempts, Saving
  <2> QED BY <1>3, <2>1, <2>2
<1>13. CASE Branches(p, c, x)
  <2>1. p.call \in Looking /\ p.call # "apply"
    BY <1>13 DEF Branches, Looking
  <2>2. q = FreshPolicy /\ PlaceBefore(p)
    BY <2>1, PlaceIs DEF Content
  <2>3. CASE x = 0
    <3>1. c.call \in Preparing /\ c.step = 0
      BY <1>13, <2>1, <2>2, <2>3 DEF Branches, PlaceBefore
    <3>2. c.call \notin InWindow /\ c.call \notin Looking /\ c.call \notin Loading
      BY <3>1, Disjoint
    <3> QED BY <2>2, <3>1, <3>2, FreshIsTidy DEF Content, InWindow
  <2>4. CASE x # 0
    <3>1. c.call \in Loading
      BY <1>13, <2>4 DEF Branches, LoadResumePoint, Loading
    <3>2. c.call \notin InWindow /\ c.call \notin Looking /\ c.call \notin Preparing
      BY <3>1, Disjoint
    <3> QED BY <2>2, <3>1, <3>2 DEF Content, InWindow
  <2> QED BY <2>3, <2>4
<1>14. CASE Opens(p, c)
  <2>1. StateAfter(q, p.step)
    BY <1>14 DEF Opens, Content, Preparing
  <2> QED BY <1>0, <1>2, <1>14, <2>1 DEF Opens, Enters
<1>15. CASE StepsOn(p, c)
  <2>1. StateAfter(q, p.step + 1)
    BY <1>15 DEF StepsOn, Content
  <2>2. c.step = p.step + 1 /\ (c.call = "snapshot" \/ (c.call = "preflight" /\ c.group = 1))
    BY <1>15 DEF StepsOn, Enters
  <2>3. StateAfter(q, c.step) /\ c.step \in Nat
    BY <1>0, <2>1, <2>2
  <2> QED BY <1>2, <2>2, <2>3
<1>16. ~Yields(p, c)
  BY DEF Yields
<1> QED BY <1>8, <1>9, <1>10, <1>11, <1>12, <1>13, <1>14, <1>15, <1>16 DEF Flow

(***************************************************************************)
(* What the work of a rank touches besides its policy.                     *)
(***************************************************************************)
Touches(r) ==
  /\ pos[r].call # "metrics" => metrics' = metrics
  /\ pos[r].call \notin {"capture", "snapshot", "preflight"} => prestate' = prestate
  /\ pos[r].call \notin {"append", "truncate"} => candidates' = candidates /\ torn' = torn
  /\ pos[r].call # "boundary" => mark' = mark

Acts(r) ==
  /\ pos[r].call = "capture" => CapturePrestate(r)
  /\ pos[r].call = "discover" => ScanLocalResume(r)
  /\ pos[r].call = "unresume" => RollbackResume(r)
  /\ pos[r].call = "rollback" => RollbackGroups(r)
  /\ pos[r].call = "snapshot" => SnapshotWindow(r)
  /\ pos[r].call = "preflight" => PreflightGroup(r)
  /\ pos[r].call = "boundary" => CandidateBoundary(r)
  /\ pos[r].call = "append" => AppendCandidates(r)
  /\ pos[r].call = "truncate" => TruncateCandidates(r)
  /\ pos[r].call = "metrics" => AppendMetrics(r)

LEMMA WorkTouches ==
  ASSUME NEW r \in Ranks, LocalWork(r)
  PROVE  Touches(r) /\ Acts(r)
<1>1. CASE Check(r)
  BY <1>1 DEF Check, At, Touches, Acts, memory, disk, Checks
<1>2. CASE AnnouncePublication(r)
  BY <1>2 DEF AnnouncePublication, At, Touches, Acts, memory, disk
<1>3. CASE CapturePrestate(r)
  <2>1. pos[r].call = "capture"
    BY <1>3 DEF CapturePrestate, At
  <2>2. Touches(r)
    BY <1>3, <2>1 DEF CapturePrestate, Touches, memory, disk
  <2> QED BY <1>3, <2>1, <2>2 DEF Acts
<1>4. CASE ScanLocalResume(r)
  <2>1. pos[r].call = "discover"
    BY <1>4 DEF ScanLocalResume, At
  <2>2. Touches(r)
    BY <1>4, <2>1 DEF ScanLocalResume, Touches, memory, disk
  <2> QED BY <1>4, <2>1, <2>2 DEF Acts
<1>5. CASE ApplyCheckpoint(r)
  BY <1>5 DEF ApplyCheckpoint, At, Touches, Acts, memory, disk
<1>6. CASE RollbackResume(r)
  <2>1. pos[r].call = "unresume"
    BY <1>6 DEF RollbackResume, At
  <2>2. Touches(r)
    BY <1>6, <2>1 DEF RollbackResume, Touches, memory, disk
  <2> QED BY <1>6, <2>1, <2>2 DEF Acts
<1>7. CASE RollbackGroups(r)
  <2>1. pos[r].call = "rollback"
    BY <1>7 DEF RollbackGroups, At
  <2>2. Touches(r)
    BY <1>7, <2>1 DEF RollbackGroups, Touches, memory, disk
  <2> QED BY <1>7, <2>1, <2>2 DEF Acts
<1>8. CASE SnapshotWindow(r)
  <2>1. pos[r].call = "snapshot"
    BY <1>8 DEF SnapshotWindow, At
  <2>2. Touches(r)
    BY <1>8, <2>1 DEF SnapshotWindow, Touches, memory, disk
  <2> QED BY <1>8, <2>1, <2>2 DEF Acts
<1>9. CASE PreflightGroup(r)
  <2>1. pos[r].call = "preflight"
    BY <1>9 DEF PreflightGroup, At
  <2>2. Touches(r)
    BY <1>9, <2>1 DEF PreflightGroup, Touches, memory, disk
  <2> QED BY <1>9, <2>1, <2>2 DEF Acts
<1>10. CASE Generate(r)
  BY <1>10 DEF Generate, At, Touches, Acts, memory, disk
<1>11. CASE ScoreGroup(r)
  BY <1>11 DEF ScoreGroup, At, Touches, Acts, memory, disk
<1>12. CASE BroadcastRewards(r)
  BY <1>12 DEF BroadcastRewards, At, Touches, Acts, memory, disk
<1>13. CASE MaterializeGroup(r)
  BY <1>13 DEF MaterializeGroup, At, Touches, Acts, memory, disk
<1>14. CASE CandidateBoundary(r)
  <2>1. pos[r].call = "boundary"
    BY <1>14 DEF CandidateBoundary, At
  <2>2. Touches(r)
    BY <1>14, <2>1 DEF CandidateBoundary, Touches, memory, disk
  <2> QED BY <1>14, <2>1, <2>2 DEF Acts
<1>15. CASE AppendCandidates(r)
  <2>1. pos[r].call = "append"
    BY <1>15 DEF AppendCandidates, At
  <2>2. Touches(r)
    BY <1>15, <2>1 DEF AppendCandidates, Touches, memory, disk
  <2> QED BY <1>15, <2>1, <2>2 DEF Acts
<1>16. CASE TruncateCandidates(r)
  <2>1. pos[r].call = "truncate"
    BY <1>16 DEF TruncateCandidates, At
  <2>2. Touches(r)
    BY <1>16, <2>1 DEF TruncateCandidates, Touches, memory, disk
  <2> QED BY <1>16, <2>1, <2>2 DEF Acts
<1>17. CASE CountWindow(r)
  BY <1>17 DEF CountWindow, At, Touches, Acts, memory, disk
<1>18. CASE ReduceEpoch(r)
  BY <1>18 DEF ReduceEpoch, At, Touches, Acts, memory, disk
<1>19. CASE StepOptimizer(r)
  BY <1>19 DEF StepOptimizer, At, Touches, Acts, memory, disk
<1>20. CASE AppendMetrics(r)
  <2>1. pos[r].call = "metrics"
    BY <1>20 DEF AppendMetrics, At
  <2>2. Touches(r)
    BY <1>20, <2>1 DEF AppendMetrics, Touches, memory, disk
  <2> QED BY <1>20, <2>1, <2>2 DEF Acts
<1>21. CASE PublishCheckpoint(r)
  BY <1>21 DEF PublishCheckpoint, At, Touches, Acts, memory, disk
<1>22. CASE PollPreemption(r)
  BY <1>22 DEF PollPreemption, At, Touches, Acts, memory, disk
<1> QED BY <1>1, <1>2, <1>3, <1>4, <1>5, <1>6, <1>7, <1>8, <1>9, <1>10, <1>11, <1>12, <1>13, <1>14, <1>15, <1>16, <1>17, <1>18, <1>19, <1>20, <1>21, <1>22, Zenon DEF LocalWork

(***************************************************************************)
(* The run: where it is, what the ranks hold, and what is on disk.         *)
(***************************************************************************)
\* Only the primary scans; what it gives names the newest checkpoint.
ScanIs(r) ==
  pos[r].call = "discover" /\ r \in entered /\ ~gives[r].failed =>
    gives[r].value = IF r = Primary /\ Newest # 0 THEN Newest + 1 ELSE 0

\* A sound rank holds what its place in the run says.
Carries(r) ==
  Sound(r) => Tidy(policy[r]) /\ Tidy(After(r)) /\ Content(After(r), pos[r], TRUE)

\* A checkpoint is the state after its step, and behind the telemetry.
Whole(n) ==
  store[n] # NoPolicy =>
    /\ Tidy(store[n]) /\ StateAfter(store[n], n)
    /\ \A r \in Ranks : Writes(r) => 0..(n - 1) \subseteq ToSet(metrics[r])

StreamShape ==
  /\ metrics = [r \in Ranks |-> metrics[r]]
  /\ \A r \in Ranks : metrics[r] \in Seq(Nat)

\* r is past the telemetry of step n.
Past(r, n) ==
  \/ n < pos[r].step
  \/ /\ n = pos[r].step
     /\ \/ pos[r].call \in Saving \cup {"poll"}
        \/ pos[r].call = "metrics" /\ r \in entered /\ ~gives[r].failed
Written(r) == Writes(r) => \A n \in 0..(Steps - 1) : Past(r, n) => n \in ToSet(metrics[r])

\* The steps that may be published when the run is at p.
Reachable(p) == IF p.call \in {"publish", "poll"} \/ p.stop = TRUE THEN p.step + 1 ELSE p.step

NoneAhead(r) ==
  pos[r].call \in Loading \cup Preparing \cup InWindow =>
    \A n \in 1..Steps : store[n] # NoPolicy => n <= Reachable(pos[r])

Found(r) ==
  pos[r].call \in Loading \cup Preparing /\ pos[r].step > 0 => store[pos[r].step] # NoPolicy

Covered(r) ==
  pos[r].call = "poll" /\ pos[r].verdict = "none" /\ Due(pos[r].step + 1) =>
    store[pos[r].step + 1] # NoPolicy

Published(r) ==
  pos[r].call = "publish" /\ r = Primary /\ r \in entered /\ ~gives[r].failed =>
    store[pos[r].step + 1] = policy[r]

RunInv ==
  /\ \A r \in Ranks : Place(pos[r]) /\ ScanIs(r) /\ Carries(r)
  /\ StreamShape /\ \A n \in 1..Steps : Whole(n)
  /\ \A r \in Ranks : Written(r) /\ NoneAhead(r) /\ Found(r) /\ Covered(r) /\ Published(r)

LEMMA AppendKeeps ==
  ASSUME NEW S, NEW s \in Seq(S), NEW e \in S
  PROVE  /\ Append(s, e) \in Seq(S)
         /\ ToSet(s) \subseteq ToSet(Append(s, e)) /\ e \in ToSet(Append(s, e))
<1>1. /\ Append(s, e) \in Seq(S) /\ Len(Append(s, e)) = Len(s) + 1 /\ Len(s) \in Nat
      /\ Append(s, e)[Len(s) + 1] = e /\ \A i \in 1..Len(s) : Append(s, e)[i] = s[i]
  OBVIOUS
<1>2. DOMAIN s = 1..Len(s) /\ DOMAIN Append(s, e) = 1..(Len(s) + 1)
  BY <1>1
<1> QED BY <1>1, <1>2 DEF ToSet

LEMMA NewestIs ==
  /\ Newest \in 0..Steps
  /\ Newest = 0 => \A n \in 1..Steps : store[n] = NoPolicy
  /\ Newest # 0 => /\ Newest \in 1..Steps /\ store[Newest] # NoPolicy
                   /\ \A n \in 1..Steps : store[n] # NoPolicy => n <= Newest
<1> DEFINE S == {n \in 1..Steps : store[n] # NoPolicy}
           D == {Steps - n : n \in S}
<1>0. Steps \in Nat
  BY Numbers
<1>1. CASE S = {}
  BY <1>0, <1>1 DEF Newest
<1>2. CASE S # {}
  <2>1. D \subseteq Nat /\ D # {}
    BY <1>0, <1>2
  <2>2. PICK d \in D : \A k \in D : d <= k
    <3> HIDE DEF D
    <3> QED BY <2>1, LeastNatural
  <2>3. PICK n \in S : d = Steps - n
    OBVIOUS
  <2>4. ASSUME NEW m \in S PROVE m <= n
    <3>1. d <= Steps - m
      BY <2>2
    <3> QED BY <1>0, <2>3, <3>1
  <2>5. \E k \in S : \A m \in S : m <= k
    BY <2>3, <2>4
  <2>6. Newest = CHOOSE k \in S : \A m \in S : m <= k
    BY <1>2 DEF Newest
  <2>7. Newest \in S /\ \A m \in S : m <= Newest
    <3> HIDE DEF S
    <3> QED BY <2>5, <2>6
  <2> QED BY <1>0, <2>7
<1> QED BY <1>1, <1>2

LEMMA StartIsPlace ==
  Place(Start) /\ Start.call \in Looking /\ Start.verdict = "none"
  /\ Start.step = 0 /\ Start.call # "discover" /\ Start.stop # TRUE
<1>1. Start.call \in Looking /\ Start.call # "discover"
  BY DEF Start, ResumeLatest, Looking
<1>2. Ranges(Start) /\ Start.stop # TRUE /\ Start.resumed # TRUE /\ Start.step = 0
  BY Numbers DEF Start, Ranges, AllFields
<1>3. Start.call \notin Loading /\ Start.call \notin Preparing
  BY <1>1, Disjoint
<1>4. PlaceBefore(Start)
  BY <1>1, <1>2, <1>3 DEF PlaceBefore
<1>5. Start.verdict = "none"
  BY DEF Start
<1> QED BY <1>1, <1>2, <1>4, <1>5, PlaceIs

\* The state of a rank that a launch has just started.
LEMMA StartedCarries ==
  ASSUME NEW r \in Ranks, pos[r] = Start, policy[r] = FreshPolicy, r \notin entered
  PROVE  /\ Place(pos[r]) /\ ScanIs(r) /\ Carries(r)
         /\ Written(r) /\ NoneAhead(r) /\ Found(r) /\ Covered(r) /\ Published(r)
<1>1. pos[r].call \notin Loading /\ pos[r].call \notin Preparing /\ pos[r].call \notin InWindow
  BY StartIsPlace, Disjoint
<1>2. /\ pos[r].call \notin Grouping \cup Recording \cup Counting \cup {"materialize"}
      /\ pos[r].call \notin Training /\ pos[r].call \notin Saving \cup {"metrics", "poll"}
      /\ pos[r].call # "snapshot" /\ pos[r].call # "publish"
  BY <1>1 DEF InWindow, Saving
<1>3. pos[r].call \notin {"apply", "generate", "post"}
  BY StartIsPlace DEF Looking
<1>4. After(r) = FreshPolicy
  BY <1>3, NoEffect, FreshIsTidy DEF After
<1>5. Content(FreshPolicy, pos[r], TRUE)
  BY <1>1, <1>2, <1>3, StartIsPlace DEF Content
<1>6. Carries(r)
  BY <1>4, <1>5, FreshIsTidy DEF Carries
<1>7. Written(r)
  BY <1>2, StartIsPlace DEF Written, Past
<1> QED BY <1>1, <1>2, <1>6, <1>7, StartIsPlace
        DEF ScanIs, NoneAhead, Found, Covered, Published

\* The same, of any state.
Starts(r) == pos[r] = Start /\ policy[r] = FreshPolicy /\ r \notin entered
Ready(r) ==
  /\ Place(pos[r]) /\ ScanIs(r) /\ Carries(r)
  /\ Written(r) /\ NoneAhead(r) /\ Found(r) /\ Covered(r) /\ Published(r)

StartsReady == \A r \in Ranks : Starts(r) => Ready(r)

LEMMA StartedIsReady == StartsReady
BY StartedCarries DEF Starts, Ready, StartsReady

LEMMA RunInit == ASSUME Init PROVE RunInv
<1>1. \A r \in Ranks : pos[r] = Start /\ policy[r] = FreshPolicy /\ r \notin entered
  BY DEF Init, Boot
<1>2. StreamShape
  BY DEF Init, StreamShape
<1>3. \A n \in 1..Steps : Whole(n)
  BY DEF Init, Whole
<1> QED BY <1>1, <1>2, <1>3, StartedCarries DEF RunInv

(***************************************************************************)
(* The work of a rank keeps the run.                                       *)
(***************************************************************************)
LEMMA InvPlace ==
  ASSUME RunInv, NEW r \in Ranks
  PROVE  /\ Place(pos[r]) /\ Ranges(pos[r]) /\ pos[r].step \in Nat
         /\ ~Over(r) /\ pos[r].call \in InWindow => pos[r].step + 1 \in 1..Steps
<1>1. Place(pos[r]) /\ Ranges(pos[r])
  BY PlaceIs DEF RunInv
<1>2. pos[r].step \in 0..Steps /\ Steps \in Nat
  BY <1>1, Numbers DEF Ranges
<1>3. ~Over(r) /\ pos[r].call \in InWindow => pos[r].step < Steps
  BY <1>1, PlaceIs DEF PlaceWithin, Over
<1> QED BY <1>1, <1>2, <1>3

\* The store changes only when the primary publishes the policy of its step.
Saves(r) ==
  /\ pos[r].call = "publish" /\ r = Primary /\ pos[r].step + 1 \in 1..Steps
  /\ store' = [store EXCEPT ![pos[r].step + 1] = policy[r]]
  /\ Tidy(policy[r]) /\ StateAfter(policy[r], pos[r].step + 1)

LEMMA WorkOnStore ==
  ASSUME NEW r \in Ranks, LocalWork(r), World, RunInv
  PROVE  store' = store \/ Saves(r)
<1>1. CASE pos[r].call # "publish"
  BY <1>1, WorkOnPolicy DEF World
<1>2. CASE pos[r].call = "publish"
  <2>1. PublishCheckpoint(r) /\ ~Over(r) /\ r \notin entered
    BY <1>2, WorkOnPolicy, WorkEnters DEF World
  <2>2. store' = store \/ (r = Primary /\ store' = [store EXCEPT ![pos[r].step + 1] = policy[r]])
    BY <2>1 DEF PublishCheckpoint
  <2>3. Sound(r)
    BY <1>2, <2>1 DEF Sound, Recovering
  <2>4. pos[r].call \in Saving /\ pos[r].call \in InWindow
    BY <1>2 DEF Saving, InWindow
  <2>5. After(r) = policy[r] /\ Tidy(policy[r])
    BY <1>2, <2>1, <2>3, NoEffect DEF RunInv, Carries, After
  <2>6. StateAfter(policy[r], pos[r].step + 1)
    BY <2>3, <2>4, <2>5 DEF RunInv, Carries, Content
  <2>7. pos[r].step + 1 \in 1..Steps
    BY <2>1, <2>4, InvPlace
  <2> QED BY <1>2, <2>2, <2>5, <2>6, <2>7 DEF Saves
<1> QED BY <1>1, <1>2

\* What is published stays published.
LEMMA WorkKeepsPublished ==
  ASSUME NEW r \in Ranks, LocalWork(r), World, RunInv, NEW n \in 1..Steps
  PROVE  /\ store[n] # NoPolicy => store'[n] # NoPolicy
         /\ store'[n] # store[n] => Saves(r) /\ n = pos[r].step + 1 /\ store'[n] = policy[r]
<1>1. CASE store' = store
  BY <1>1
<1>2. CASE Saves(r)
  <2>1. store'[n] = IF n = pos[r].step + 1 THEN policy[r] ELSE store[n]
    BY <1>2 DEF Saves, World, StateShape
  <2>2. policy[r] # NoPolicy
    BY <1>2, FreshIsTidy DEF Saves
  <2> QED BY <1>2, <2>1, <2>2
<1> QED BY <1>1, <1>2, WorkOnStore

LEMMA WorkOnMetrics ==
  ASSUME NEW r \in Ranks, LocalWork(r), World, RunInv
  PROVE  /\ StreamShape'
         /\ \A s \in Ranks : ToSet(metrics[s]) \subseteq ToSet(metrics'[s])
         /\ pos[r].call = "metrics" /\ Writes(r) /\ ~gives'[r].failed =>
              pos[r].step \in ToSet(metrics'[r])
<1>1. CASE pos[r].call # "metrics"
  BY <1>1, WorkTouches DEF Touches, RunInv, StreamShape
<1>2. CASE pos[r].call = "metrics"
  <2>1. AppendMetrics(r)
    BY <1>2, WorkTouches DEF Acts
  <2>2. pos[r].step \in Nat
    BY InvPlace
  <2>3. /\ metrics[r] \in Seq(Nat)
        /\ metrics = [s \in Ranks |-> metrics[s]]
    BY DEF RunInv, StreamShape
  <2>4. /\ Append(metrics[r], pos[r].step) \in Seq(Nat)
        /\ ToSet(metrics[r]) \subseteq ToSet(Append(metrics[r], pos[r].step))
        /\ pos[r].step \in ToSet(Append(metrics[r], pos[r].step))
    BY <2>2, <2>3, AppendKeeps
  <2>5. CASE Writes(r) /\ ~gives'[r].failed
    <3>1. metrics' = [metrics EXCEPT ![r] = Append(@, pos[r].step)]
      BY <2>1, <2>5 DEF AppendMetrics
    <3>2. /\ metrics' = [s \in Ranks |-> metrics'[s]]
          /\ metrics'[r] = Append(metrics[r], pos[r].step)
          /\ \A s \in Ranks : s # r => metrics'[s] = metrics[s]
      BY <2>3, <3>1
    <3> QED BY <2>4, <3>2 DEF RunInv, StreamShape
  <2>6. CASE ~(Writes(r) /\ ~gives'[r].failed)
    <3>1. metrics' = metrics
      BY <2>1, <2>6 DEF AppendMetrics
    <3> QED BY <2>6, <3>1 DEF RunInv, StreamShape
  <2> QED BY <2>5, <2>6
<1> QED BY <1>1, <1>2

LEMMA WorkKeepsRun ==
  ASSUME NEW r \in Ranks, LocalWork(r), World, RunInv
  PROVE  RunInv'
<1>1. /\ pos' = pos /\ ~Over(r) /\ r \notin entered /\ entered' = entered \cup {r}
  BY WorkEnters
<1>2. /\ \A s \in Ranks : s # r => policy'[s] = policy[s] /\ gives'[s] = gives[s]
      /\ pos[r].call = "publish" => policy' = policy /\ PublishCheckpoint(r)
      /\ pos[r].call \notin Recovering /\ ~gives'[r].failed => policy'[r] = After(r)
  BY WorkOnPolicy DEF World
<1>3. \A s \in Ranks : pos[s].call = pos[r].call /\ pos[s].step = pos[r].step
  BY DEF World, SamePlace
<1>4. \A s \in Ranks : Place(pos[s])'
  BY <1>1 DEF RunInv
<1>5. ASSUME NEW s \in Ranks PROVE ScanIs(s)'
  <2> SUFFICES ASSUME pos[s].call = "discover", s \in entered', ~gives'[s].failed
               PROVE  gives'[s].value = IF s = Primary /\ Newest' # 0 THEN Newest' + 1 ELSE 0
    BY <1>1 DEF ScanIs
  <2>1. pos[r].call = "discover"
    BY <1>3
  <2>2. store' = store
    BY <2>1, WorkOnPolicy DEF World
  <2>3. Newest' = Newest
    BY <2>2 DEF Newest
  <2>4. CASE s # r
    BY <1>1, <1>2, <2>3, <2>4 DEF RunInv, ScanIs
  <2>5. CASE s = r
    <3>1. ScanLocalResume(r)
      BY <2>1, WorkTouches DEF Acts
    <3>2. \/ r # Primary /\ gives'[r].value = 0
          \/ r = Primary /\ gives'[r].value = IF Newest = 0 THEN 0 ELSE Newest + 1
      BY <2>5, <3>1 DEF ScanLocalResume, Join, Enter, World, StateShape
    <3> QED BY <2>3, <2>5, <3>2
  <2> QED BY <2>4, <2>5
<1>6. ASSUME NEW s \in Ranks PROVE Carries(s)'
  <2> SUFFICES ASSUME Sound(s)'
               PROVE  Tidy(policy'[s]) /\ Tidy(After(s)') /\ Content(After(s)', pos'[s], TRUE)
    BY DEF Carries
  <2>1. Sound(s) /\ After(s)' = After(s)
    BY WorkKeepsAfter
  <2>2. Tidy(policy'[s])
    <3>1. CASE s # r
      BY <1>2, <2>1, <3>1 DEF RunInv, Carries
    <3>2. CASE s = r
      <4>1. policy'[r] = After(r)
        BY <1>1, <1>2, <2>1, <3>2 DEF Sound
      <4> QED BY <2>1, <3>2, <4>1 DEF RunInv, Carries
    <3> QED BY <3>1, <3>2
  <2> QED BY <1>1, <2>1, <2>2 DEF RunInv, Carries
<1>7. ASSUME NEW n \in 1..Steps PROVE Whole(n)'
  <2>1. CASE store'[n] = store[n]
    BY <2>1, WorkOnMetrics DEF RunInv, Whole, Writes
  <2>2. CASE store'[n] # store[n]
    <3>1. Saves(r) /\ n = pos[r].step + 1 /\ store'[n] = policy[r]
      BY <2>2, WorkKeepsPublished
    <3>2. ASSUME NEW s \in Ranks, Writes(s) PROVE 0..(n - 1) \subseteq ToSet(metrics[s])
      <4>1. pos[s].call \in Saving /\ pos[s].step = pos[r].step
        BY <1>3, <3>1 DEF Saves, Saving
      <4>2. \A m \in 0..(n - 1) : m \in 0..(Steps - 1) /\ Past(s, m)
        BY <3>1, <4>1, InvPlace, Numbers DEF Past
      <4> QED BY <3>2, <4>2 DEF RunInv, Written
    <3>3. \A s \in Ranks : Writes(s) => 0..(n - 1) \subseteq ToSet(metrics'[s])
      BY <3>2, WorkOnMetrics
    <3> QED BY <3>1, <3>3 DEF Whole, Saves, Writes
  <2> QED BY <2>1, <2>2
<1>8. ASSUME NEW s \in Ranks PROVE Written(s)'
  <2> SUFFICES ASSUME Writes(s), NEW n \in 0..(Steps - 1), Past(s, n)'
               PROVE  n \in ToSet(metrics'[s])
    BY DEF Written, Writes
  <2>1. CASE Past(s, n)
    BY <2>1, WorkOnMetrics DEF RunInv, Written
  <2>2. CASE ~Past(s, n)
    <3>1. s = r /\ pos[r].call = "metrics" /\ n = pos[r].step /\ ~gives'[r].failed
      BY <1>1, <1>2, <2>2 DEF Past
    <3> QED BY <3>1, WorkOnMetrics
  <2> QED BY <2>1, <2>2
<1>9. ASSUME NEW s \in Ranks PROVE NoneAhead(s)'
  <2> SUFFICES ASSUME pos[s].call \in Loading \cup Preparing \cup InWindow,
                      NEW n \in 1..Steps, store'[n] # NoPolicy
               PROVE  n <= Reachable(pos[s])
    BY <1>1 DEF NoneAhead
  <2>1. CASE store'[n] = store[n]
    BY <2>1 DEF RunInv, NoneAhead
  <2>2. CASE store'[n] # store[n]
    <3>1. pos[r].call = "publish" /\ n = pos[r].step + 1
      BY <2>2, WorkKeepsPublished DEF Saves
    <3>2. Reachable(pos[s]) = pos[s].step + 1
      BY <1>3, <3>1 DEF Reachable
    <3> QED BY <1>3, <3>1, <3>2
  <2> QED BY <2>1, <2>2
<1>10. ASSUME NEW s \in Ranks PROVE Found(s)' /\ Covered(s)'
  <2>0. Ranges(pos[s])
    BY PlaceIs DEF RunInv
  <2>1. pos[s].step > 0 => pos[s].step \in 1..Steps
    BY <2>0, Numbers DEF Ranges
  <2>2. Found(s)'
    BY <1>1, <2>1, WorkKeepsPublished DEF RunInv, Found
  <2>3. pos[s].call = "poll" /\ pos[s].verdict = "none" => pos[s].step + 1 \in 1..Steps
    BY InvPlace DEF InWindow, Over
  <2>4. Covered(s)'
    BY <1>1, <2>3, WorkKeepsPublished DEF RunInv, Covered, Due
  <2> QED BY <2>2, <2>4
<1>11. ASSUME NEW s \in Ranks PROVE Published(s)'
  <2> SUFFICES ASSUME pos[s].call = "publish", s = Primary, s \in entered', ~gives'[s].failed
               PROVE  store'[pos[s].step + 1] = policy'[s]
    BY <1>1 DEF Published
  <2>1. pos[r].call = "publish" /\ policy' = policy /\ PublishCheckpoint(r)
    BY <1>2, <1>3
  <2>2. CASE s # r
    <3>1. store' = store
      BY <2>1, <2>2 DEF PublishCheckpoint
    <3> QED BY <1>1, <1>2, <2>1, <2>2, <3>1 DEF RunInv, Published
  <2>3. CASE s = r
    <3>1. store' = [store EXCEPT ![pos[r].step + 1] = policy[r]]
      <4>1. gives' = [gives EXCEPT ![r] = gives'[r]] /\ DOMAIN gives = Ranks
        BY <2>1 DEF PublishCheckpoint, Join, Enter, World, StateShape
      <4>2. \A v : gives' = [gives EXCEPT ![r] = [failed |-> TRUE, value |-> v]] => gives'[r].failed
        BY <4>1
      <4> QED BY <2>1, <2>3, <4>2 DEF PublishCheckpoint, Join, Enter
    <3>2. pos[r].step + 1 \in 1..Steps
      BY <1>1, <2>1, InvPlace DEF InWindow, Saving
    <3>3. store'[pos[r].step + 1] = policy[r]
      BY <3>1, <3>2 DEF World, StateShape
    <3> QED BY <2>1, <2>3, <3>3
  <2> QED BY <2>2, <2>3
<1>12. StreamShape'
  BY WorkOnMetrics
<1> QED BY <1>4, <1>5, <1>6, <1>7, <1>8, <1>9, <1>10, <1>11, <1>12 DEF RunInv

(***************************************************************************)
(* A reduction keeps the run.                                              *)
(***************************************************************************)
\* The scan of the primary reaches every rank.
LEMMA ScanSum ==
  ASSUME Reduce, World, RunInv, NEW r \in Ranks, pos[r].call = "discover", ~AnyFailure(r)
  PROVE  Sum = IF Newest # 0 THEN Newest + 1 ELSE 0
<1> DEFINE f == [s \in Ranks |-> gives[s].value]
           v == IF Newest # 0 THEN Newest + 1 ELSE 0
<1>1. \A s \in Ranks : pos[s].call = "discover" /\ s \in entered /\ ~gives[s].failed
  BY DEF Reduce, World, SamePlace, AnyFailure
<1>2. \A s \in Ranks : f[s] = IF s = Primary /\ Newest # 0 THEN Newest + 1 ELSE 0
  BY <1>1 DEF RunInv, ScanIs
<1>3. v \in Int /\ Primary \in Ranks
  BY NewestIs, Numbers, RunAssumption
<1>4. DOMAIN f = Ranks /\ f[Primary] = v /\ \A s \in Ranks : s # Primary => f[s] = 0
  BY <1>2, <1>3
<1> HIDE DEF f, v
<1>5. SumFunction(f) = v
  BY <1>3, <1>4, OneTerm
<1> QED BY <1>5 DEF f, v, Sum

\* How r goes on from a reduction.
Proceeds(r) ==
  \/ /\ Errs(pos[r], pos'[r]) /\ AnyFailure(r)
  \/ /\ Recovers(pos[r], pos'[r]) /\ ~AnyFailure(r) /\ pos[r].call \in Recovering
  \/ /\ Flow(pos[r], pos'[r], Sum) /\ ~AnyFailure(r) /\ pos[r].call \notin Recovering

LEMMA ReduceProceeds ==
  ASSUME Reduce, World, RunInv, NEW r \in Ranks
  PROVE  /\ pos[r].verdict = "none" /\ r \in entered
         /\ Proceeds(r) /\ Place(pos'[r]) /\ AllFields \subseteq DOMAIN pos'[r]
<1>1. pos[r].verdict = "none" /\ r \in entered
  BY DEF Reduce, World, Lockstep, Shape, Over
<1>2. Place(pos[r])
  BY InvPlace
<1>3. pos'[r] = IF AnyFailure(r) THEN Fail(pos[r], Sum) ELSE Succeed(pos[r], r, Sum)
  BY DEF Reduce
<1>4. AllFields \subseteq DOMAIN pos'[r]
  <2>1. DOMAIN Fail(pos[r], Sum) = DOMAIN pos[r]
    BY GoingOnKeepsFields
  <2>2. DOMAIN Succeed(pos[r], r, Sum) = DOMAIN pos[r]
    BY GoingOnKeepsFields
  <2> QED BY <1>2, <1>3, <2>1, <2>2 DEF Place
<1>5. CASE AnyFailure(r)
  <2>1. Errs(pos[r], pos'[r])
    BY <1>1, <1>2, <1>3, <1>5, FailErrs
  <2> QED BY <1>1, <1>2, <1>4, <1>5, <2>1, ErrsToPlace DEF Proceeds
<1>6. CASE ~AnyFailure(r) /\ pos[r].call \in Recovering
  <2>1. Recovers(pos[r], pos'[r])
    BY <1>1, <1>2, <1>3, <1>6, RecoveryIs
  <2> QED BY <1>1, <1>2, <1>4, <1>6, <2>1, RecoversToPlace DEF Proceeds
<1>7. CASE ~AnyFailure(r) /\ pos[r].call \notin Recovering
  <2>1. Flow(pos[r], pos'[r], Sum)
    BY <1>1, <1>2, <1>3, <1>7, FlowIs
  <2>2. pos[r].call = "discover" /\ Sum # 0 => Sum - 1 \in 1..Steps
    BY <1>7, ScanSum, NewestIs, Numbers
  <2>3. Place(pos'[r])
    BY <1>1, <1>2, <1>4, <2>1, <2>2, FlowToPlace
  <2> QED BY <1>1, <1>4, <1>7, <2>1, <2>3 DEF Proceeds
<1> QED BY <1>5, <1>6, <1>7

\* A rank that is in the run after a reduction has not failed in it.
LEMMA ReduceStaysSound ==
  ASSUME Reduce, World, RunInv, NEW r \in Ranks, ~AnyFailure(r), pos[r].call \notin Recovering
  PROVE  /\ Flow(pos[r], pos'[r], Sum) /\ Sound(r) /\ After(r) = policy[r]
         /\ Tidy(policy[r]) /\ Content(policy[r], pos[r], TRUE)
<1>1. pos[r].verdict = "none" /\ r \in entered /\ Proceeds(r)
  BY ReduceProceeds
<1>2. Sound(r)
  BY <1>1 DEF Sound, Over, AnyFailure
<1>3. After(r) = policy[r]
  BY <1>1 DEF After
<1> QED BY <1>1, <1>2, <1>3 DEF Proceeds, RunInv, Carries

LEMMA ErrsLeaves ==
  ASSUME NEW p, NEW c, Errs(p, c) \/ Recovers(p, c)
  PROVE  /\ c.verdict # "none" \/ c.call \in Recovering
         /\ c.call = p.call \/ c.call \in Recovering
         /\ c.step = p.step /\ c.stop = p.stop
BY DEF Errs, Recovers, Kept, Undoes, Recovering

LEMMA ReduceFinds ==
  ASSUME Reduce, World, RunInv, NEW r \in Ranks,
         pos'[r].call \in Loading \cup Preparing, pos'[r].step > 0
  PROVE  store[pos'[r].step] # NoPolicy
<1> DEFINE p == pos[r]
           c == pos'[r]
<1>1. p.verdict = "none" /\ Proceeds(r) /\ Place(c) /\ Place(p)
  BY ReduceProceeds, InvPlace
<1>2. c.call \notin Looking /\ c.call \notin InWindow /\ c.call \notin Recovering
  BY Disjoint
<1>3. CASE p.call \in Loading \cup Preparing /\ c.step = p.step
  BY <1>3 DEF RunInv, Found
<1>4. CASE Branches(p, c, Sum) /\ ~AnyFailure(r)
  <2>1. Sum = IF Newest # 0 THEN Newest + 1 ELSE 0
    BY <1>4, ScanSum DEF Branches
  <2>2. p.step = 0
    BY <1>1, <1>4, PlaceIs DEF Branches, PlaceBefore, Looking
  <2>3. Sum # 0 /\ c.step = Sum - 1
    BY <1>4, <2>2 DEF Branches
  <2>4. c.step = Newest /\ Newest # 0
    BY <2>1, <2>3, NewestIs, Numbers
  <2> QED BY <2>4, NewestIs
<1>5. (Errs(p, c) \/ Recovers(p, c)) => p.call \in Loading \cup Preparing /\ c.step = p.step
  BY <1>2, ErrsLeaves
<1>6. ASSUME Links(p, c) PROVE p.call \in Loading \cup Preparing /\ c.step = p.step
  <2>1. Link(p, c.call) /\ c.step = p.step
    BY <1>6 DEF Links, Stays
  <2>2. c.call \notin {"tokens", "livecount", "metrics", "rebind", "poll", "state", "publish",
                       "materialize", "boundary", "append", "reduction", "post", "idle"}
        /\ c.call \notin Asking /\ c.call \notin Scored
    BY <1>2 DEF InWindow, Grouping, Recording, Counting, Training, Saving
  <2> QED BY <1>2, <2>1, <2>2, Zenon DEF Link, Loading
<1>7. ~Collects(p, c) /\ ~Materializes(p, c) /\ ~Trains(p, c) /\ ~Preempts(p, c)
  BY <1>2 DEF Collects, Materializes, Trains, Preempts, InWindow, Grouping, Training, Saving
<1>8. ~StepsOn(p, c) /\ ~Yields(p, c)
  BY <1>2 DEF StepsOn, Yields, Enters, InWindow, Grouping, Saving
<1>9. Opens(p, c) => p.call \in Loading \cup Preparing /\ c.step = p.step
  BY DEF Opens, Preparing
<1> QED BY <1>1, <1>3, <1>4, <1>5, <1>6, <1>7, <1>8, <1>9 DEF Proceeds, Flow

\* Within a window nothing but its own saving leads to the next checkpoint.
LEMMA FlowSaves ==
  ASSUME NEW p, NEW c, NEW x, Place(p), Flow(p, c, x), ~StepsOn(p, c), ~Branches(p, c, x)
  PROVE  /\ c.step = p.step /\ (p.stop = TRUE => c.stop = TRUE)
         /\ p.call \in Looking => c.call \in Looking
         /\ c.call \in Saving \cup {"poll"} => p.call \in Saving \cup {"metrics", "poll"}
         /\ c.call = "poll" => p.call = "publish" \/ (p.call = "metrics" /\ ~Due(p.step + 1))
         /\ p.call = "publish" => c.call \in {"publish", "poll"}
         /\ p.call = "poll" => c.stop = TRUE
<1>1. CASE Links(p, c)
  <2>1. c.step = p.step /\ c.stop = p.stop /\ Link(p, c.call)
    BY <1>1 DEF Links, Stays
  <2>2. p.call \in Looking => c.call \in Looking
    <3> SUFFICES ASSUME p.call \in Looking PROVE c.call \in Looking
      OBVIOUS
    <3>1. p.call \notin Loading /\ p.call \notin Preparing /\ p.call \notin InWindow
      BY Disjoint
    <3>2. /\ p.call \notin {"preflight", "generate", "finalize", "boundary", "append", "materialize",
                            "tokens", "livecount", "metrics", "rebind", "state", "publish",
                            "backward", "reduction", "post", "idle"} \cup Scored
          /\ p.call # "request" /\ p.call # "apply"
      BY <3>1 DEF InWindow, Grouping, Asking, Scored, Recording, Counting, Training, Saving, Looking
    <3> QED BY <2>1, <3>1, <3>2, Zenon DEF Link, Full
  <2>3. c.call \in Saving \cup {"poll"} =>
          /\ c.call \notin Looking /\ c.call \notin Loading /\ c.call \notin Preparing
          /\ c.call \notin Asking /\ c.call \notin Scored
    <3>1. c.call \in Saving \cup {"poll"} => c.call \in InWindow /\ c.call \notin Grouping
      BY DisjointWithin DEF InWindow
    <3> QED BY <3>1, Disjoint DEF Grouping
  <2>4. c.call \in Saving \cup {"poll"} =>
          \/ p.call = "metrics" /\ (c.call = "rebind" \/ (c.call = "poll" /\ ~Due(p.step + 1)))
          \/ p.call = "rebind" /\ c.call = "state"
          \/ p.call = "state" /\ c.call = "publish"
          \/ p.call = "publish" /\ p.stop # TRUE /\ c.call = "poll"
    BY <2>1, <2>3 DEF Link, Full, Saving
  <2>5. p.call \in {"publish", "poll"} => p.call = "publish" /\ c.call = "poll"
    <3> SUFFICES ASSUME p.call \in {"publish", "poll"} PROVE p.call = "publish" /\ c.call = "poll"
      OBVIOUS
    <3>1. p.call \in InWindow /\ p.call \notin Grouping
      BY DisjointWithin DEF InWindow, Saving
    <3>2. p.call \notin Looking /\ p.call \notin Loading /\ p.call \notin Preparing /\ p.call \notin Scored
      BY <3>1, Disjoint DEF Grouping
    <3> QED BY <2>1, <3>2 DEF Link, Full
  <2> QED BY <2>1, <2>2, <2>4, <2>5 DEF Saving
<1>2. CASE Collects(p, c) \/ Materializes(p, c) \/ Trains(p, c)
  <2>1. c.step = p.step /\ c.stop = p.stop /\ c.call \in {"preflight", "materialize", "backward"}
    BY <1>2 DEF Collects, Materializes, Trains, Stays
  <2>2. p.call \in {"snapshot", "finalize", "materialize", "append", "livecount", "post", "idle"}
    BY <1>2 DEF Collects, Materializes, Trains, Full
  <2> QED BY <2>1, <2>2 DEF Saving, Looking
<1>3. CASE Preempts(p, c)
  BY <1>3 DEF Preempts, Saving, Looking
<1>4. CASE Opens(p, c)
  BY <1>4 DEF Opens, Enters, Saving, Looking
<1>5. CASE Yields(p, c)
  BY <1>5 DEF Yields, Saving, Looking
<1> QED BY <1>1, <1>2, <1>3, <1>4, <1>5 DEF Flow

\* A resume goes on from the newest checkpoint, or from the start.
LEMMA BranchesToNewest ==
  ASSUME Reduce, World, RunInv, NEW r \in Ranks, ~AnyFailure(r), Branches(pos[r], pos'[r], Sum)
  PROVE  /\ pos'[r].step = Newest /\ pos'[r].call \in Loading \cup Preparing
         /\ pos'[r].stop # TRUE
<1>1. Sum = (IF Newest # 0 THEN Newest + 1 ELSE 0) /\ Newest \in Nat
  BY ScanSum, NewestIs, Numbers DEF Branches
<1>2. pos[r].call \in Looking /\ PlaceBefore(pos[r])
  BY InvPlace, PlaceIs DEF Branches, Looking
<1>3. pos[r].step = 0 /\ pos[r].stop # TRUE
  BY <1>2 DEF PlaceBefore
<1>4. Head(LoadResumePoint) \in Loading
  BY DEF LoadResumePoint, Loading
<1>5. Sum = 0 => Newest = 0
  BY <1>1
<1>6. Sum # 0 => Newest = Sum - 1
  BY <1>1
<1>7. CASE Sum = 0
  BY <1>3, <1>5, <1>7 DEF Branches
<1>8. CASE Sum # 0
  BY <1>3, <1>4, <1>6, <1>8 DEF Branches
<1> QED BY <1>7, <1>8

LEMMA ReduceKeepsRun ==
  ASSUME Reduce, World, RunInv
  PROVE  RunInv'
<1>1. /\ entered = Ranks /\ entered' = {} /\ policy' = policy /\ store' = store
      /\ metrics' = metrics /\ gives' = gives
  BY DEF Reduce, disk
<1>2. ASSUME NEW r \in Ranks
      PROVE  /\ pos[r].verdict = "none" /\ Proceeds(r) /\ Place(pos'[r])
             /\ Place(pos[r]) /\ pos[r].step \in Nat
  BY ReduceProceeds, InvPlace
<1>3. ASSUME NEW r \in Ranks PROVE Place(pos[r])' /\ ScanIs(r)' /\ Published(r)'
  BY <1>1, <1>2 DEF ScanIs, Published
<1>4. ASSUME NEW r \in Ranks PROVE Carries(r)'
  <2> DEFINE c == pos'[r]
  <2> SUFFICES ASSUME Sound(r)'
               PROVE  Tidy(policy'[r]) /\ Tidy(After(r)') /\ Content(After(r)', c, TRUE)
    BY DEF Carries
  <2>1. c.verdict = "none" /\ c.call \notin Recovering
    BY DEF Sound, Over
  <2>2. ~Errs(pos[r], c) /\ ~Recovers(pos[r], c)
    <3>1. Recovers(pos[r], c) => c.verdict # "none" \/ c.call \in Recovering
      BY ErrsLeaves
    <3> QED BY <2>1, <3>1, ErrsLeaves
  <2>3. ~AnyFailure(r) /\ pos[r].call \notin Recovering
    BY <1>2, <2>2 DEF Proceeds
  <2>4. Flow(pos[r], c, Sum) /\ Tidy(policy[r]) /\ Content(policy[r], pos[r], TRUE)
    BY <2>3, ReduceStaysSound
  <2>5. Content(policy[r], c, FALSE)
    BY <1>2, <2>1, <2>4, FlowArrives
  <2>6. c.call = "apply" => Tidy(store[c.step]) /\ StateAfter(store[c.step], c.step)
    <3> SUFFICES ASSUME c.call = "apply" PROVE Tidy(store[c.step]) /\ StateAfter(store[c.step], c.step)
      OBVIOUS
    <3>1. c.call \in Loading
      BY DEF Loading
    <3>2. c.step \in 1..Steps
      <4>1. PlaceBefore(c) /\ Ranges(c)
        BY <1>2, <3>1, PlaceIs
      <4> QED BY <3>1, <4>1, Numbers DEF PlaceBefore, Ranges
    <3>3. store[c.step] # NoPolicy
      BY <3>1, <3>2, ReduceFinds
    <3> QED BY <3>2, <3>3 DEF RunInv, Whole
  <2>7. Tidy(Effect(policy[r], c)) /\ Content(Effect(policy[r], c), c, TRUE)
    BY <1>2, <2>4, <2>5, <2>6, WorkReaches
  <2>8. After(r)' = Effect(policy[r], c)
    BY <1>1 DEF After, Effect
  <2> QED BY <1>1, <2>4, <2>7, <2>8
<1>5. ASSUME NEW n \in 1..Steps PROVE Whole(n)'
  BY <1>1 DEF RunInv, Whole, Writes
<1>6. StreamShape'
  BY <1>1 DEF RunInv, StreamShape
<1>7. ASSUME NEW r \in Ranks PROVE Written(r)'
  <2> DEFINE p == pos[r]
             c == pos'[r]
  <2> SUFFICES ASSUME Writes(r), NEW n \in 0..(Steps - 1), Past(r, n)'
               PROVE  n \in ToSet(metrics[r])
    BY <1>1 DEF Written, Writes
  <2>0. Past(r, n) => n \in ToSet(metrics[r])
    BY DEF RunInv, Written
  <2>1. n < c.step \/ (n = c.step /\ c.call \in Saving \cup {"poll"})
    BY <1>1 DEF Past
  <2>2. CASE Errs(p, c) \/ Recovers(p, c)
    <3>1. c.step = p.step /\ (c.call = p.call \/ c.call \in Recovering)
      BY <2>2, ErrsLeaves
    <3>2. c.call \in Recovering => c.call \notin Saving \cup {"poll"}
      BY DEF Recovering, Saving
    <3> QED BY <2>0, <2>1, <3>1, <3>2 DEF Past
  <2>3. CASE StepsOn(p, c)
    <3>1. p.call = "poll" /\ c.step = p.step + 1 /\ (c.call \in Saving \cup {"poll"} => c.step = Steps)
      BY <2>3 DEF StepsOn, Enters, Saving
    <3>2. n # Steps
      BY Numbers
    <3>3. n < p.step \/ n = p.step
      BY <1>2, <2>1, <3>1, <3>2
    <3> QED BY <2>0, <3>1, <3>3 DEF Past
  <2>4. CASE Branches(p, c, Sum) /\ ~AnyFailure(r)
    <3>1. c.step = Newest /\ c.call \in Loading \cup Preparing
      BY <2>4, BranchesToNewest
    <3>2. c.call \notin Saving \cup {"poll"}
      BY <3>1, Disjoint DEF InWindow
    <3>3. n < Newest
      BY <2>1, <3>1, <3>2
    <3>4. Newest \in 1..Steps /\ store[Newest] # NoPolicy
      BY <3>3, NewestIs
    <3>5. 0..(Newest - 1) \subseteq ToSet(metrics[r])
      BY <3>4 DEF RunInv, Whole
    <3>6. n \in 0..(Newest - 1)
      BY <3>3, <3>4, Numbers
    <3> QED BY <3>5, <3>6
  <2>5. CASE Flow(p, c, Sum) /\ ~AnyFailure(r) /\ ~StepsOn(p, c) /\ ~Branches(p, c, Sum)
    <3>1. c.step = p.step /\ (c.call \in Saving \cup {"poll"} => p.call \in Saving \cup {"metrics", "poll"})
      BY <1>2, <2>5, FlowSaves
    <3>2. r \in entered /\ ~gives[r].failed
      BY <1>1, <2>5 DEF AnyFailure
    <3> QED BY <2>0, <2>1, <3>1, <3>2 DEF Past
  <2> QED BY <1>2, <2>2, <2>3, <2>4, <2>5 DEF Proceeds
<1>8. ASSUME NEW r \in Ranks PROVE NoneAhead(r)'
  <2> DEFINE p == pos[r]
             c == pos'[r]
  <2> SUFFICES ASSUME c.call \in Loading \cup Preparing \cup InWindow,
                      NEW n \in 1..Steps, store[n] # NoPolicy
               PROVE  n <= Reachable(c)
    BY <1>1 DEF NoneAhead
  <2>0. p.call \in Loading \cup Preparing \cup InWindow => n <= Reachable(p)
    BY DEF RunInv, NoneAhead
  <2>1. c.call \notin Looking /\ c.call \notin Recovering
    BY Disjoint
  <2>2. CASE Errs(p, c) \/ Recovers(p, c)
    BY <2>0, <2>1, <2>2, ErrsLeaves DEF Reachable
  <2>3. CASE StepsOn(p, c)
    <3>1. p.call = "poll" /\ c.step = p.step + 1 /\ Reachable(p) = p.step + 1
      BY <2>3 DEF StepsOn, Reachable
    <3>2. p.call \in InWindow
      BY <3>1 DEF InWindow
    <3> QED BY <1>2, <2>0, <3>1, <3>2, Numbers DEF Reachable
  <2>4. CASE Branches(p, c, Sum) /\ ~AnyFailure(r)
    <3>1. c.step = Newest
      BY <2>4, BranchesToNewest
    <3> QED BY <3>1, NewestIs, Numbers DEF Reachable
  <2>5. CASE Flow(p, c, Sum) /\ ~StepsOn(p, c) /\ ~Branches(p, c, Sum) /\ p.call \notin Recovering
    <3>1. /\ c.step = p.step /\ (p.stop = TRUE => c.stop = TRUE)
          /\ p.call \in Looking => c.call \in Looking
          /\ p.call = "publish" => c.call \in {"publish", "poll"}
          /\ p.call = "poll" => c.stop = TRUE
      BY <1>2, <2>5, FlowSaves
    <3>2. p.call \in Loading \cup Preparing \cup InWindow
      BY <1>2, <2>1, <2>5, <3>1 DEF Place
    <3> QED BY <1>2, <2>0, <3>1, <3>2, Numbers DEF Reachable
  <2> QED BY <1>2, <2>2, <2>3, <2>4, <2>5 DEF Proceeds
<1>9. ASSUME NEW r \in Ranks PROVE Found(r)'
  BY <1>1, ReduceFinds DEF Found
<1>10. ASSUME NEW r \in Ranks PROVE Covered(r)'
  <2> DEFINE p == pos[r]
             c == pos'[r]
  <2> SUFFICES ASSUME c.call = "poll", c.verdict = "none", Due(c.step + 1)
               PROVE  store[c.step + 1] # NoPolicy
    BY <1>1 DEF Covered, Due
  <2>1. ~Errs(p, c) /\ ~Recovers(p, c)
    <3>1. c.call \notin Recovering
      BY DEF Recovering
    <3>2. Recovers(p, c) => c.verdict # "none" \/ c.call \in Recovering
      BY ErrsLeaves
    <3> QED BY <3>1, <3>2, ErrsLeaves
  <2>2. Flow(p, c, Sum) /\ ~AnyFailure(r) /\ p.call \notin Recovering
    BY <1>2, <2>1 DEF Proceeds
  <2>3. ~StepsOn(p, c) /\ ~Branches(p, c, Sum)
    BY DEF StepsOn, Enters, Branches, Preparing, LoadResumePoint
  <2>4. c.step = p.step /\ p.call = "publish"
    <3>1. Place(p) /\ Place(c) /\ p.verdict = "none"
      BY <1>2
    <3> HIDE DEF p, c
    <3> QED BY <2>2, <2>3, <3>1, FlowSaves
  <2>5. Primary \in Ranks /\ pos[Primary].call = "publish" /\ pos[Primary].step = p.step
    BY <2>4, RunAssumption DEF World, SamePlace
  <2>6. ~gives[Primary].failed /\ ~AnyFailure(Primary) /\ pos[Primary].call \notin Recovering
    BY <2>2, <2>4, <2>5 DEF AnyFailure
  <2>7. store[p.step + 1] = policy[Primary]
    BY <1>1, <2>5, <2>6 DEF RunInv, Published
  <2>8. Tidy(policy[Primary])
    BY <2>5, <2>6, ReduceStaysSound
  <2> QED BY <2>4, <2>7, <2>8, FreshIsTidy
<1> QED BY <1>3, <1>4, <1>5, <1>6, <1>7, <1>8, <1>9, <1>10 DEF RunInv

(***************************************************************************)
(* Failures, kills and the launcher keep the run.                          *)
(***************************************************************************)
LEMMA LeavingKeepsRun ==
  ASSUME RunInv, store' = store, metrics' = metrics, gives' = gives, NEW K \in SUBSET Ranks,
         \A r \in Ranks \ K : pos'[r] = pos[r] /\ policy'[r] = policy[r],
         \A r \in K : ~Over(r) /\ \E v : pos'[r] = Return(pos[r], v) /\ v # "none",
         entered' = entered \ K
  PROVE  RunInv'
<1>1. ASSUME NEW r \in Ranks
      PROVE  /\ AllFields \subseteq DOMAIN pos'[r] /\ pos'[r].call = pos[r].call
             /\ pos'[r].step = pos[r].step /\ pos'[r].group = pos[r].group
             /\ pos'[r].epoch = pos[r].epoch /\ pos'[r].resumed = pos[r].resumed
             /\ pos'[r].stop = pos[r].stop
             /\ r \in K => pos[r].verdict = "none" /\ pos'[r].verdict # "none"
  <2>1. AllFields \subseteq DOMAIN pos[r]
    BY DEF RunInv, Place
  <2>2. CASE r \notin K
    BY <2>1, <2>2
  <2>3. CASE r \in K
    <3>1. PICK v : pos'[r] = Return(pos[r], v) /\ v # "none"
      BY <2>3
    <3> QED BY <2>1, <2>3, <3>1, FieldsReturn DEF Over
  <2> QED BY <2>2, <2>3
<1>2. ASSUME NEW r \in Ranks PROVE Place(pos[r])'
  <2>1. Place(pos[r])
    BY DEF RunInv
  <2>2. pos'[r].verdict # "completed" => pos[r].verdict # "completed"
    BY <1>1
  <2> QED BY <1>1, <2>1, <2>2 DEF Place
<1>3. ASSUME NEW r \in Ranks PROVE ScanIs(r)' /\ Published(r)'
  BY <1>1 DEF RunInv, ScanIs, Published, Newest
<1>4. ASSUME NEW r \in Ranks PROVE Carries(r)'
  BY <1>1 DEF RunInv, Carries, Sound, Over, After, Effect
<1>5. ASSUME NEW r \in Ranks PROVE Written(r)'
  <2>1. \A n : Past(r, n)' => Past(r, n)
    BY <1>1 DEF Past
  <2> QED BY <2>1 DEF RunInv, Written, Writes
<1>6. ASSUME NEW r \in Ranks PROVE NoneAhead(r)' /\ Found(r)' /\ Covered(r)'
  BY <1>1 DEF RunInv, NoneAhead, Reachable, Found, Covered, Due
<1>7. StreamShape' /\ \A n \in 1..Steps : Whole(n)'
  BY DEF RunInv, StreamShape, Whole, Writes
<1> QED BY <1>2, <1>3, <1>4, <1>5, <1>6, <1>7 DEF RunInv

LEMMA CommErrorKeepsRun ==
  ASSUME NEW r \in Ranks, CommError(r), World, RunInv PROVE RunInv'
<1>1. /\ pos' = [pos EXCEPT ![r] = Return(@, "terminal")] /\ ~Over(r)
      /\ entered' = entered \ {r} /\ gives' = gives /\ store' = store /\ metrics' = metrics
  BY DEF CommError
<1>2. \A s \in Ranks \ {r} : pos'[s] = pos[s] /\ policy'[s] = policy[s]
  BY <1>1 DEF CommError, World, Lockstep, Shape, StateShape
<1>3. \A s \in {r} : ~Over(s) /\ \E v : pos'[s] = Return(pos[s], v) /\ v # "none"
  <2>1. pos'[r] = Return(pos[r], "terminal")
    BY <1>1 DEF World, Lockstep, Shape
  <2> QED BY <1>1, <2>1
<1> QED BY <1>1, <1>2, <1>3, LeavingKeepsRun

LEMMA KillKeepsRun ==
  ASSUME NEW K \in SUBSET Ranks, Kill(K), RunInv PROVE RunInv'
<1>1. /\ pos' = [r \in Ranks |-> IF r \in K THEN Return(pos[r], "killed") ELSE pos[r]]
      /\ entered' = entered \ K /\ gives' = gives /\ store' = store /\ policy' = policy
      /\ metrics' = metrics /\ \A r \in K : ~Over(r)
  BY DEF Kill, memory
<1>2. \A r \in K : ~Over(r) /\ \E v : pos'[r] = Return(pos[r], v) /\ v # "none"
  <2>1. \A r \in K : pos'[r] = Return(pos[r], "killed")
    BY <1>1
  <2> QED BY <1>1, <2>1
<1>3. \A r \in Ranks \ K : pos'[r] = pos[r] /\ policy'[r] = policy[r]
  BY <1>1
<1> QED BY <1>1, <1>2, <1>3, LeavingKeepsRun

LEMMA SameMemoryKeepsRun ==
  ASSUME UNCHANGED <<pos, entered, gives, policy, store, metrics>>, RunInv PROVE RunInv'
<1>1. \A r \in Ranks \ {} : pos'[r] = pos[r] /\ policy'[r] = policy[r]
  OBVIOUS
<1>2. entered' = entered \ {}
  OBVIOUS
<1>3. {} \in SUBSET Ranks /\ \A r \in {} : ~Over(r) /\ \E v : pos'[r] = Return(pos[r], v) /\ v # "none"
  OBVIOUS
<1>4. store' = store /\ metrics' = metrics /\ gives' = gives
  OBVIOUS
<1> QED BY <1>1, <1>2, <1>3, <1>4, LeavingKeepsRun

LEMMA RelaunchKeepsRun == ASSUME Relaunch, RunInv PROVE RunInv'
<1>1. /\ pos' = [r \in Ranks |-> Start] /\ entered' = {} /\ store' = store
      /\ policy' = [r \in Ranks |-> FreshPolicy] /\ metrics' = metrics
  BY DEF Relaunch, disk
<1>2. \A r \in Ranks : pos'[r] = Start /\ policy'[r] = FreshPolicy /\ r \notin entered'
  BY <1>1
<1>3. ASSUME NEW r \in Ranks
      PROVE  /\ Place(pos[r])' /\ ScanIs(r)' /\ Carries(r)'
             /\ Written(r)' /\ NoneAhead(r)' /\ Found(r)' /\ Covered(r)' /\ Published(r)'
  <2>1. Starts(r)'
    BY <1>2 DEF Starts
  <2>2. StartsReady'
    BY StartedIsReady, PTL
  <2> QED BY <2>1, <2>2 DEF StartsReady, Ready
<1>4. StreamShape' /\ \A n \in 1..Steps : Whole(n)'
  BY <1>1 DEF RunInv, StreamShape, Whole, Writes
<1> QED BY <1>3, <1>4 DEF RunInv

LEMMA NextKeepsRun == ASSUME World, RunInv, [Next]_vars PROVE RunInv'
<1>1. ASSUME NEW r \in Ranks, LocalWork(r) PROVE RunInv'
  BY <1>1, WorkKeepsRun
<1>2. ASSUME NEW r \in Ranks, CommError(r) PROVE RunInv'
  BY <1>2, CommErrorKeepsRun
<1>3. CASE UNCHANGED <<pos, entered, gives, policy, store, metrics>>
  BY <1>3, SameMemoryKeepsRun
<1>4. ASSUME NEW r \in Ranks, Signal(r) PROVE RunInv'
  BY <1>3, <1>4 DEF Signal, world, memory, disk
<1>5. CASE Reduce
  BY <1>5, ReduceKeepsRun
<1>6. CASE CommFails \/ Deadline
  BY <1>3, <1>6 DEF CommFails, Deadline, memory, disk
<1>7. CASE Relaunch
  BY <1>7, RelaunchKeepsRun
<1>8. CASE Finished \/ UNCHANGED vars
  BY <1>3, <1>8 DEF Finished, vars, world, memory, disk
<1>9. ASSUME NEW K \in {{r} : r \in Ranks} \cup {Ranks}, Kill(K) PROVE RunInv'
  <2>1. K \in SUBSET Ranks
    BY <1>9
  <2> QED BY <1>9, <2>1, KillKeepsRun
<1> QED BY <1>1, <1>2, <1>4, <1>5, <1>6, <1>7, <1>8, <1>9 DEF Next

LEMMA RunInvariance == Spec => [](World /\ RunInv)
<1>1. Init => World /\ RunInv
  BY WorldInit, RunInit
<1>2. World /\ RunInv /\ [Next]_vars => (World /\ RunInv)'
  BY NextKeepsWorld, NextKeepsRun
<1> QED BY <1>1, <1>2, PTL DEF Spec

\* The checkpoint that write_checkpoint publishes as step n is the state after
\* exactly n windows, for any number of ranks, steps, groups and epochs, over
\* any number of failures, kills and resumes.
THEOREM CheckpointsAreTheirSteps == Spec => []CheckpointIsItsStep
<1>1. RunInv => CheckpointIsItsStep
  BY DEF RunInv, Whole, CheckpointIsItsStep
<1> QED BY <1>1, RunInvariance, PTL

\* run_window makes the rows of a window durable on every rank with a stream
\* before maybe_checkpoint may publish it.
THEOREM MetricsComeFirst == Spec => []MetricsReachCheckpoint
<1>1. RunInv => MetricsReachCheckpoint
  BY DEF RunInv, Whole, MetricsReachCheckpoint
<1> QED BY <1>1, RunInvariance, PTL

\* coordinate_resume_step takes every rank to the newest checkpoint, so that a
\* published window is never trained again.
THEOREM PublishedWorkStands == Spec => NoPublishedWorkIsRedone
<1>1. ASSUME World, RunInv
      PROVE  \A r \in Ranks : policy'[r].updates # policy[r].updates /\ pos[r].call = "post" =>
               \A n \in 1..Steps : store[n] # NoPolicy => pos[r].step >= n
  <2> SUFFICES ASSUME NEW r \in Ranks, pos[r].call = "post", NEW n \in 1..Steps, store[n] # NoPolicy
               PROVE  pos[r].step >= n
    OBVIOUS
  <2>1. pos[r].call \in InWindow /\ pos[r].call \notin Saving
    BY DEF InWindow, Training, Saving
  <2>2. n <= Reachable(pos[r])
    BY <1>1, <2>1 DEF RunInv, NoneAhead
  <2>3. Reachable(pos[r]) = pos[r].step
    BY <1>1, <2>1, InvPlace, PlaceIs DEF PlaceWithin, Reachable
  <2> QED BY <1>1, <2>2, <2>3, InvPlace
<1>2. World /\ RunInv =>
        [\A r \in Ranks : policy'[r].updates # policy[r].updates /\ pos[r].call = "post" =>
           \A n \in 1..Steps : store[n] # NoPolicy => pos[r].step >= n]_vars
  BY <1>1
<1> QED BY <1>2, RunInvariance, PTL DEF NoPublishedWorkIsRedone

(***************************************************************************)
(* The snapshots that a failed transaction is rolled back to.              *)
(***************************************************************************)
Windowed == {"snapshot", "materialize", "truncate", "rollback"} \cup Grouping \cup Recording

\* A resume at p holds the state in which the process began.
Tracked(p) ==
  \/ p.call \in Loading \ {"capture"}
  \/ Sharded /\ p.call \in {"validate", "discover"}
  \/ p.call \in Preparing /\ (Sharded \/ p.resumed = TRUE)
  \/ p.call = "unresume"

\* r is about to take the snapshot of its window.
Opening(r) ==
  /\ r \notin entered
  /\ pos[r].call = "snapshot" \/ (pos[r].call = "preflight" /\ pos[r].group = 1 /\ LogCandidates)
Base(r) == IF Opening(r) THEN policy[r] ELSE prestate[r]

Began(r) ==
  Tracked(pos[r]) \/ (pos[r].call = "capture" /\ r \in entered /\ ~gives[r].failed)
    => prestate[r] = FreshPolicy
Held(r) == pos[r].call \in Windowed /\ Base(r) # NoPolicy => StateAfter(Base(r), pos[r].step)
Back(r) ==
  pos[r].call \in {"unresume", "rollback"} /\ r \in entered /\ ~gives[r].failed
    => prestate[r] # NoPolicy /\ policy[r] = prestate[r]

Bases ==
  comm = "live" =>
    \A r, s \in Ranks :
      ~Over(r) /\ ~Over(s) /\ pos[r].call \in Windowed /\ Base(r) # NoPolicy /\ Base(s) # NoPolicy
        => Base(r) = Base(s)

Snapshots ==
  /\ prestate = [r \in Ranks |-> prestate[r]]
  /\ \A r \in Ranks : ~Over(r) => Began(r) /\ Held(r) /\ Back(r)
  /\ Bases

\* A rank that is about to take a snapshot is at the start of its window.
OpeningIs ==
  World /\ RunInv =>
    \A r \in Ranks : ~Over(r) /\ Opening(r) =>
      Sound(r) /\ After(r) = policy[r] /\ StateAfter(policy[r], pos[r].step)

LEMMA OpeningHolds == OpeningIs
<1> SUFFICES ASSUME World, RunInv, NEW r \in Ranks, ~Over(r), Opening(r)
             PROVE  Sound(r) /\ After(r) = policy[r] /\ StateAfter(policy[r], pos[r].step)
  BY DEF OpeningIs
<1>1. Sound(r)
  BY DEF Sound, Opening, Recovering
<1>2. Tidy(policy[r]) /\ Tidy(After(r)) /\ Content(After(r), pos[r], TRUE)
  BY <1>1 DEF RunInv, Carries
<1>3. After(r) = policy[r]
  BY <1>2, NoEffect DEF After, Opening
<1>4. CASE pos[r].call = "snapshot"
  BY <1>1, <1>2, <1>3, <1>4 DEF Content
<1>5. CASE pos[r].call = "preflight" /\ pos[r].group = 1
  <2>1. pos[r].call \in Grouping /\ Sampled(pos[r], TRUE) = 0
    BY <1>5 DEF Grouping, Sampled
  <2>2. InOrder(policy[r]) /\ Behind(policy[r], pos[r].step)
        /\ policy[r].sampled = pos[r].step * Accum + 0
    BY <1>2, <1>3, <2>1 DEF Content
  <2>3. pos[r].step * Accum \in Nat
    BY InvPlace, Numbers
  <2>4. policy[r].sampled = pos[r].step * Accum
    BY <2>2, <2>3
  <2> QED BY <1>1, <1>3, <2>2, <2>4, StateAfterIs
<1> QED BY <1>4, <1>5 DEF Opening

\* Which calls lead into a window's transaction.
LEMMA FlowStays ==
  ASSUME NEW p, NEW c, NEW x, Place(p), Flow(p, c, x), c.verdict = "none", c.call \in Windowed,
         c.call # "snapshot", ~(c.call = "preflight" /\ c.group = 1 /\ LogCandidates),
         p.call \notin Recovering
  PROVE  p.call \in Windowed /\ c.step = p.step
<1>1. c.call \notin Looking /\ c.call \notin Loading /\ c.call \notin Preparing
  BY Disjoint DEF Windowed, InWindow, Recovering
<1>2. c.call \notin Counting /\ c.call \notin Training /\ c.call \notin Saving
      /\ c.call \notin {"metrics", "poll"}
  BY DisjointWithin DEF Windowed, Counting, Training, Saving
<1>3. CASE Links(p, c)
  <2>1. c.step = p.step /\ Link(p, c.call)
    BY <1>3 DEF Links, Stays
  <2>2. c.call \notin {"tokens", "livecount", "metrics", "rebind", "poll", "state", "publish",
                       "reduction", "post", "idle"}
    BY <1>2 DEF Counting, Training, Saving
  <2>3. p.call \in {"preflight", "request"} /\ c.call \in Asking => p.call \in Grouping
    <3>1. p.call = "request" => Sharded
      BY DEF Place, Looking, Loading, Preparing, InWindow, Grouping, Asking, Scored,
             Recording, Counting, Training, Saving, Recovering
    <3> QED BY <3>1 DEF Grouping, Asking
  <2>4. p.call \in {"generate", "finalize"} \cup Scored => p.call \in Grouping
    BY DEF Grouping, Asking, Scored
  <2>5. p.call = "boundary" => p.call \in Recording
    BY DEF Recording
  <2> QED BY <1>1, <2>1, <2>2, <2>3, <2>4, <2>5 DEF Link, Windowed
<1>4. CASE Collects(p, c)
  <2>1. p.call \in {"snapshot", "finalize", "materialize"} /\ c.step = p.step
    BY <1>4 DEF Collects, Stays
  <2> QED BY <2>1 DEF Windowed, Grouping, Scored
<1>5. CASE Materializes(p, c)
  BY <1>5 DEF Materializes, Stays, Windowed, Recording
<1>6. ~Trains(p, c) /\ ~Preempts(p, c) /\ ~Yields(p, c)
  BY <1>2 DEF Trains, Preempts, Yields, Training, Saving
<1>7. ~Branches(p, c, x)
  BY <1>1 DEF Branches, LoadResumePoint, Loading
<1>8. ~Opens(p, c) /\ ~StepsOn(p, c)
  BY DEF Opens, StepsOn, Enters
<1> QED BY <1>3, <1>4, <1>5, <1>6, <1>7, <1>8 DEF Flow

LEMMA ErrsStays ==
  ASSUME NEW p, NEW c, Errs(p, c) \/ Recovers(p, c), c.verdict = "none"
  PROVE  /\ c.step = p.step /\ c.call \in Recovering
         /\ c.call \in Windowed => p.call \in Windowed
         /\ Tracked(c) => c.call = "unresume" /\ Tracked(p)
<1>1. CASE Errs(p, c)
  <2>1. Undoes(p, c.call) /\ c.step = p.step
    BY <1>1 DEF Errs, Kept
  <2>2. c.call \in Recovering
    BY <2>1 DEF Undoes, Recovering
  <2>3. c.call \in Windowed => p.call \in Windowed
    <3>1. "unresume" \notin Windowed
      BY DEF Windowed, Grouping, Asking, Scored, Recording
    <3> QED BY <2>1, <3>1 DEF Undoes, Windowed, Recording
  <2>4. Tracked(c) => c.call = "unresume"
    BY <2>2, Disjoint DEF Tracked, Recovering
  <2>5. Undoes(p, "unresume") => Tracked(p)
    BY DEF Undoes, Tracked
  <2> QED BY <2>1, <2>2, <2>3, <2>4, <2>5
<1>2. CASE Recovers(p, c)
  <2>1. p.call = "truncate" /\ c.call = "rollback" /\ c.step = p.step
    BY <1>2 DEF Recovers, Kept
  <2>2. ~Tracked(c)
    BY <2>1, Disjoint DEF Tracked, Recovering
  <2> QED BY <2>1, <2>2 DEF Windowed, Recovering
<1> QED BY <1>1, <1>2

LEMMA FlowTracks ==
  ASSUME NEW p, NEW c, NEW x, Place(p), Flow(p, c, x), c.verdict = "none", Tracked(c),
         p.call \notin Recovering
  PROVE  Tracked(p) \/ p.call = "capture"
<1>1. CASE c.call \in Looking
  <2>1. Sharded /\ c.call \in {"validate", "discover"}
    <3>1. c.call \notin Loading /\ c.call \notin Preparing /\ c.call # "unresume"
      BY <1>1, Disjoint DEF Recovering
    <3> QED BY <3>1 DEF Tracked
  <2>2. c.call \notin Loading /\ c.call \notin Preparing /\ c.call \notin InWindow
    BY <1>1, Disjoint
  <2>3. /\ c.call \notin {"tokens", "livecount", "metrics", "rebind", "poll", "state", "publish",
                          "reduction", "post", "idle", "materialize", "boundary", "append",
                          "preflight", "snapshot", "backward"}
        /\ c.call \notin Asking /\ c.call \notin Scored
    BY <2>1, <2>2 DEF InWindow, Grouping
  <2>4. CASE Links(p, c)
    <3>1. p.call \in Looking \ {"discover"}
      BY <2>2, <2>3, <2>4, Zenon DEF Links, Link, Loading
    <3> QED BY <2>1, <3>1 DEF Looking, Tracked
  <2>5. ~Branches(p, c, x)
    BY <2>2 DEF Branches, LoadResumePoint, Loading
  <2>6. ~Opens(p, c) /\ ~StepsOn(p, c) /\ ~Yields(p, c)
    BY <2>3 DEF Opens, StepsOn, Yields, Enters
  <2>7. ~Collects(p, c) /\ ~Materializes(p, c) /\ ~Trains(p, c) /\ ~Preempts(p, c)
    BY <2>3 DEF Collects, Materializes, Trains, Preempts
  <2> QED BY <2>4, <2>5, <2>6, <2>7 DEF Flow
<1>2. CASE c.call \in Loading \cup Preparing
  <2>1. c.call \notin Looking /\ c.call \notin InWindow /\ c.call \notin Recovering
    BY <1>2, Disjoint
  <2>2. /\ c.call \notin {"tokens", "livecount", "metrics", "rebind", "poll", "state", "publish",
                          "materialize", "boundary", "append", "reduction", "post", "idle",
                          "preflight", "snapshot", "backward"}
        /\ c.call \notin Asking /\ c.call \notin Scored
    BY <2>1 DEF InWindow, Grouping, Recording, Counting, Training, Saving
  <2>3. CASE Links(p, c)
    <3>1. c.resumed = p.resumed /\ Link(p, c.call)
      BY <2>3 DEF Links, Stays
    <3>2. \/ p.call \in Loading /\ c.call \in Loading
          \/ p.call \in Loading /\ c.call \in Preparing
          \/ p.call \in Preparing /\ c.call \in Preparing
      BY <2>1, <2>2, <3>1, Zenon DEF Link, Loading
    <3>3. p.call \in Loading => Tracked(p) \/ p.call = "capture"
      BY DEF Tracked
    <3>4. p.call \in Preparing /\ c.call \in Preparing => Tracked(p)
      <4> SUFFICES ASSUME p.call \in Preparing, c.call \in Preparing PROVE Tracked(p)
        OBVIOUS
      <4>1. c.call \notin Loading /\ c.call \notin {"validate", "discover", "unresume"}
        BY Disjoint, <2>1 DEF Preparing, Loading
      <4> QED BY <3>1, <4>1 DEF Tracked
    <3> QED BY <3>2, <3>3, <3>4
  <2>4. CASE Branches(p, c, x)
    <3>1. p.call = "discover" /\ p.resumed # TRUE
      <4>1. p.call \in Looking
        BY <2>4 DEF Branches, Looking
      <4> QED BY <2>4, <4>1, PlaceIs DEF Branches, PlaceBefore
    <3>2. Sharded => Tracked(p)
      BY <3>1 DEF Tracked
    <3>3. ~Sharded => x = 0
      <4>1. CASE ~Sharded /\ x # 0
        <5>1. c.call = "capture" /\ "capture" \in Loading
          BY <2>4, <4>1 DEF Branches, LoadResumePoint, Loading
        <5>2. c.call \notin Preparing
          BY <5>1, Disjoint
        <5> QED BY <4>1, <5>1, <5>2 DEF Tracked
      <4> QED BY <4>1
    <3>4. CASE ~Sharded /\ x = 0
      <4>1. c.call \in Preparing /\ c.resumed = p.resumed
        BY <2>4, <3>4 DEF Branches
      <4>2. c.call \notin Loading /\ c.call # "unresume"
        BY <4>1, Disjoint DEF Recovering
      <4> QED BY <3>1, <3>4, <4>1, <4>2 DEF Tracked
    <3> QED BY <3>2, <3>3, <3>4
  <2>5. ~Opens(p, c) /\ ~StepsOn(p, c) /\ ~Yields(p, c)
    BY <2>2 DEF Opens, StepsOn, Yields, Enters
  <2>6. ~Collects(p, c) /\ ~Materializes(p, c) /\ ~Trains(p, c) /\ ~Preempts(p, c)
    BY <2>2 DEF Collects, Materializes, Trains, Preempts
  <2> QED BY <2>3, <2>4, <2>5, <2>6 DEF Flow
<1>3. CASE c.call = "unresume"
  <2>1. c.call \notin Looking /\ c.call \notin Loading /\ c.call \notin Preparing /\ c.call \notin InWindow
    BY <1>3, Disjoint DEF Recovering
  <2>2. /\ c.call \notin {"tokens", "livecount", "metrics", "rebind", "poll", "state", "publish",
                          "materialize", "boundary", "append", "reduction", "post", "idle",
                          "preflight", "snapshot", "backward"}
        /\ c.call \notin Asking /\ c.call \notin Scored
    BY <1>3, <2>1 DEF InWindow, Grouping
  <2>3. ~Links(p, c)
    BY <2>1, <2>2, Zenon DEF Links, Link, Loading
  <2>4. ~Branches(p, c, x)
    BY <2>1 DEF Branches, LoadResumePoint, Loading
  <2>5. ~Opens(p, c) /\ ~StepsOn(p, c) /\ ~Yields(p, c)
    BY <2>2 DEF Opens, StepsOn, Yields, Enters
  <2>6. ~Collects(p, c) /\ ~Materializes(p, c) /\ ~Trains(p, c) /\ ~Preempts(p, c)
    BY <2>2 DEF Collects, Materializes, Trains, Preempts
  <2> QED BY <2>3, <2>4, <2>5, <2>6 DEF Flow
<1> QED BY <1>1, <1>2, <1>3 DEF Tracked, Looking

LEMMA WorkKeepsSnapshots ==
  ASSUME NEW r \in Ranks, LocalWork(r), World, RunInv, Snapshots
  PROVE  Snapshots'
<1>1. /\ pos' = pos /\ comm' = comm
      /\ ~Over(r) /\ r \notin entered /\ entered' = entered \cup {r}
  BY WorkEnters
<1>2. \A s \in Ranks : s # r => policy'[s] = policy[s] /\ gives'[s] = gives[s]
  BY WorkOnPolicy DEF World
<1>3. Acts(r) /\ Touches(r)
  BY WorkTouches
<1>4. /\ prestate' = [s \in Ranks |-> prestate'[s]]
      /\ \A s \in Ranks : s # r => prestate'[s] = prestate[s]
  <2>1. CASE pos[r].call \notin {"capture", "snapshot", "preflight"}
    BY <1>3, <2>1 DEF Touches, Snapshots
  <2>2. CASE pos[r].call = "capture"
    BY <1>3, <2>2 DEF Acts, CapturePrestate, Snapshots
  <2>3. CASE pos[r].call = "snapshot"
    BY <1>3, <2>3 DEF Acts, SnapshotWindow, Snapshots
  <2>4. CASE pos[r].call = "preflight"
    BY <1>3, <2>4 DEF Acts, PreflightGroup, Snapshots
  <2> QED BY <2>1, <2>2, <2>3, <2>4
<1>5. Began(r)'
  <2>1. CASE Tracked(pos[r]) /\ pos[r].call # "capture"
    <3>1. pos[r].call \notin {"snapshot", "preflight"}
      <4>1. pos[r].call \in Looking \cup Loading \cup Preparing \cup Recovering => pos[r].call \notin InWindow
        BY Disjoint
      <4>2. pos[r].call \in Looking \cup Loading \cup Preparing \cup Recovering
        BY <2>1 DEF Tracked, Looking, Recovering
      <4> QED BY <4>1, <4>2 DEF InWindow, Grouping
    <3>2. prestate' = prestate
      BY <1>3, <2>1, <3>1 DEF Touches
    <3> QED BY <1>1, <2>1, <3>2 DEF Snapshots, Began
  <2>2. CASE pos[r].call = "capture"
    <3> SUFFICES ASSUME ~gives'[r].failed PROVE prestate'[r] = FreshPolicy
      <4>1. ~Tracked(pos[r])
        BY <2>2, Disjoint DEF Tracked, Preparing
      <4> QED BY <1>1, <4>1 DEF Began
    <3>1. prestate' = [prestate EXCEPT ![r] = policy[r]]
      <4>1. CapturePrestate(r)
        BY <1>3, <2>2 DEF Acts
      <4>2. gives = [s \in Ranks |-> gives[s]]
        BY DEF World, StateShape
      <4> QED BY <4>1, <4>2 DEF CapturePrestate, Join, Enter
    <3>2. Sound(r)
      BY <1>1, <2>2 DEF Sound, Recovering
    <3>3. Tidy(policy[r]) /\ Content(After(r), pos[r], TRUE)
      BY <3>2 DEF RunInv, Carries
    <3>4. After(r) = policy[r]
      BY <1>1, <2>2, <3>3, NoEffect DEF After
    <3>5. pos[r].call \in Looking \cup Loading
      BY <2>2 DEF Looking, Loading
    <3>6. policy[r] = FreshPolicy
      BY <2>2, <3>3, <3>4, <3>5 DEF Content
    <3> QED BY <3>1, <3>6 DEF Snapshots
  <2>3. CASE ~Tracked(pos[r]) /\ pos[r].call # "capture"
    BY <1>1, <2>3 DEF Began
  <2> QED BY <2>1, <2>2, <2>3
<1>6. pos[r].call \in Windowed => Base(r)' = NoPolicy \/ Base(r)' = Base(r)
  <2> SUFFICES ASSUME pos[r].call \in Windowed PROVE prestate'[r] = NoPolicy \/ prestate'[r] = Base(r)
    BY <1>1 DEF Base, Opening
  <2>1. CASE pos[r].call = "snapshot"
    <3>1. Base(r) = policy[r]
      BY <1>1, <2>1 DEF Base, Opening
    <3> QED BY <1>3, <2>1, <3>1 DEF Acts, SnapshotWindow, Snapshots
  <2>2. CASE pos[r].call = "preflight" /\ pos[r].group = 1 /\ LogCandidates
    <3>1. Base(r) = policy[r]
      BY <1>1, <2>2 DEF Base, Opening
    <3> QED BY <1>3, <2>2, <3>1 DEF Acts, PreflightGroup, Snapshots
  <2>3. CASE ~Opening(r) /\ pos[r].call = "preflight"
    <3>1. prestate' = prestate
      BY <1>1, <1>3, <2>3 DEF Acts, PreflightGroup, Opening
    <3> QED BY <2>3, <3>1 DEF Base
  <2>4. CASE pos[r].call \notin {"snapshot", "preflight"}
    <3>1. pos[r].call # "capture"
      BY DEF Windowed, Grouping, Asking, Scored, Recording
    <3>2. prestate' = prestate /\ ~Opening(r)
      BY <1>3, <2>4, <3>1 DEF Touches, Opening
    <3> QED BY <3>2 DEF Base
  <2> QED BY <1>1, <2>1, <2>2, <2>3, <2>4 DEF Opening
<1>7. \A s \in Ranks : s # r => Base(s)' = Base(s)
  BY <1>1, <1>2, <1>4 DEF Base, Opening
<1>8. \A s \in Ranks : ~Over(s) => Held(s)
  <2> SUFFICES ASSUME NEW s \in Ranks, ~Over(s) PROVE Held(s)
    OBVIOUS
  <2> QED BY DEF Snapshots
<1>9. ASSUME NEW s \in Ranks, ~Over(s)' PROVE Held(s)'
  BY <1>1, <1>6, <1>7, <1>8, <1>9 DEF Held, Over
<1>10. Back(r)'
  <2> SUFFICES ASSUME pos[r].call \in {"unresume", "rollback"}, ~gives'[r].failed
               PROVE  prestate'[r] # NoPolicy /\ policy'[r] = prestate'[r]
    BY <1>1 DEF Back
  <2>1. Restore(r) /\ prestate' = prestate
    BY <1>3 DEF Acts, RollbackResume, RollbackGroups
  <2>2. gives = [s \in Ranks |-> gives[s]] /\ policy = [s \in Ranks |-> policy[s]]
    BY DEF World, StateShape
  <2>3. prestate[r] # NoPolicy /\ policy' = [policy EXCEPT ![r] = prestate[r]]
    BY <2>1, <2>2 DEF Restore, Join, Enter
  <2> QED BY <2>1, <2>2, <2>3
<1>11. ASSUME NEW s \in Ranks, ~Over(s)', s # r PROVE Began(s)' /\ Back(s)'
  <2>1. Began(s) /\ Back(s)
    BY <1>1, <1>11 DEF Snapshots, Over
  <2> QED BY <1>1, <1>2, <1>4, <1>11, <2>1 DEF Began, Back
<1>12. Bases'
  <2> SUFFICES ASSUME comm = "live", NEW s \in Ranks, NEW t \in Ranks, ~Over(s), ~Over(t),
                      pos[s].call \in Windowed, Base(s)' # NoPolicy, Base(t)' # NoPolicy
               PROVE  Base(s)' = Base(t)'
    BY <1>1 DEF Bases, Over
  <2>1. pos[s].call = pos[t].call /\ pos[s].call = pos[r].call
    BY DEF World, SamePlace
  <2>2. Base(s)' = Base(s) /\ Base(t)' = Base(t)
    BY <1>6, <1>7, <2>1
  <2> QED BY <2>2 DEF Snapshots, Bases
<1> QED BY <1>4, <1>5, <1>9, <1>10, <1>11, <1>12 DEF Snapshots

LEMMA ReduceKeepsSnapshots ==
  ASSUME Reduce, World, RunInv, World', RunInv', Snapshots
  PROVE  Snapshots'
<1>1. /\ entered = Ranks /\ entered' = {} /\ policy' = policy /\ prestate' = prestate
      /\ comm = "live"
  BY DEF Reduce
<1>2. ASSUME NEW r \in Ranks
      PROVE  /\ pos[r].verdict = "none" /\ ~Over(r) /\ Proceeds(r) /\ Place(pos'[r])
             /\ Place(pos[r]) /\ Base(r) = prestate[r] /\ Began(r) /\ Held(r)
  <2>1. pos[r].verdict = "none" /\ Proceeds(r) /\ Place(pos'[r]) /\ Place(pos[r])
    BY ReduceProceeds, InvPlace
  <2>2. ~Over(r)
    BY <2>1 DEF Over
  <2> QED BY <1>1, <2>1, <2>2 DEF Snapshots, Base, Opening
<1>3. \A r, s \in Ranks : pos'[r] = pos'[s]
  BY ReduceKeepsLockstep DEF World
<1>4. OpeningIs'
  BY OpeningHolds, PTL
<1>5. ASSUME NEW r \in Ranks, ~Over(r)', Opening(r)'
      PROVE  /\ Base(r)' = policy[r] /\ StateAfter(policy[r], pos'[r].step)
             /\ Sound(r)' /\ After(r)' = policy[r]
  <2>1. Sound(r)' /\ After(r)' = policy'[r] /\ StateAfter(policy'[r], pos'[r].step)
    BY <1>4, <1>5 DEF OpeningIs
  <2> QED BY <1>1, <1>5, <2>1 DEF Base
\* Otherwise the window's transaction goes on.
<1>6. ASSUME NEW r \in Ranks, ~Over(r)', ~Opening(r)', pos'[r].call \in Windowed
      PROVE  /\ pos[r].call \in Windowed /\ pos'[r].step = pos[r].step
             /\ Base(r)' = prestate[r]
  <2>1. pos'[r].verdict = "none"
    BY <1>6 DEF Over
  <2>2. Base(r)' = prestate[r]
    BY <1>1, <1>6 DEF Base
  <2>3. CASE Errs(pos[r], pos'[r]) \/ Recovers(pos[r], pos'[r])
    BY <1>6, <2>1, <2>2, <2>3, ErrsStays
  <2>4. CASE Flow(pos[r], pos'[r], Sum) /\ pos[r].call \notin Recovering
    <3>1. pos'[r].call # "snapshot" /\ ~(pos'[r].call = "preflight" /\ pos'[r].group = 1 /\ LogCandidates)
      BY <1>1, <1>6 DEF Opening
    <3> QED BY <1>2, <1>6, <2>1, <2>2, <2>4, <3>1, FlowStays
  <2> QED BY <1>2, <2>3, <2>4 DEF Proceeds
<1>7. ASSUME NEW r \in Ranks, ~Over(r)' PROVE Held(r)'
  <2> SUFFICES ASSUME pos'[r].call \in Windowed, Base(r)' # NoPolicy
               PROVE  StateAfter(Base(r)', pos'[r].step)
    BY DEF Held
  <2>1. CASE Opening(r)'
    BY <1>5, <1>7, <2>1
  <2>2. CASE ~Opening(r)'
    <3>1. pos[r].call \in Windowed /\ pos'[r].step = pos[r].step /\ Base(r)' = prestate[r]
      BY <1>6, <1>7, <2>2
    <3> QED BY <1>2, <3>1 DEF Held
  <2> QED BY <2>1, <2>2
<1>8. ASSUME NEW r \in Ranks, ~Over(r)' PROVE Began(r)' /\ Back(r)'
  <2>1. Back(r)'
    BY <1>1 DEF Back
  <2> SUFFICES ASSUME Tracked(pos'[r]) PROVE prestate[r] = FreshPolicy
    BY <1>1, <2>1 DEF Began
  <2>2. pos'[r].verdict = "none"
    BY <1>8 DEF Over
  <2>3. CASE Errs(pos[r], pos'[r]) \/ Recovers(pos[r], pos'[r])
    <3>1. Tracked(pos[r])
      BY <2>2, <2>3, ErrsStays
    <3> QED BY <1>2, <3>1 DEF Began
  <2>4. CASE Flow(pos[r], pos'[r], Sum) /\ ~AnyFailure(r) /\ pos[r].call \notin Recovering
    <3>1. Tracked(pos[r]) \/ pos[r].call = "capture"
      BY <1>2, <2>2, <2>4, FlowTracks
    <3>2. r \in entered /\ ~gives[r].failed
      BY <1>1, <2>4 DEF AnyFailure
    <3> QED BY <1>2, <3>1, <3>2 DEF Began
  <2> QED BY <1>2, <2>3, <2>4 DEF Proceeds
<1>9. Bases'
  <2> SUFFICES ASSUME NEW r \in Ranks, NEW s \in Ranks, ~Over(r)', ~Over(s)',
                      pos'[r].call \in Windowed, Base(r)' # NoPolicy, Base(s)' # NoPolicy
               PROVE  Base(r)' = Base(s)'
    BY DEF Bases
  <2>1. Opening(r)' <=> Opening(s)'
    BY <1>1, <1>3 DEF Opening
  <2>2. CASE Opening(r)'
    <3>1. After(r)' = After(s)'
      BY <1>5, <2>1, <2>2 DEF World, WorldAgrees
    <3> QED BY <1>5, <2>1, <2>2, <3>1
  <2>3. CASE ~Opening(r)'
    <3>1. pos'[s].call \in Windowed
      BY <1>3
    <3>2. pos[r].call \in Windowed /\ Base(r)' = prestate[r] /\ Base(s)' = prestate[s]
      BY <1>6, <2>1, <2>3, <3>1
    <3> QED BY <1>1, <1>2, <3>2 DEF Snapshots, Bases
  <2> QED BY <2>2, <2>3
<1>10. (prestate = [r \in Ranks |-> prestate[r]])'
  BY <1>1 DEF Snapshots
<1> QED BY <1>7, <1>8, <1>9, <1>10 DEF Snapshots

LEMMA LeavingKeepsSnapshots ==
  ASSUME World, Snapshots, NEW K \in SUBSET Ranks, prestate' = prestate, gives' = gives,
         \A r \in Ranks \ K : pos'[r] = pos[r] /\ policy'[r] = policy[r],
         \A r \in K : \E v : pos'[r] = Return(pos[r], v) /\ v # "none",
         entered' = entered \ K, comm' = "live" => comm = "live"
  PROVE  Snapshots'
<1>1. \A r \in K : Over(r)'
  <2> SUFFICES ASSUME NEW r \in K PROVE Over(r)'
    OBVIOUS
  <2>1. \A v : Return(pos[r], v).verdict = v
    BY DEF Return, World, Lockstep, Shape, Fields
  <2> QED BY <2>1 DEF Over
<1>2. ASSUME NEW r \in Ranks, ~Over(r)'
      PROVE  /\ r \notin K /\ ~Over(r) /\ pos'[r] = pos[r] /\ Base(r)' = Base(r)
             /\ (r \in entered' <=> r \in entered) /\ policy'[r] = policy[r]
  <2>1. r \notin K
    BY <1>1, <1>2
  <2> QED BY <1>2, <2>1 DEF Over, Base, Opening
<1>3. ASSUME NEW r \in Ranks, ~Over(r)' PROVE Began(r)' /\ Held(r)' /\ Back(r)'
  <2>1. Began(r) /\ Held(r) /\ Back(r)
    BY <1>2, <1>3 DEF Snapshots
  <2> QED BY <1>2, <1>3, <2>1 DEF Began, Held, Back
<1>4. Bases'
  BY <1>2 DEF Snapshots, Bases
<1> QED BY <1>3, <1>4 DEF Snapshots

LEMMA StartedHasNoSnapshot ==
  ~Tracked(Start) /\ Start.call \notin Windowed /\ Start.call # "unresume"
<1>1. Start.call \notin Loading /\ Start.call \notin Preparing /\ Start.call \notin InWindow
      /\ Start.call \notin Recovering
  BY StartIsPlace, Disjoint
<1>2. Start.call \notin {"validate", "discover"}
  BY DEF Start, ResumeLatest
<1> QED BY <1>1, <1>2 DEF Tracked, Windowed, InWindow, Recovering

LEMMA SnapshotsInit == ASSUME Init PROVE Snapshots
<1>1. /\ \A r \in Ranks : pos[r] = Start /\ r \notin entered
      /\ prestate = [r \in Ranks |-> prestate[r]]
  BY DEF Init, Boot
<1> QED BY <1>1, StartedHasNoSnapshot DEF Snapshots, Began, Held, Back, Bases

LEMMA RelaunchKeepsSnapshots == ASSUME Relaunch PROVE Snapshots'
<1>1. /\ \A r \in Ranks : pos'[r] = Start /\ r \notin entered'
      /\ prestate' = [r \in Ranks |-> prestate'[r]]
  BY DEF Relaunch
<1> QED BY <1>1, StartedHasNoSnapshot DEF Snapshots, Began, Held, Back, Bases

LEMMA SameMemoryKeepsSnapshots ==
  ASSUME UNCHANGED <<pos, entered, gives, policy, prestate>>, World, Snapshots,
         comm' = "live" => comm = "live"
  PROVE  Snapshots'
<1>1. \A r \in Ranks \ {} : pos'[r] = pos[r] /\ policy'[r] = policy[r]
  OBVIOUS
<1>2. entered' = entered \ {} /\ {} \in SUBSET Ranks
      /\ \A r \in {} : \E v : pos'[r] = Return(pos[r], v) /\ v # "none"
  OBVIOUS
<1>3. prestate' = prestate /\ gives' = gives
  OBVIOUS
<1> QED BY <1>1, <1>2, <1>3, LeavingKeepsSnapshots

LEMMA NextKeepsSnapshots ==
  ASSUME World, RunInv, Snapshots, [Next]_vars PROVE Snapshots'
<1>0. World' /\ RunInv'
  BY NextKeepsWorld, NextKeepsRun
<1>1. ASSUME NEW r \in Ranks, LocalWork(r) PROVE Snapshots'
  BY <1>1, WorkKeepsSnapshots
<1>2. ASSUME NEW r \in Ranks, CommError(r) PROVE Snapshots'
  <2>1. /\ pos' = [pos EXCEPT ![r] = Return(@, "terminal")]
        /\ entered' = entered \ {r} /\ gives' = gives /\ prestate' = prestate /\ comm' = comm
    BY <1>2 DEF CommError
  <2>2. \A s \in Ranks \ {r} : pos'[s] = pos[s] /\ policy'[s] = policy[s]
    BY <1>2, <2>1 DEF CommError, World, Lockstep, Shape, StateShape
  <2>3. \A s \in {r} : \E v : pos'[s] = Return(pos[s], v) /\ v # "none"
    <3>1. pos'[r] = Return(pos[r], "terminal")
      BY <2>1 DEF World, Lockstep, Shape
    <3> QED BY <3>1
  <2> QED BY <2>1, <2>2, <2>3, LeavingKeepsSnapshots
<1>3. CASE UNCHANGED <<pos, entered, gives, policy, prestate>> /\ (comm' = "live" => comm = "live")
  BY <1>3, SameMemoryKeepsSnapshots
<1>4. ASSUME NEW r \in Ranks, Signal(r) PROVE Snapshots'
  BY <1>3, <1>4 DEF Signal, world, memory, disk
<1>5. CASE Reduce
  BY <1>0, <1>5, ReduceKeepsSnapshots
<1>6. CASE CommFails \/ Deadline
  BY <1>3, <1>6 DEF CommFails, Deadline, memory, disk
<1>7. CASE Relaunch
  BY <1>7, RelaunchKeepsSnapshots
<1>8. CASE Finished \/ UNCHANGED vars
  BY <1>3, <1>8 DEF Finished, vars, world, memory, disk
<1>9. ASSUME NEW K \in {{r} : r \in Ranks} \cup {Ranks}, Kill(K) PROVE Snapshots'
  <2>1. /\ pos' = [r \in Ranks |-> IF r \in K THEN Return(pos[r], "killed") ELSE pos[r]]
        /\ entered' = entered \ K /\ gives' = gives /\ policy' = policy
        /\ prestate' = prestate /\ comm' = comm /\ K \in SUBSET Ranks
    BY <1>9 DEF Kill, memory
  <2>2. \A r \in K : \E v : pos'[r] = Return(pos[r], v) /\ v # "none"
    <3>1. \A r \in K : pos'[r] = Return(pos[r], "killed")
      BY <2>1
    <3> QED BY <3>1
  <2>3. \A r \in Ranks \ K : pos'[r] = pos[r] /\ policy'[r] = policy[r]
    BY <2>1
  <2> QED BY <2>1, <2>2, <2>3, LeavingKeepsSnapshots
<1> QED BY <1>1, <1>2, <1>4, <1>5, <1>6, <1>7, <1>8, <1>9 DEF Next

(***************************************************************************)
(* What a verdict says.                                                    *)
(***************************************************************************)
Good == {"restored", "preempted", "completed"}

\* These verdicts fall on every rank at once, and then nothing changes.
Final ==
  /\ \A r \in Ranks : pos[r].verdict \in Good => \A s \in Ranks : Over(s)
  /\ RestoredMeansRestored /\ VerdictsAreBacked

LEMMA NoVerdictYet ==
  ASSUME \A r \in Ranks : pos[r].verdict \notin Good
  PROVE  Final
BY DEF Final, RestoredMeansRestored, VerdictsAreBacked, Good

NoVerdictHolds == (\A r \in Ranks : pos[r].verdict \notin Good) => Final
LEMMA NoVerdict == NoVerdictHolds
BY NoVerdictYet DEF NoVerdictHolds

LEMMA RestoredIsBack ==
  ASSUME Reduce, World, RunInv, Snapshots, NEW r \in Ranks, pos'[r].verdict = "restored"
  PROVE  \A s \in Ranks :
           /\ policy[s] = policy[r]
           /\ IF pos'[r].call = "unresume" THEN policy[s] = FreshPolicy
              ELSE StateAfter(policy[s], pos'[r].step)
<1>1. /\ pos[r].verdict = "none" /\ Proceeds(r) /\ entered = Ranks /\ comm = "live"
  BY ReduceProceeds DEF Reduce
<1>2. ~Errs(pos[r], pos'[r]) /\ ~Flow(pos[r], pos'[r], Sum)
  <2>1. \A q : ~(Enters(pos[r], q) /\ q.verdict = "restored")
    BY DEF Enters
  <2> QED BY <2>1 DEF Errs, Flow, Links, Collects, Materializes, Trains, Stays, Preempts,
                      Branches, Opens, StepsOn, Yields
<1>3. Recovers(pos[r], pos'[r]) /\ ~AnyFailure(r)
  BY <1>1, <1>2 DEF Proceeds
<1>4. /\ pos[r].call \in {"rollback", "unresume"} /\ pos'[r].call = pos[r].call
      /\ pos'[r].step = pos[r].step
  BY <1>3 DEF Recovers, Kept
<1>5. ASSUME NEW s \in Ranks
      PROVE  /\ ~Over(s) /\ pos[s].call = pos[r].call /\ pos[s].step = pos[r].step
             /\ prestate[s] # NoPolicy /\ policy[s] = prestate[s] /\ Base(s) = prestate[s]
             /\ Began(s) /\ Held(s)
  <2>1. ~Over(s)
    BY ReduceProceeds DEF Over
  <2>2. pos[s].call = pos[r].call /\ pos[s].step = pos[r].step
    BY DEF World, SamePlace
  <2>3. s \in entered /\ ~gives[s].failed
    BY <1>1, <1>3 DEF AnyFailure
  <2>4. Began(s) /\ Held(s) /\ Back(s)
    BY <2>1 DEF Snapshots
  <2>5. prestate[s] # NoPolicy /\ policy[s] = prestate[s]
    BY <1>4, <2>2, <2>3, <2>4 DEF Back
  <2>6. Base(s) = prestate[s]
    BY <2>3 DEF Base, Opening
  <2> QED BY <2>1, <2>2, <2>4, <2>5, <2>6
<1>6. CASE pos[r].call = "unresume"
  <2>1. \A s \in Ranks : policy[s] = FreshPolicy
    <3> SUFFICES ASSUME NEW s \in Ranks PROVE policy[s] = FreshPolicy
      OBVIOUS
    <3>1. Tracked(pos[s])
      BY <1>5, <1>6 DEF Tracked
    <3> QED BY <1>5, <3>1 DEF Began
  <2> QED BY <1>4, <1>6, <2>1
<1>7. CASE pos[r].call = "rollback"
  <2>1. pos[r].call \in Windowed
    BY <1>7 DEF Windowed
  <2>2. \A s \in Ranks : policy[s] = policy[r]
    BY <1>1, <1>5, <2>1 DEF Snapshots, Bases
  <2>3. \A s \in Ranks : StateAfter(policy[s], pos[r].step)
    BY <1>5, <2>1 DEF Held
  <2> QED BY <1>4, <1>7, <2>2, <2>3
<1> QED BY <1>4, <1>6, <1>7

LEMMA PreemptedIsSaved ==
  ASSUME Reduce, World, RunInv, NEW r \in Ranks, pos'[r].verdict = "preempted"
  PROVE  pos'[r].step + 1 < Steps /\ store[pos'[r].step + 1] = policy[r]
<1>1. pos[r].verdict = "none" /\ Proceeds(r) /\ entered = Ranks /\ Place(pos[r])
  BY ReduceProceeds, InvPlace DEF Reduce
<1>2. ~Errs(pos[r], pos'[r]) /\ ~Recovers(pos[r], pos'[r])
  BY DEF Errs, Recovers
<1>3. Flow(pos[r], pos'[r], Sum) /\ ~AnyFailure(r)
  BY <1>1, <1>2 DEF Proceeds
<1>4. Yields(pos[r], pos'[r])
  <2>1. \A q : ~(Enters(pos[r], q) /\ q.verdict = "preempted")
    BY DEF Enters
  <2> QED BY <1>3, <2>1 DEF Flow, Links, Collects, Materializes, Trains, Stays, Preempts,
                            Branches, Opens, StepsOn
<1>5. pos[r].call = "publish" /\ pos[r].stop = TRUE /\ pos'[r].step = pos[r].step
  BY <1>4 DEF Yields
<1>6. pos[r].step + 1 < Steps
  BY <1>1, <1>5 DEF Place
<1>7. /\ Primary \in Ranks /\ pos[Primary].call = "publish" /\ pos[Primary].step = pos[r].step
      /\ ~gives[Primary].failed /\ policy[r] = policy[Primary]
  BY <1>3, <1>5, RunAssumption DEF World, SamePlace, WorldAgrees, AnyFailure
<1>8. store[pos[r].step + 1] = policy[r]
  BY <1>1, <1>7 DEF RunInv, Published
<1> QED BY <1>5, <1>6, <1>8

LEMMA CompletedIsDone ==
  ASSUME Reduce, World, RunInv, NEW r \in Ranks, pos'[r].verdict = "completed"
  PROVE  StateAfter(policy[r], Steps) /\ (Every > 0 /\ Steps > 0 => store[Steps] # NoPolicy)
<1>1. /\ pos[r].verdict = "none" /\ Proceeds(r) /\ entered = Ranks /\ Place(pos[r])
      /\ pos[r].step \in Nat
  BY ReduceProceeds, InvPlace DEF Reduce
<1>2. ~Errs(pos[r], pos'[r]) /\ ~Recovers(pos[r], pos'[r])
  BY DEF Errs, Recovers
<1>3. Flow(pos[r], pos'[r], Sum) /\ ~AnyFailure(r) /\ pos[r].call \notin Recovering
  BY <1>1, <1>2 DEF Proceeds
<1>4. Opens(pos[r], pos'[r]) \/ StepsOn(pos[r], pos'[r])
  BY <1>3 DEF Flow, Links, Collects, Materializes, Trains, Stays, Preempts, Branches, Yields
<1>5. pos'[r].step = Steps
  BY <1>4 DEF Opens, StepsOn, Enters
<1>6. Content(policy[r], pos[r], TRUE)
  BY <1>3, ReduceStaysSound
<1>7. CASE Opens(pos[r], pos'[r])
  <2>1. pos[r].step = Steps /\ pos[r].call \in Preparing
    BY <1>5, <1>7 DEF Opens, Preparing
  <2>2. StateAfter(policy[r], Steps)
    BY <1>6, <2>1 DEF Content
  <2>3. Found(r)
    BY DEF RunInv
  <2> QED BY <2>1, <2>2, <2>3 DEF Found
<1>8. CASE StepsOn(pos[r], pos'[r])
  <2>1. pos[r].step + 1 = Steps /\ pos[r].call = "poll"
    BY <1>5, <1>8 DEF StepsOn
  <2>2. StateAfter(policy[r], Steps)
    BY <1>6, <2>1 DEF Content
  <2>3. Covered(r)
    BY DEF RunInv
  <2>4. Every > 0 => Due(Steps)
    BY DEF Due
  <2> QED BY <1>1, <2>1, <2>2, <2>3, <2>4 DEF Covered
<1> QED BY <1>4, <1>7, <1>8

LEMMA ReduceKeepsFinal ==
  ASSUME Reduce, World, RunInv, Snapshots
  PROVE  Final'
<1>1. policy' = policy /\ store' = store
  BY DEF Reduce, disk
<1>2. \A r, s \in Ranks : pos'[r] = pos'[s]
  BY ReduceKeepsLockstep DEF World
<1>3. (\A r \in Ranks : pos[r].verdict \in Good => \A s \in Ranks : Over(s))'
  BY <1>2 DEF Good, Over
<1>4. RestoredMeansRestored'
  BY <1>1, RestoredIsBack DEF RestoredMeansRestored, StateAfter, Before
<1>5. VerdictsAreBacked'
  BY <1>1, PreemptedIsSaved, CompletedIsDone DEF VerdictsAreBacked, StateAfter, Before
<1> QED BY <1>3, <1>4, <1>5 DEF Final

LEMMA NextKeepsFinal ==
  ASSUME World, RunInv, Snapshots, Final, [Next]_vars PROVE Final'
<1>1. CASE Reduce
  BY <1>1, ReduceKeepsFinal
<1>2. NoVerdictHolds'
  BY NoVerdict, PTL
<1>3. CASE Relaunch
  <2>1. \A r \in Ranks : pos'[r] = Start
    BY <1>3 DEF Relaunch
  <2>2. Start.verdict \notin Good
    BY DEF Start, Good
  <2> QED BY <1>2, <2>1, <2>2 DEF NoVerdictHolds
<1>4. CASE UNCHANGED <<pos, policy, store>>
  BY <1>4 DEF Final, RestoredMeansRestored, VerdictsAreBacked, Over
<1>5. ASSUME NEW r \in Ranks, LocalWork(r) \/ CommError(r) PROVE Final'
  <2>1. ~Over(r)
    BY <1>5, WorkEnters DEF CommError
  <2>2. \A s \in Ranks : pos[s].verdict \notin Good
    BY <2>1 DEF Final
  <2>3. \A s \in Ranks : pos'[s].verdict = pos[s].verdict \/ pos'[s].verdict = "terminal"
    <3>1. CASE LocalWork(r)
      BY <3>1, WorkEnters
    <3>2. CASE CommError(r)
      <4>1. /\ \A s \in Ranks : s # r => pos'[s] = pos[s]
            /\ pos'[r] = Return(pos[r], "terminal")
        BY <3>2 DEF CommError, World, Lockstep, Shape
      <4> QED BY <4>1 DEF Return, World, Lockstep, Shape, Fields
    <3> QED BY <1>5, <3>1, <3>2
  <2>4. \A s \in Ranks : pos'[s].verdict \notin Good
    BY <2>2, <2>3 DEF Good
  <2> QED BY <1>2, <2>4 DEF NoVerdictHolds
<1>6. ASSUME NEW K \in {{r} : r \in Ranks} \cup {Ranks}, Kill(K) PROVE Final'
  <2>1. K # {} /\ K \in SUBSET Ranks /\ \A r \in K : ~Over(r)
    BY <1>6 DEF Kill
  <2>2. \A s \in Ranks : pos[s].verdict \notin Good
    BY <2>1 DEF Final
  <2>3. \A s \in Ranks : pos'[s] = pos[s] \/ pos'[s] = Return(pos[s], "killed")
    BY <1>6 DEF Kill
  <2>4. \A s \in Ranks : Return(pos[s], "killed").verdict = "killed"
    BY DEF Return, World, Lockstep, Shape, Fields
  <2>5. \A s \in Ranks : pos'[s].verdict \notin Good
    BY <2>2, <2>3, <2>4 DEF Good
  <2> QED BY <1>2, <2>5 DEF NoVerdictHolds
<1>7. ASSUME NEW r \in Ranks, Signal(r) PROVE Final'
  BY <1>4, <1>7 DEF Signal, world, memory, disk
<1>8. CASE CommFails \/ Deadline
  BY <1>4, <1>8 DEF CommFails, Deadline, memory, disk
<1>9. CASE Finished \/ UNCHANGED vars
  BY <1>4, <1>9 DEF Finished, vars, world, memory, disk
<1> QED BY <1>1, <1>3, <1>5, <1>6, <1>7, <1>8, <1>9 DEF Next

LEMMA FinalInvariance == Spec => []Final
<1>1. Init => World /\ RunInv /\ Snapshots /\ Final
  <2>1. Init => \A r \in Ranks : pos[r].verdict \notin Good
    BY DEF Init, Boot, Start, Good
  <2> QED BY <2>1, WorldInit, RunInit, SnapshotsInit, NoVerdictYet
<1>2. World /\ RunInv /\ Snapshots /\ Final /\ [Next]_vars
        => (World /\ RunInv /\ Snapshots /\ Final)'
  BY NextKeepsWorld, NextKeepsRun, NextKeepsSnapshots, NextKeepsFinal
<1> QED BY <1>1, <1>2, PTL DEF Spec

\* A rank reports a failed transaction as rolled back only if every rank is
\* back where the transaction began: the rollbacks of resume_latest and
\* run_window, for any number of ranks.
THEOREM RollbacksRestore == Spec => []RestoredMeansRestored
<1>1. Final => RestoredMeansRestored
  BY DEF Final
<1> QED BY <1>1, FinalInvariance, PTL

\* A preempted run has published exactly the state it stopped in, and a
\* completed run that checkpoints has published the last step.
THEOREM VerdictsHold == Spec => []VerdictsAreBacked
<1>1. Final => VerdictsAreBacked
  BY DEF Final
<1> QED BY <1>1, FinalInvariance, PTL

(***************************************************************************)
(* The candidate streams.                                                  *)
(***************************************************************************)
\* No window is half way into the stream of r.
Settled(r) ==
  \/ Over(r) \/ pos[r].call \notin {"append", "truncate"}
  \/ pos[r].call = "append" /\ r \notin entered
  \/ pos[r].call = "truncate" /\ r \in entered

\* The stream of r without a window that is half way in.
Stream(r) == IF Settled(r) THEN candidates[r] ELSE SubSeq(candidates[r], 1, mark[r])

\* The mark of a rank that appends is where its stream ended.
Marked(r) ==
  /\ ~Over(r) /\ \/ pos[r].call = "boundary" /\ r \in entered
                 \/ pos[r].call = "append" /\ r \notin entered
       => mark[r] = Len(candidates[r])
  /\ ~Settled(r) => mark[r] \in 0..Len(candidates[r])
Appended(r) ==
  Writes(r) /\ ~Over(r) /\ pos[r].call = "append" /\ r \in entered /\ ~gives[r].failed
    => candidates[r] = Append(Stream(r), pos[r].step)

Streams ==
  /\ candidates = [r \in Ranks |-> candidates[r]] /\ mark = [r \in Ranks |-> mark[r]]
  /\ \A r \in Ranks : candidates[r] \in Seq(Nat) /\ Marked(r) /\ Appended(r)
  /\ ~torn => \A r, s \in Ranks : Writes(r) /\ Writes(s) => Stream(r) = Stream(s)

LEMMA Cuts ==
  ASSUME NEW S, NEW s \in Seq(S), NEW e \in S
  PROVE  /\ Len(s) \in Nat /\ SubSeq(s, 1, Len(s)) = s
         /\ Append(s, e) \in Seq(S) /\ Len(Append(s, e)) = Len(s) + 1
         /\ SubSeq(Append(s, e), 1, Len(s)) = s
         /\ \A n \in 0..Len(s) : SubSeq(s, 1, n) \in Seq(S)
<1>1. Len(s) \in Nat /\ Append(s, e) \in Seq(S) /\ Len(Append(s, e)) = Len(s) + 1
      /\ DOMAIN s = 1..Len(s) /\ s = [i \in 1..Len(s) |-> s[i]]
      /\ \A i \in 1..Len(s) : Append(s, e)[i] = s[i] /\ s[i] \in S
  OBVIOUS
<1>2. \A n \in 0..Len(s) : SubSeq(s, 1, n) = [i \in 1..n |-> s[i]]
  BY <1>1, SubSeqProperties
<1>3. SubSeq(s, 1, Len(s)) = s
  BY <1>1, <1>2
<1>4. \A n \in 0..Len(s) : SubSeq(s, 1, n) \in Seq(S)
  BY <1>1, SubSeqProperties
<1>5. SubSeq(Append(s, e), 1, Len(s)) = [i \in 1..Len(s) |-> Append(s, e)[i]]
  BY <1>1, SubSeqProperties
<1>6. SubSeq(Append(s, e), 1, Len(s)) = s
  BY <1>1, <1>5
<1> QED BY <1>1, <1>3, <1>4, <1>6

LEMMA WorkKeepsStreams ==
  ASSUME NEW r \in Ranks, LocalWork(r), World, RunInv, Streams
  PROVE  Streams'
<1>1. /\ pos' = pos /\ ~Over(r) /\ r \notin entered /\ entered' = entered \cup {r}
  BY WorkEnters
<1>2. \A s \in Ranks : s # r => gives'[s] = gives[s]
  BY WorkOnPolicy DEF World
<1>3. Acts(r) /\ Touches(r)
  BY WorkTouches
<1>4. candidates[r] \in Seq(Nat) /\ pos[r].step \in Nat /\ Marked(r)
  BY InvPlace DEF Streams
<1>5. \A s \in Ranks : s # r => (Settled(s)' <=> Settled(s))
  BY <1>1 DEF Settled, Over
<1>6. /\ candidates' = [s \in Ranks |-> candidates'[s]] /\ mark' = [s \in Ranks |-> mark'[s]]
      /\ \A s \in Ranks : s # r => candidates'[s] = candidates[s] /\ mark'[s] = mark[s]
  <2>1. CASE pos[r].call = "boundary"
    BY <1>3, <2>1 DEF Acts, Touches, CandidateBoundary, Streams, disk
  <2>2. CASE pos[r].call = "append"
    BY <1>3, <2>2 DEF Acts, Touches, AppendCandidates, Streams, memory
  <2>3. CASE pos[r].call = "truncate"
    BY <1>3, <2>3 DEF Acts, Touches, TruncateCandidates, Streams, memory
  <2>4. CASE pos[r].call \notin {"boundary", "append", "truncate"}
    BY <1>3, <2>4 DEF Touches, Streams
  <2> QED BY <2>1, <2>2, <2>3, <2>4
<1>7. /\ candidates'[r] \in Seq(Nat) /\ Marked(r)' /\ Appended(r)'
      /\ ~torn' => ~torn /\ Stream(r)' = Stream(r)
  <2>1. CASE pos[r].call = "boundary"
    <3>1. /\ mark' = [mark EXCEPT ![r] = Len(candidates[r])]
          /\ candidates' = candidates /\ torn' = torn
      BY <1>3, <2>1 DEF Acts, CandidateBoundary, disk
    <3>2. mark'[r] = Len(candidates[r])
      BY <3>1 DEF Streams
    <3>3. Settled(r) /\ Settled(r)'
      BY <1>1, <2>1 DEF Settled
    <3> QED BY <1>1, <1>4, <2>1, <3>1, <3>2, <3>3 DEF Marked, Appended, Stream
  <2>2. CASE pos[r].call = "append"
    <3>1. mark' = mark /\ torn' = torn /\ mark[r] = Len(candidates[r])
      BY <1>1, <1>3, <1>4, <2>2 DEF Acts, AppendCandidates, memory, Marked
    <3>2. Settled(r) /\ ~Settled(r)'
      BY <1>1, <2>2 DEF Settled, Over
    <3>3. \/ candidates'[r] = candidates[r] /\ (gives'[r].failed \/ ~Writes(r))
          \/ candidates'[r] = Append(candidates[r], pos[r].step)
      BY <1>3, <2>2 DEF Acts, AppendCandidates, Streams
    <3>4. /\ Len(candidates[r]) \in Nat
          /\ SubSeq(candidates[r], 1, Len(candidates[r])) = candidates[r]
          /\ Append(candidates[r], pos[r].step) \in Seq(Nat)
          /\ Len(Append(candidates[r], pos[r].step)) = Len(candidates[r]) + 1
          /\ SubSeq(Append(candidates[r], pos[r].step), 1, Len(candidates[r])) = candidates[r]
      BY <1>4, Cuts
    <3>5. candidates'[r] \in Seq(Nat) /\ mark'[r] \in 0..Len(candidates'[r])
          /\ SubSeq(candidates'[r], 1, mark'[r]) = candidates[r]
      <4>1. mark'[r] = Len(candidates[r])
        BY <3>1
      <4>2. CASE candidates'[r] = candidates[r]
        BY <1>4, <3>4, <4>1, <4>2
      <4>3. CASE candidates'[r] = Append(candidates[r], pos[r].step)
        BY <3>4, <4>1, <4>3
      <4> QED BY <3>3, <4>2, <4>3
    <3>6. Stream(r)' = candidates[r] /\ Stream(r) = candidates[r]
      BY <3>2, <3>5 DEF Stream
    <3>7. Marked(r)'
      BY <1>1, <2>2, <3>5 DEF Marked
    <3>8. Appended(r)'
      BY <1>1, <3>3, <3>6 DEF Appended, Writes
    <3> QED BY <3>1, <3>5, <3>6, <3>7, <3>8
  <2>3. CASE pos[r].call = "truncate"
    <3>1. ~Settled(r) /\ Settled(r)' /\ mark' = mark
      BY <1>1, <1>3, <2>3 DEF Settled, Over, Acts, TruncateCandidates, memory
    <3>2. mark[r] \in 0..Len(candidates[r])
      BY <1>4, <3>1 DEF Marked
    <3>3. SubSeq(candidates[r], 1, mark[r]) \in Seq(Nat)
      BY <1>4, <3>2, Cuts
    <3>4. \/ candidates'[r] = SubSeq(candidates[r], 1, mark[r]) /\ torn' = torn
          \/ candidates'[r] = candidates[r] /\ torn' = TRUE
      BY <1>3, <2>3 DEF Acts, TruncateCandidates, Streams
    <3>5. candidates'[r] \in Seq(Nat) /\ (~torn' => ~torn /\ Stream(r)' = Stream(r))
      <4>1. Stream(r)' = candidates'[r] /\ Stream(r) = SubSeq(candidates[r], 1, mark[r])
        BY <3>1 DEF Stream
      <4>3. CASE candidates'[r] = SubSeq(candidates[r], 1, mark[r]) /\ torn' = torn
        BY <3>3, <4>1, <4>3
      <4>4. CASE candidates'[r] = candidates[r] /\ torn' = TRUE
        BY <1>4, <4>4
      <4> QED BY <3>4, <4>3, <4>4
    <3> QED BY <1>1, <2>3, <3>1, <3>5 DEF Marked, Appended
  <2>4. CASE pos[r].call \notin {"boundary", "append", "truncate"}
    <3>1. candidates' = candidates /\ torn' = torn /\ mark' = mark
      BY <1>3, <2>4 DEF Touches
    <3>2. Settled(r) /\ Settled(r)'
      BY <1>1, <2>4 DEF Settled
    <3> QED BY <1>1, <1>4, <2>4, <3>1, <3>2 DEF Marked, Appended, Stream
  <2> QED BY <2>1, <2>2, <2>3, <2>4
<1>8. ASSUME NEW s \in Ranks, s # r
      PROVE  /\ candidates'[s] \in Seq(Nat) /\ Marked(s)' /\ Appended(s)'
             /\ Stream(s)' = Stream(s)
  <2>1. candidates[s] \in Seq(Nat) /\ Marked(s) /\ Appended(s)
    BY DEF Streams
  <2>2. Stream(s)' = Stream(s)
    BY <1>5, <1>6, <1>8 DEF Stream
  <2>3. Marked(s)'
    BY <1>1, <1>5, <1>6, <1>8, <2>1 DEF Marked, Over
  <2>4. Appended(s)'
    BY <1>1, <1>2, <1>6, <1>8, <2>1, <2>2 DEF Appended, Over, Writes
  <2> QED BY <1>6, <1>8, <2>1, <2>2, <2>3, <2>4
<1>9. ~torn' => \A s, t \in Ranks : Writes(s)' /\ Writes(t)' => Stream(s)' = Stream(t)'
  <2>1. ~torn' => ~torn /\ \A s \in Ranks : Stream(s)' = Stream(s)
    BY <1>7, <1>8
  <2> QED BY <2>1 DEF Streams, Writes
<1> QED BY <1>6, <1>7, <1>8, <1>9 DEF Streams

\* Where a rank that is writing its window comes from.
LEMMA WritesFrom ==
  ASSUME Reduce, World, RunInv, NEW r \in Ranks, pos'[r].verdict = "none"
  PROVE  /\ pos'[r].call = "append" => pos[r].call = "boundary"
         /\ pos'[r].call = "truncate" => pos[r].call = "append" /\ pos'[r].step = pos[r].step
         /\ pos[r].call = "append" /\ pos'[r].call # "truncate" => ~AnyFailure(r)
<1>1. Proceeds(r) /\ Place(pos[r]) /\ Place(pos'[r])
  BY ReduceProceeds, InvPlace
<1>2. CASE Errs(pos[r], pos'[r])
  BY <1>2 DEF Errs, Kept, Undoes, Loading, Preparing, Grouping, Asking, Scored
<1>3. CASE Recovers(pos[r], pos'[r])
  BY <1>3 DEF Recovers
<1>4. CASE Flow(pos[r], pos'[r], Sum) /\ ~AnyFailure(r)
  <2>1. pos'[r].call = "append" => pos[r].call = "boundary"
    <3> SUFFICES ASSUME pos'[r].call = "append" PROVE pos[r].call = "boundary"
      OBVIOUS
    <3>1. /\ pos'[r].call \notin Looking /\ pos'[r].call \notin Loading /\ pos'[r].call \notin Preparing
          /\ pos'[r].call \notin Grouping
      BY Disjoint, DisjointWithin DEF InWindow, Recording
    <3>2. pos'[r].call \notin Asking /\ pos'[r].call \notin Scored
      BY <3>1 DEF Grouping
    <3>3. Links(pos[r], pos'[r]) => pos[r].call = "boundary"
      BY <3>1, <3>2 DEF Links, Link
    <3>4. ~Branches(pos[r], pos'[r], Sum)
      BY <3>1 DEF Branches, LoadResumePoint, Loading
    <3>5. /\ ~Opens(pos[r], pos'[r]) /\ ~StepsOn(pos[r], pos'[r]) /\ ~Yields(pos[r], pos'[r])
          /\ ~Collects(pos[r], pos'[r]) /\ ~Materializes(pos[r], pos'[r])
          /\ ~Trains(pos[r], pos'[r]) /\ ~Preempts(pos[r], pos'[r])
      BY DEF Opens, StepsOn, Yields, Enters, Collects, Materializes, Trains, Preempts
    <3> QED BY <1>4, <3>3, <3>4, <3>5 DEF Flow
  <2>2. pos'[r].call # "truncate"
    <3> SUFFICES ASSUME pos'[r].call = "truncate" PROVE FALSE
      OBVIOUS
    <3>1. /\ pos'[r].call \notin Looking /\ pos'[r].call \notin Loading /\ pos'[r].call \notin Preparing
          /\ pos'[r].call \notin InWindow
      BY Disjoint DEF Recovering
    <3>2. pos'[r].call \notin Asking /\ pos'[r].call \notin Scored
      BY <3>1 DEF InWindow, Grouping
    <3>3. ~Links(pos[r], pos'[r])
      BY <3>1, <3>2 DEF Links, Link
    <3>4. ~Branches(pos[r], pos'[r], Sum)
      BY <3>1 DEF Branches, LoadResumePoint, Loading
    <3>5. /\ ~Opens(pos[r], pos'[r]) /\ ~StepsOn(pos[r], pos'[r]) /\ ~Yields(pos[r], pos'[r])
          /\ ~Collects(pos[r], pos'[r]) /\ ~Materializes(pos[r], pos'[r])
          /\ ~Trains(pos[r], pos'[r]) /\ ~Preempts(pos[r], pos'[r])
      BY DEF Opens, StepsOn, Yields, Enters, Collects, Materializes, Trains, Preempts
    <3> QED BY <1>4, <3>3, <3>4, <3>5 DEF Flow
  <2> QED BY <1>4, <2>1, <2>2
<1> QED BY <1>1, <1>2, <1>3, <1>4 DEF Proceeds

LEMMA ReduceKeepsStreams ==
  ASSUME Reduce, World, RunInv, Streams
  PROVE  Streams'
<1>1. /\ entered = Ranks /\ entered' = {} /\ candidates' = candidates /\ mark' = mark
      /\ torn' = torn /\ \A r, s \in Ranks : pos'[r] = pos'[s]
  BY ReduceKeepsLockstep DEF Reduce, disk, World
<1>2. ASSUME NEW r \in Ranks
      PROVE  ~Over(r) /\ r \in entered /\ Marked(r) /\ Appended(r)
  BY ReduceProceeds DEF Over, Streams
\* A failed append is truncated everywhere; a whole one stays.
<1>3. ASSUME NEW r \in Ranks, pos[r].call = "append", ~AnyFailure(r), Writes(r),
             pos'[r].call # "truncate"
      PROVE  candidates[r] = Append(Stream(r), pos[r].step) /\ Stream(r)' = candidates[r]
  <2>2. candidates[r] = Append(Stream(r), pos[r].step)
    BY <1>2, <1>3 DEF Appended, AnyFailure
  <2>3. Settled(r)'
    <3>1. pos'[r].call = "append" /\ pos'[r].verdict = "none" => pos[r].call = "boundary"
      BY WritesFrom
    <3> QED BY <1>1, <1>3, <3>1 DEF Settled, Over
  <2> QED BY <1>1, <2>2, <2>3 DEF Stream
<1>4. ASSUME NEW r \in Ranks, pos[r].call = "append"
      PROVE  \/ pos'[r].call = "truncate" /\ ~Over(r)' /\ ~Settled(r) /\ ~Settled(r)'
             \/ pos'[r].call # "truncate" /\ ~AnyFailure(r)
  <2>1. CASE AnyFailure(r)
    <3>1. pos'[r] = Goto(pos[r], "truncate")
      BY <1>4, <2>1 DEF Reduce, Fail
    <3>2. pos'[r].call = "truncate" /\ pos'[r].verdict = "none"
      <4>1. AllFields \subseteq DOMAIN pos[r]
        BY DEF RunInv, Place
      <4>2. pos[r].verdict = "none"
        BY <1>2 DEF Over
      <4> QED BY <3>1, <4>1, <4>2, FieldsGo
    <3> QED BY <1>1, <1>2, <1>4, <3>2 DEF Settled, Over
  <2>2. CASE ~AnyFailure(r)
    <3>1. pos[r].call \notin Recovering
      BY <1>4 DEF Recovering
    <3>2. Flow(pos[r], pos'[r], Sum)
      BY <2>2, <3>1, ReduceStaysSound
    <3>3. pos'[r].call # "truncate"
      <4>1. /\ "truncate" \notin Looking /\ "truncate" \notin Loading /\ "truncate" \notin Preparing
            /\ "truncate" \notin InWindow
        BY Disjoint DEF Recovering
      <4>2. "truncate" \notin Asking /\ "truncate" \notin Scored
        BY <4>1 DEF InWindow, Grouping
      <4>3. ~(Links(pos[r], pos'[r]) /\ pos'[r].call = "truncate")
        BY <4>1, <4>2 DEF Links, Link
      <4>4. ~Branches(pos[r], pos'[r], Sum) /\ ~Opens(pos[r], pos'[r])
            /\ ~StepsOn(pos[r], pos'[r]) /\ ~Yields(pos[r], pos'[r])
        BY <1>4 DEF Branches, Opens, StepsOn, Yields
      <4> QED BY <3>2, <4>3, <4>4 DEF Flow, Collects, Materializes, Trains, Preempts
    <3> QED BY <2>2, <3>3
  <2> QED BY <2>1, <2>2
<1>5. ASSUME NEW r \in Ranks, pos[r].call # "append" \/ pos'[r].call = "truncate"
      PROVE  Stream(r)' = Stream(r)
  <2>1. CASE pos[r].call = "append"
    BY <1>1, <1>4, <1>5, <2>1 DEF Stream
  <2>2. CASE pos[r].call # "append"
    <3>1. Settled(r)
      BY <1>2, <2>2 DEF Settled
    <3>2. Settled(r)'
      BY <1>1, <2>2, WritesFrom DEF Settled, Over
    <3> QED BY <1>1, <3>1, <3>2 DEF Stream
  <2> QED BY <2>1, <2>2
<1>6. ASSUME NEW r \in Ranks PROVE Marked(r)' /\ Appended(r)'
  <2>1. Appended(r)'
    BY <1>1 DEF Appended
  <2>2. ~Over(r)' /\ pos'[r].call = "append" => mark'[r] = Len(candidates'[r])
    <3> SUFFICES ASSUME ~Over(r)', pos'[r].call = "append" PROVE mark[r] = Len(candidates[r])
      BY <1>1
    <3>1. pos[r].call = "boundary"
      BY WritesFrom DEF Over
    <3> QED BY <1>2, <3>1 DEF Marked
  <2>3. ~Settled(r)' => mark'[r] \in 0..Len(candidates'[r])
    <3> SUFFICES ASSUME ~Settled(r)' PROVE mark[r] \in 0..Len(candidates[r])
      BY <1>1
    <3>1. pos'[r].call = "truncate" /\ pos'[r].verdict = "none"
      BY <1>1 DEF Settled, Over
    <3>2. ~Settled(r)
      BY <1>4, <3>1, WritesFrom
    <3> QED BY <1>2, <3>2 DEF Marked
  <2> QED BY <1>1, <2>1, <2>2, <2>3 DEF Marked
<1>7. ASSUME ~torn, NEW r \in Ranks, NEW s \in Ranks, Writes(r), Writes(s)
      PROVE  Stream(r)' = Stream(s)'
  <2>1. /\ pos[r].call = pos[s].call /\ pos[r].step = pos[s].step
        /\ pos'[r] = pos'[s] /\ Stream(r) = Stream(s)
    BY <1>1, <1>7 DEF World, SamePlace, Streams
  <2>2. CASE pos[r].call = "append" /\ pos'[r].call # "truncate"
    <3>1. ~AnyFailure(r) /\ ~AnyFailure(s)
      BY <1>4, <2>1, <2>2
    <3>2. Stream(r)' = Append(Stream(r), pos[r].step)
      BY <1>3, <1>7, <2>2, <3>1
    <3>3. Stream(s)' = Append(Stream(s), pos[s].step)
      BY <1>3, <1>7, <2>1, <2>2, <3>1
    <3> QED BY <2>1, <3>2, <3>3
  <2>3. CASE pos[r].call # "append" \/ pos'[r].call = "truncate"
    BY <1>5, <2>1, <2>3
  <2> QED BY <2>2, <2>3
<1> QED BY <1>1, <1>6, <1>7 DEF Streams, Writes

\* A rank that leaves takes a window that is half way in out of its stream, or
\* the streams are torn.
LEMMA LeavingKeepsStreams ==
  ASSUME World, RunInv, Streams, NEW K \in SUBSET Ranks, gives' = gives, mark' = mark,
         candidates' = [r \in Ranks |-> candidates'[r]],
         entered' = entered \ K, torn => torn',
         \A r \in Ranks \ K : pos'[r] = pos[r] /\ candidates'[r] = candidates[r],
         \A r \in K : \E v : pos'[r] = Return(pos[r], v) /\ v # "none",
         \A r \in K : candidates'[r] \in Seq(Nat),
         \A r \in K : torn' \/ candidates'[r] = Stream(r) \/ ~Writes(r)
  PROVE  Streams'
<1>1. ASSUME NEW r \in K PROVE Over(r)'
  <2>1. \A v : Return(pos[r], v).verdict = v
    BY DEF Return, World, Lockstep, Shape, Fields
  <2> QED BY <2>1 DEF Over
<1>2. ASSUME NEW r \in Ranks PROVE candidates'[r] \in Seq(Nat) /\ Marked(r)' /\ Appended(r)'
  <2>1. CASE r \in K
    <3>1. Over(r)' /\ Settled(r)'
      BY <1>1, <2>1 DEF Settled
    <3> QED BY <2>1, <3>1 DEF Marked, Appended
  <2>2. CASE r \notin K
    <3>1. pos'[r] = pos[r] /\ candidates'[r] = candidates[r] /\ (r \in entered' <=> r \in entered)
      BY <2>2
    <3>2. (Over(r)' <=> Over(r)) /\ (Settled(r)' <=> Settled(r))
      BY <3>1 DEF Over, Settled
    <3>3. Stream(r)' = Stream(r)
      BY <3>1, <3>2 DEF Stream
    <3> QED BY <3>1, <3>2, <3>3 DEF Streams, Marked, Appended, Writes
  <2> QED BY <2>1, <2>2
<1>3. ASSUME ~torn', NEW r \in Ranks, Writes(r) PROVE Stream(r)' = Stream(r)
  <2>1. CASE r \in K
    <3>1. Settled(r)'
      BY <1>1, <2>1 DEF Settled
    <3> QED BY <1>3, <2>1, <3>1 DEF Stream
  <2>2. CASE r \notin K
    <3>1. pos'[r] = pos[r] /\ candidates'[r] = candidates[r] /\ (r \in entered' <=> r \in entered)
      BY <2>2
    <3>2. Settled(r)' <=> Settled(r)
      BY <3>1 DEF Over, Settled
    <3> QED BY <3>1, <3>2 DEF Stream
  <2> QED BY <2>1, <2>2
<1>4. ~torn' => \A r, s \in Ranks : Writes(r) /\ Writes(s) => Stream(r)' = Stream(s)'
  BY <1>3 DEF Streams
<1>5. (mark = [r \in Ranks |-> mark[r]])'
  BY DEF Streams
<1> QED BY <1>2, <1>4, <1>5 DEF Streams, Writes

LEMMA CommErrorKeepsStreams ==
  ASSUME NEW r \in Ranks, CommError(r), World, RunInv, Streams PROVE Streams'
<1>1. /\ pos' = [pos EXCEPT ![r] = Return(@, "terminal")] /\ ~Over(r) /\ r \in entered
      /\ entered' = entered \ {r} /\ gives' = gives /\ mark' = mark
  BY DEF CommError
<1>2. pos'[r] = Return(pos[r], "terminal") /\ \A s \in Ranks \ {r} : pos'[s] = pos[s]
  BY <1>1 DEF World, Lockstep, Shape
<1>3. /\ candidates' = [s \in Ranks |-> candidates'[s]]
      /\ \A s \in Ranks \ {r} : candidates'[s] = candidates[s]
      /\ torn => torn'
  <2>1. CASE pos[r].call = "append" /\ Writes(r)
    BY <2>1 DEF CommError, Streams
  <2>2. CASE ~(pos[r].call = "append" /\ Writes(r))
    BY <2>2 DEF CommError, Streams
  <2> QED BY <2>1, <2>2
<1>4. candidates'[r] \in Seq(Nat) /\ (torn' \/ candidates'[r] = Stream(r) \/ ~Writes(r))
  <2>1. CASE pos[r].call = "append" /\ Writes(r)
    <3>1. ~Settled(r) /\ mark[r] \in 0..Len(candidates[r]) /\ candidates[r] \in Seq(Nat)
      BY <1>1, <2>1 DEF Settled, Streams, Marked
    <3>2. \/ candidates'[r] = SubSeq(candidates[r], 1, mark[r])
          \/ torn' = TRUE /\ candidates'[r] = candidates[r]
      BY <2>1 DEF CommError, Streams
    <3>3. SubSeq(candidates[r], 1, mark[r]) \in Seq(Nat)
      BY <3>1, Cuts
    <3> QED BY <3>1, <3>2, <3>3 DEF Stream
  <2>2. CASE ~(pos[r].call = "append" /\ Writes(r))
    <3>1. candidates' = candidates
      BY <2>2 DEF CommError
    <3>2. Settled(r) \/ ~Writes(r)
      BY <1>1, <2>2 DEF Settled
    <3> QED BY <3>1, <3>2 DEF Stream, Streams
  <2> QED BY <2>1, <2>2
<1>5. \A s \in {r} : \E v : pos'[s] = Return(pos[s], v) /\ v # "none"
  BY <1>2
<1>6. /\ \A s \in {r} : candidates'[s] \in Seq(Nat)
      /\ \A s \in {r} : torn' \/ candidates'[s] = Stream(s) \/ ~Writes(s)
  BY <1>4
<1>7. {r} \in SUBSET Ranks
  OBVIOUS
<1> QED BY <1>1, <1>2, <1>3, <1>5, <1>6, <1>7, LeavingKeepsStreams

LEMMA KillKeepsStreams ==
  ASSUME NEW K \in SUBSET Ranks, Kill(K), World, RunInv, Streams PROVE Streams'
<1>1. /\ pos' = [r \in Ranks |-> IF r \in K THEN Return(pos[r], "killed") ELSE pos[r]]
      /\ entered' = entered \ K /\ gives' = gives /\ mark' = mark /\ candidates' = candidates
      /\ torn' = TRUE
  BY DEF Kill, memory
<1>2. \A r \in K : \E v : pos'[r] = Return(pos[r], v) /\ v # "none"
  <2>1. \A r \in K : pos'[r] = Return(pos[r], "killed")
    BY <1>1
  <2> QED BY <2>1
<1>3. \A r \in Ranks \ K : pos'[r] = pos[r] /\ candidates'[r] = candidates[r]
  BY <1>1
<1>4. candidates' = [r \in Ranks |-> candidates'[r]] /\ \A r \in K : candidates'[r] \in Seq(Nat)
  BY <1>1 DEF Streams
<1> QED BY <1>1, <1>2, <1>3, <1>4, LeavingKeepsStreams

LEMMA SameStreamsKeep ==
  ASSUME UNCHANGED <<pos, entered, gives, mark, candidates, torn>>, Streams PROVE Streams'
<1>1. \A r \in Ranks : /\ Over(r)' <=> Over(r)
                       /\ Settled(r)' <=> Settled(r)
  BY DEF Over, Settled
<1>2. \A r \in Ranks : Stream(r)' = Stream(r)
  BY <1>1 DEF Stream
<1> QED BY <1>1, <1>2 DEF Streams, Marked, Appended, Writes

LEMMA StartIsSettled == Start.call \notin {"boundary", "append", "truncate"}
  BY DEF Start, ResumeLatest

LEMMA StreamsInit == ASSUME Init PROVE Streams
<1>1. /\ \A r \in Ranks : pos[r] = Start /\ candidates[r] = <<>>
      /\ candidates = [r \in Ranks |-> candidates[r]] /\ mark = [r \in Ranks |-> mark[r]]
  BY DEF Init, Boot
<1>2. \A r \in Ranks : Settled(r) /\ Marked(r) /\ Appended(r)
  BY <1>1, StartIsSettled DEF Settled, Marked, Appended
<1>3. \A r \in Ranks : candidates[r] \in Seq(Nat)
  <2>1. <<>> \in Seq(Nat)
    OBVIOUS
  <2> QED BY <1>1, <2>1
<1> QED BY <1>1, <1>2, <1>3 DEF Streams, Stream

LEMMA RelaunchKeepsStreams == ASSUME Relaunch, Streams PROVE Streams'
<1>1. /\ \A r \in Ranks : pos'[r] = Start /\ Over(r)
      /\ candidates' = candidates /\ torn' = torn /\ mark' = [r \in Ranks |-> mark'[r]]
  BY DEF Relaunch, disk
<1>2. \A r \in Ranks : Settled(r)' /\ Marked(r)' /\ Appended(r)'
  BY <1>1, StartIsSettled DEF Settled, Marked, Appended
<1>3. \A r \in Ranks : Settled(r)
  BY <1>1 DEF Settled
<1>4. \A r \in Ranks : Stream(r)' = Stream(r)
  BY <1>1, <1>2, <1>3 DEF Stream
<1> QED BY <1>1, <1>2, <1>4 DEF Streams, Writes

LEMMA NextKeepsStreams == ASSUME World, RunInv, Streams, [Next]_vars PROVE Streams'
<1>1. ASSUME NEW r \in Ranks, LocalWork(r) PROVE Streams'
  BY <1>1, WorkKeepsStreams
<1>2. ASSUME NEW r \in Ranks, CommError(r) PROVE Streams'
  BY <1>2, CommErrorKeepsStreams
<1>3. CASE UNCHANGED <<pos, entered, gives, mark, candidates, torn>>
  BY <1>3, SameStreamsKeep
<1>4. ASSUME NEW r \in Ranks, Signal(r) PROVE Streams'
  BY <1>3, <1>4 DEF Signal, world, memory, disk
<1>5. CASE Reduce
  BY <1>5, ReduceKeepsStreams
<1>6. CASE CommFails \/ Deadline
  BY <1>3, <1>6 DEF CommFails, Deadline, memory, disk
<1>7. CASE Relaunch
  BY <1>7, RelaunchKeepsStreams
<1>8. CASE Finished \/ UNCHANGED vars
  BY <1>3, <1>8 DEF Finished, vars, world, memory, disk
<1>9. ASSUME NEW K \in {{r} : r \in Ranks} \cup {Ranks}, Kill(K) PROVE Streams'
  <2>1. K \in SUBSET Ranks
    BY <1>9
  <2> QED BY <1>9, <2>1, KillKeepsStreams
<1> QED BY <1>1, <1>2, <1>4, <1>5, <1>6, <1>7, <1>8, <1>9 DEF Next

\* write_candidate_records truncates every stream when one append failed, so
\* that the streams of the ranks hold the same windows, over any number of
\* stops and relaunches, unless a truncation failed or a process was killed.
THEOREM StreamsHoldTheSame == Spec => []CandidateStreamsAgree
<1>1. Init => World /\ RunInv /\ Streams
  BY WorldInit, RunInit, StreamsInit
<1>2. World /\ RunInv /\ Streams /\ [Next]_vars => (World /\ RunInv /\ Streams)'
  BY NextKeepsWorld, NextKeepsRun, NextKeepsStreams
<1>3. Streams => CandidateStreamsAgree
  <2> SUFFICES ASSUME Streams, ~torn, NEW r \in Ranks, NEW s \in Ranks, Writes(r), Writes(s),
                      pos[r].call \notin {"append", "truncate"},
                      pos[s].call \notin {"append", "truncate"}
               PROVE  candidates[r] = candidates[s]
    BY DEF CandidateStreamsAgree
  <2>1. Settled(r) /\ Settled(s) /\ Stream(r) = Stream(s)
    BY DEF Settled, Streams
  <2> QED BY <2>1 DEF Stream
<1> QED BY <1>1, <1>2, <1>3, PTL DEF Spec
=============================================================================
