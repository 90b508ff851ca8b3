-------------------------- MODULE RolloutLedgerProofs --------------------------
(***************************************************************************)
(* Proofs about the publication of a rollout window, for every number of   *)
(* ranks and of worlds that publish at once, and under any number of       *)
(* failures, kills and power failures: the ranks of a world keep or rewind *)
(* their samplers together, and none rewinds once the manifest of its      *)
(* world may be visible; a visible window is whole, a success is durable,  *)
(* and the window is a place that is written once (LedgerWindow).          *)
(*                                                                         *)
(* What ties the verdict of a rank to the disk is the value that rank 0    *)
(* gives to the last reduction (Signals): as long as a world is in phase   *)
(* "commit", nothing but the end of rank 0's commit reaches the others, a  *)
(* failure of the reduction keeps the samplers, and a plain error of the   *)
(* commit means that no manifest was linked (OwnManifest).                 *)
(*                                                                         *)
(* What ties success to the disk is that each operation of a commit leaves *)
(* behind what the next one relies on (Standing), and that no operation of *)
(* another world takes any of it away: a directory in place is removed by  *)
(* its own world only, and never once it holds a manifest (AltersLittle).  *)
(***************************************************************************)
EXTENDS RolloutLedger, TLAPS

\* How a commit ends, and where it may be once the manifest is linked.
Ends == {"ok", "failed", "ambiguous"}
Linked == {"settle", "settleroot", "resettle", "resettleroot", "ok", "ambiguous"}

\* The ranks of a world are in one phase: only a reduction leads on.
SamePhase == \A w \in Worlds : \A r, s \in Ranks : phase[w][r] = phase[w][s]

\* Nothing has happened in a world that was not launched.
NotLaunched ==
  \A w \in Worlds : op[w] = "none" =>
    entered[w] = {} /\ \A r \in Ranks : phase[w][r] = "none" /\ verdict[w][r] = "none"

\* A rank that waits in a reduction has not returned.
WaitersRun == \A w \in Worlds : \A r \in entered[w] : verdict[w][r] = "none"

\* Nobody commits before the last phase.
CommitsLast ==
  \A w \in Worlds : \A r \in Ranks : phase[w][r] # "commit" =>
    op[w] \in {"none", "prepare"} /\ verdict[w][r] \notin {"published", "ambiguous"}

\* What the ranks give to the publication signal.
Signals ==
  \A w \in Worlds : \A r \in entered[w] : phase[w][r] = "commit" =>
    IF r = Primary THEN op[w] \in Ends /\ signal[w][r] = Signal(op[w]) ELSE signal[w][r] = 0

\* In the last phase, ranks rewind together and after a plain error only.
RewindTogether ==
  \A w \in Worlds : \A r \in Ranks : phase[w][r] = "commit" /\ verdict[w][r] = "rewound" =>
    op[w] = "failed" /\ \A s \in Ranks : verdict[w][s] = "rewound"

\* A manifest is there only once its own commit has linked it.
OwnManifest ==
  \A w \in Worlds : Manifest \in files[w] \cup synced[w] => op[w] \in Linked

Protocol == SamePhase /\ NotLaunched /\ WaitersRun /\ CommitsLast /\ Signals /\ RewindTogether
IInv == TypeOK /\ Protocol /\ OwnManifest

USE LedgerAssumption DEF Worlds

LEMMA InitIInv == ASSUME Init PROVE IInv
<1>1. TypeOK
  BY DEF Init, TypeOK, Ops, Entries
<1>2. Protocol
  BY DEF Init, Protocol, SamePhase, NotLaunched, WaitersRun, CommitsLast, Signals, RewindTogether
<1>3. OwnManifest
  BY DEF Init, OwnManifest
<1> QED BY <1>1, <1>2, <1>3 DEF IInv

(***************************************************************************)
(* The file system.                                                        *)
(***************************************************************************)
DiskType ==
  /\ final \in onDisk /\ onDisk \subseteq Worlds \cup {0}
  /\ files \in [Worlds -> SUBSET Entries] /\ synced \in [Worlds -> SUBSET Entries]

NoNewManifest ==
  \A v \in Worlds : Manifest \in files'[v] \cup synced'[v] => Manifest \in files[v] \cup synced[v]

Quiet == DiskType' /\ NoNewManifest

\* A manifest comes to a directory in no other way than by its link.
LEMMA UnchangedIsQuiet == ASSUME DiskType, UNCHANGED disk PROVE Quiet
  BY DEF DiskType, Quiet, NoNewManifest, disk

LEMMA NamedIsQuiet == ASSUME DiskType, NEW w \in Worlds, Named(w) PROVE Quiet
  BY DEF DiskType, Quiet, NoNewManifest, Named

LEMMA LinkIsQuiet ==
  ASSUME DiskType, NEW w \in Worlds, NEW f \in Entries \ {Manifest}, Link(w, f) PROVE Quiet
  BY DEF DiskType, Quiet, NoNewManifest, Link

LEMMA SyncFinalIsQuiet ==
  ASSUME DiskType, NEW w \in Worlds \cup {0}, SyncFinal(w) PROVE Quiet
  BY DEF DiskType, Quiet, NoNewManifest, SyncFinal

LEMMA SyncRootIsQuiet == ASSUME DiskType, SyncRoot PROVE Quiet
  BY DEF DiskType, Quiet, NoNewManifest, SyncRoot

LEMMA RemoveFinalIsQuiet == ASSUME DiskType, NEW w \in Worlds, RemoveFinal(w) PROVE Quiet
  BY DEF DiskType, Quiet, NoNewManifest, RemoveFinal

LEMMA RemovePartIsQuiet == ASSUME DiskType, NEW w \in Worlds, RemovePart(w) PROVE Quiet
  BY DEF DiskType, Quiet, NoNewManifest, RemovePart

(***************************************************************************)
(* One operation of the commit.                                            *)
(***************************************************************************)
\* The commit of w goes on to o, or ends with it in the last reduction.
MovesTo(w, o) ==
  /\ o \in Ops \ {"none", "prepare"}
  /\ op' = [op EXCEPT ![w] = o]
  /\ UNCHANGED ranks \/ (o \in Ends /\ Enter(w, Primary, Signal(o)))
  /\ op[w] \in Linked => o \in Linked

Moves(w) == \E o \in Ops : MovesTo(w, o)

\* Every operation but one leaves the disk without a new manifest.
LEMMA OperationMoves ==
  ASSUME NEW w \in Worlds, DiskType,
         \/ PrepareManifest(w) \/ ClaimFinal(w) \/ ProbeExisting(w)
         \/ FenceExisting(w) \/ FenceExistingRoot(w)
         \/ MarkOwner(w) \/ FenceClaim(w) \/ FenceClaimRoot(w)
         \/ LinkPayload(w) \/ FencePayload(w)
         \/ SettleFinal(w) \/ SettleRoot(w) \/ Unclaim(w) \/ UnclaimRoot(w)
         \/ PublisherPanics(w)
  PROVE  Busy(w, Primary, "commit") /\ Moves(w) /\ Quiet
<1> USE DEF At, Goto, Return, Moves, MovesTo, Ops, Ends, Linked
<1>1. CASE PrepareManifest(w)
  BY <1>1, UnchangedIsQuiet DEF PrepareManifest
<1>2. CASE ClaimFinal(w)
  BY <1>2, UnchangedIsQuiet, NamedIsQuiet DEF ClaimFinal
<1>3. CASE ProbeExisting(w)
  BY <1>3, UnchangedIsQuiet DEF ProbeExisting
<1>4. CASE FenceExisting(w)
  <2>1. final \in Worlds \cup {0}
    BY DEF DiskType
  <2> QED BY <1>4, <2>1, UnchangedIsQuiet, SyncFinalIsQuiet DEF FenceExisting
<1>5. CASE FenceExistingRoot(w)
  BY <1>5, UnchangedIsQuiet, SyncRootIsQuiet DEF FenceExistingRoot
<1>6. CASE MarkOwner(w)
  <2>1. Owner \in Entries \ {Manifest}
    BY DEF Entries, Owner, Manifest
  <2> QED BY <1>6, <2>1, UnchangedIsQuiet, LinkIsQuiet DEF MarkOwner
<1>7. CASE FenceClaim(w)
  BY <1>7, UnchangedIsQuiet, SyncFinalIsQuiet DEF FenceClaim
<1>8. CASE FenceClaimRoot(w)
  BY <1>8, UnchangedIsQuiet, SyncRootIsQuiet DEF FenceClaimRoot
<1>9. CASE LinkPayload(w)
  <2>1. \A r \in Writers : r \in Entries \ {Manifest}
    BY DEF Writers, Entries
  <2> QED BY <1>9, <2>1, UnchangedIsQuiet, LinkIsQuiet DEF LinkPayload
<1>10. CASE FencePayload(w)
  BY <1>10, UnchangedIsQuiet, SyncFinalIsQuiet DEF FencePayload
<1>11. CASE SettleFinal(w)
  BY <1>11, UnchangedIsQuiet, SyncFinalIsQuiet DEF SettleFinal
<1>12. CASE SettleRoot(w)
  BY <1>12, UnchangedIsQuiet, SyncRootIsQuiet DEF SettleRoot
<1>13. CASE Unclaim(w)
  BY <1>13, RemoveFinalIsQuiet, RemovePartIsQuiet DEF Unclaim
<1>14. CASE UnclaimRoot(w)
  BY <1>14, UnchangedIsQuiet, SyncRootIsQuiet DEF UnclaimRoot
<1>15. CASE PublisherPanics(w)
  BY <1>15, UnchangedIsQuiet DEF PublisherPanics
<1> QED BY <1>1, <1>2, <1>3, <1>4, <1>5, <1>6, <1>7, <1>8, <1>9, <1>10, <1>11, <1>12,
           <1>13, <1>14, <1>15

\* The link of the manifest.
LEMMA LinkManifestMoves ==
  ASSUME NEW w \in Worlds, DiskType, LinkManifest(w)
  PROVE  /\ Busy(w, Primary, "commit") /\ Moves(w) /\ DiskType'
         /\ NoNewManifest \/ op' = [op EXCEPT ![w] = "settle"]
         /\ \A v \in Worlds \ {w} :
              Manifest \in files'[v] \cup synced'[v] => Manifest \in files[v] \cup synced[v]
<1> USE DEF At, Goto, Return, Moves, MovesTo, Ops, Ends, Linked
<1>1. ASSUME Link(w, Manifest) PROVE DiskType' /\ \A v \in Worlds \ {w} :
              Manifest \in files'[v] \cup synced'[v] => Manifest \in files[v] \cup synced[v]
  BY <1>1 DEF DiskType, Link, Entries
<1>2. UNCHANGED disk => Quiet
  BY UnchangedIsQuiet
<1> QED BY <1>1, <1>2 DEF LinkManifest, Quiet, NoNewManifest

RanksType ==
  /\ phase \in [Worlds -> [Ranks -> {"none", "claim", "shard", "abort", "commit"}]]
  /\ entered \in [Worlds -> SUBSET Ranks]
  /\ signal \in [Worlds -> [Ranks -> 0..2]]
  /\ comm \in [Worlds -> {"live", "dead"}]
  /\ verdict \in [Worlds -> [Ranks -> {"none", "published", "ambiguous", "rewound", "killed"}]]
  /\ op \in [Worlds -> Ops]

CollectType ==
  /\ bytes \in [Worlds -> Worlds \cup {0}]
  /\ shards \in [Worlds -> SUBSET Ranks]

LEMMA TypeParts == TypeOK <=> RanksType /\ CollectType /\ DiskType
  BY Zenon DEF TypeOK, RanksType, CollectType, DiskType

LEMMA MoveKeepsProtocol ==
  ASSUME RanksType, Protocol, NEW w \in Worlds, Busy(w, Primary, "commit"), Moves(w)
  PROVE  RanksType' /\ Protocol'
<1>1. PICK o \in Ops : MovesTo(w, o)
  BY DEF Moves
<1>2. /\ phase' = phase /\ comm' = comm /\ verdict' = verdict
      /\ o \notin {"none", "prepare"} /\ op' = [op EXCEPT ![w] = o]
  BY <1>1 DEF MovesTo, Enter, ranks
<1>3. /\ \A r \in Ranks : phase[w][r] = "commit"
      /\ Primary \notin entered[w] /\ verdict[w][Primary] = "none"
  BY DEF Busy, Over, Protocol, SamePhase
<1>4. CASE UNCHANGED ranks
  <2>1. entered' = entered /\ signal' = signal
    BY <1>4 DEF ranks
  <2>2. RanksType'
    BY <1>2, <2>1 DEF RanksType
  <2>3. SamePhase' /\ NotLaunched' /\ WaitersRun' /\ CommitsLast'
    BY <1>2, <1>3, <2>1 DEF Protocol, SamePhase, NotLaunched, WaitersRun, CommitsLast, RanksType
  <2>4. Signals'
    <3> SUFFICES ASSUME NEW v \in Worlds, NEW r \in entered[v], phase[v][r] = "commit"
                 PROVE  IF r = Primary THEN op'[v] \in Ends /\ signal[v][r] = Signal(op'[v])
                                       ELSE signal[v][r] = 0
      BY <1>2, <2>1 DEF Signals, Signal
    <3>1. v = w => r # Primary
      BY <1>3
    <3> QED BY <3>1, <1>2 DEF Protocol, Signals, RanksType
  <2>5. RewindTogether'
    BY <1>2, <1>3, <2>1 DEF Protocol, RewindTogether, RanksType
  <2> QED BY <2>2, <2>3, <2>4, <2>5 DEF Protocol
<1>5. CASE o \in Ends /\ Enter(w, Primary, Signal(o))
  <2>1. /\ entered' = [entered EXCEPT ![w] = @ \cup {Primary}]
        /\ signal' = [signal EXCEPT ![w][Primary] = Signal(o)]
    BY <1>5 DEF Enter
  <2>2. Signal(o) \in 0..2
    BY <1>5 DEF Signal, Ends
  <2>3. RanksType'
    BY <1>2, <2>1, <2>2 DEF RanksType
  <2>4. SamePhase' /\ NotLaunched' /\ WaitersRun' /\ CommitsLast'
    BY <1>2, <1>3, <2>1 DEF Protocol, SamePhase, NotLaunched, WaitersRun, CommitsLast, RanksType
  <2>5. Signals'
    <3> SUFFICES ASSUME NEW v \in Worlds, NEW r \in entered'[v], phase'[v][r] = "commit"
                 PROVE  IF r = Primary THEN op'[v] \in Ends /\ signal'[v][r] = Signal(op'[v])
                                       ELSE signal'[v][r] = 0
      BY DEF Signals, Signal
    <3>1. CASE v = w /\ r = Primary
      BY <3>1, <1>2, <1>5, <2>1 DEF RanksType
    <3>2. CASE v # w \/ r # Primary
      BY <3>2, <1>2, <1>3, <2>1 DEF Protocol, Signals, RanksType
    <3> QED BY <3>1, <3>2
  <2>6. RewindTogether'
    BY <1>2, <1>3, <2>1 DEF Protocol, RewindTogether, RanksType
  <2> QED BY <2>3, <2>4, <2>5, <2>6 DEF Protocol
<1> QED BY <1>1, <1>4, <1>5 DEF MovesTo

LEMMA CommitStepKeepsIInv == ASSUME IInv, NEW w \in Worlds, CommitStep(w) PROVE IInv'
<1>1. RanksType /\ CollectType /\ DiskType /\ Protocol /\ OwnManifest
  BY TypeParts DEF IInv
<1>2. CollectType'
  BY <1>1 DEF CommitStep, CollectType
<1>3. CASE LinkManifest(w)
  <2>1. Busy(w, Primary, "commit") /\ Moves(w) /\ DiskType'
    BY <1>1, <1>3, LinkManifestMoves
  <2>2. RanksType' /\ Protocol'
    BY <1>1, <2>1, MoveKeepsProtocol
  <2>3. PICK o \in Ops : MovesTo(w, o)
    BY <2>1 DEF Moves
  <2>4. OwnManifest'
    BY <1>1, <1>3, <2>3, LinkManifestMoves
    DEF OwnManifest, MovesTo, NoNewManifest, RanksType, Linked
  <2> QED BY <1>2, <2>1, <2>2, <2>4, TypeParts DEF IInv, TypeOK, RanksType, CollectType, DiskType
<1>4. CASE ~LinkManifest(w)
  <2>1. Busy(w, Primary, "commit") /\ Moves(w) /\ Quiet
    BY <1>1, <1>4, OperationMoves DEF CommitStep
  <2>2. RanksType' /\ Protocol'
    BY <1>1, <2>1, MoveKeepsProtocol
  <2>3. PICK o \in Ops : MovesTo(w, o)
    BY <2>1 DEF Moves
  <2>4. OwnManifest'
    BY <1>1, <2>1, <2>3 DEF OwnManifest, MovesTo, Quiet, NoNewManifest, RanksType
  <2> QED BY <1>2, <2>1, <2>2, <2>4, Zenon DEF IInv, TypeOK, RanksType, CollectType, DiskType, Quiet
<1> QED BY <1>3, <1>4

(***************************************************************************)
(* The ranks outside of the commit.                                        *)
(***************************************************************************)
\* A rank enters the reduction of a phase, with a value of 0 in the last one.
LEMMA EnterKeepsProtocol ==
  ASSUME RanksType, Protocol, NEW w \in Worlds, NEW r \in Ranks, NEW p, NEW s \in 0..2,
         Busy(w, r, p), p # "none", Enter(w, r, s), op' = op,
         p = "commit" => r # Primary /\ s = 0
  PROVE  RanksType' /\ Protocol'
<1>1. /\ phase' = phase /\ comm' = comm /\ verdict' = verdict
      /\ entered' = [entered EXCEPT ![w] = @ \cup {r}]
      /\ signal' = [signal EXCEPT ![w][r] = s]
      /\ phase[w][r] = p /\ verdict[w][r] = "none"
  BY DEF Enter, Busy, Over
<1>2. RanksType'
  BY <1>1 DEF RanksType
<1>3. SamePhase' /\ NotLaunched' /\ WaitersRun' /\ CommitsLast' /\ RewindTogether'
  BY <1>1 DEF Protocol, SamePhase, NotLaunched, WaitersRun, CommitsLast, RewindTogether, RanksType
<1>4. Signals'
  <2> SUFFICES ASSUME NEW v \in Worlds, NEW q \in entered'[v], phase[v][q] = "commit"
               PROVE  IF q = Primary THEN op[v] \in Ends /\ signal'[v][q] = Signal(op[v])
                                     ELSE signal'[v][q] = 0
    BY <1>1 DEF Signals, Signal
  <2>1. CASE v = w /\ q = r
    BY <2>1, <1>1 DEF RanksType
  <2>2. CASE v # w \/ q # r
    BY <2>2, <1>1 DEF Protocol, Signals, RanksType
  <2> QED BY <2>1, <2>2
<1> QED BY <1>2, <1>3, <1>4 DEF Protocol

LEMMA UnchangedDiskKeeps ==
  ASSUME DiskType, OwnManifest, UNCHANGED disk, op' = op
  PROVE  DiskType' /\ OwnManifest'
  BY DEF DiskType, OwnManifest, disk

LEMMA EnteringKeepsIInv ==
  ASSUME IInv, NEW w \in Worlds, NEW r \in Ranks,
         ClaimStage(w, r) \/ WriteShard(w, r) \/ AbortStage(w, r) \/ AwaitCommit(w, r)
  PROVE  IInv'
<1>1. RanksType /\ CollectType /\ DiskType /\ Protocol /\ OwnManifest
  BY TypeParts DEF IInv
<1>2. /\ op' = op /\ UNCHANGED disk
      /\ \E p \in {"claim", "shard", "abort", "commit"}, s \in 0..2 :
           /\ Busy(w, r, p) /\ Enter(w, r, s)
           /\ p = "commit" => r # Primary /\ s = 0
  BY DEF ClaimStage, WriteShard, AbortStage, AwaitCommit
<1>3. RanksType' /\ Protocol'
  BY <1>1, <1>2, EnterKeepsProtocol
<1>4. CollectType'
  BY <1>1 DEF CollectType, ClaimStage, WriteShard, AbortStage, AwaitCommit
<1>5. DiskType' /\ OwnManifest'
  BY <1>1, <1>2, UnchangedDiskKeeps
<1> QED BY <1>3, <1>4, <1>5, Zenon DEF IInv, TypeOK, RanksType, CollectType, DiskType

LEMMA LaunchKeepsIInv == ASSUME IInv, NEW w \in Worlds, Launch(w) PROVE IInv'
<1>1. RanksType /\ CollectType /\ DiskType /\ Protocol /\ OwnManifest
  BY TypeParts DEF IInv
<1>2. /\ op[w] = "none" /\ op' = [op EXCEPT ![w] = "prepare"]
      /\ phase' = [phase EXCEPT ![w] = [r \in Ranks |-> FirstPhase]]
      /\ entered' = entered /\ signal' = signal /\ comm' = comm /\ verdict' = verdict
  BY DEF Launch
<1>3. entered[w] = {} /\ \A r \in Ranks : verdict[w][r] = "none"
  BY <1>1, <1>2 DEF Protocol, NotLaunched
<1>4. FirstPhase \in {"claim", "commit"}
  BY DEF FirstPhase
<1>5. RanksType'
  BY <1>1, <1>2, <1>4 DEF RanksType, Ops
<1>6. CollectType'
  <2>1. \A b \in {w} \cup {bytes[v] : v \in 1..(w - 1)} : b \in Worlds \cup {0}
    BY <1>1 DEF CollectType
  <2> QED BY <1>1, <2>1 DEF CollectType, Launch
<1>7. SamePhase' /\ NotLaunched' /\ WaitersRun' /\ CommitsLast' /\ RewindTogether'
  BY <1>1, <1>2, <1>3, <1>4
  DEF Protocol, SamePhase, NotLaunched, WaitersRun, CommitsLast, RewindTogether, RanksType
<1>8. Signals'
  <2> SUFFICES ASSUME NEW v \in Worlds, NEW q \in entered[v], phase'[v][q] = "commit"
               PROVE  IF q = Primary THEN op'[v] \in Ends /\ signal[v][q] = Signal(op'[v])
                                     ELSE signal[v][q] = 0
    BY <1>2 DEF Signals, Signal
  <2>1. v # w
    BY <1>3
  <2> QED BY <2>1, <1>1, <1>2 DEF Protocol, Signals, RanksType
<1>9. DiskType'
  BY <1>1 DEF Launch, disk, DiskType
<1>10. OwnManifest'
  BY <1>1, <1>2 DEF Launch, disk, OwnManifest, RanksType, Linked
<1> QED BY <1>5, <1>6, <1>7, <1>8, <1>9, <1>10, Zenon
        DEF IInv, Protocol, TypeOK, RanksType, CollectType, DiskType

(***************************************************************************)
(* The reductions.                                                         *)
(***************************************************************************)
\* What the publication signal comes to is what rank 0 gave.
LEMMA TotalIsRankZeros ==
  ASSUME NEW w \in Worlds, RanksType, Signals, entered[w] = Ranks,
         \A r \in Ranks : phase[w][r] = "commit"
  PROVE  op[w] \in Ends /\ Total(w) = Signal(op[w])
<1>1. op[w] \in Ends /\ signal[w][Primary] = Signal(op[w])
  BY DEF Signals
<1>2. \A r \in Ranks : r # Primary => signal[w][r] = 0
  BY DEF Signals
<1>3. signal[w][Primary] \in 0..2
  BY DEF RanksType
<1>4. \A x \in {signal[w][r] : r \in Ranks} : signal[w][Primary] >= x
  BY <1>2, <1>3
<1>5. \A x \in {signal[w][r] : r \in Ranks} :
        (\A y \in {signal[w][r] : r \in Ranks} : x >= y) => x = signal[w][Primary]
  BY <1>2, <1>3
<1>6. signal[w][Primary] \in {signal[w][r] : r \in Ranks}
  OBVIOUS
<1>7. Total(w) = signal[w][Primary]
  BY <1>4, <1>5, <1>6 DEF Total, Max
<1> QED BY <1>1, <1>7

LEMMA ReduceKeepsIInv == ASSUME IInv, NEW w \in Worlds, Reduce(w) PROVE IInv'
<1>1. RanksType /\ CollectType /\ DiskType /\ Protocol /\ OwnManifest
  BY TypeParts DEF IInv
<1>2. /\ entered[w] = Ranks
      /\ phase' = [phase EXCEPT ![w] = [r \in Ranks |-> NextPhase(@[r], Total(w))]]
      /\ verdict' = [verdict EXCEPT ![w] = [r \in Ranks |-> Outcome(phase[w][r], Total(w))]]
      /\ entered' = [entered EXCEPT ![w] = {}]
      /\ signal' = [signal EXCEPT ![w] = [r \in Ranks |-> 0]]
      /\ comm' = comm /\ op' = op /\ bytes' = bytes /\ shards' = shards /\ UNCHANGED disk
  BY DEF Reduce
<1>3. \A r \in Ranks : phase[w][r] = phase[w][Primary]
  BY <1>1 DEF Protocol, SamePhase
<1> DEFINE p == phase[w][Primary]
           next == NextPhase(p, Total(w))
           out == Outcome(p, Total(w))
<1>4. /\ \A r \in Ranks : phase'[w][r] = next /\ verdict'[w][r] = out
      /\ \A v \in Worlds \ {w} : phase'[v] = phase[v] /\ verdict'[v] = verdict[v]
  BY <1>1, <1>2, <1>3 DEF RanksType
<1>5. p \in {"none", "claim", "shard", "abort", "commit"}
  BY <1>1 DEF RanksType
<1>6. /\ next \in {"none", "claim", "shard", "abort", "commit"}
      /\ out \in {"none", "published", "ambiguous", "rewound"}
      /\ p = "commit" => next = "commit"
      /\ out \in {"published", "ambiguous"} => p = "commit"
      /\ out = "rewound" /\ next = "commit" => p = "commit" /\ Total(w) = 1
  BY <1>5 DEF NextPhase, Outcome
<1>7. op[w] # "none" /\ (p # "commit" => op[w] = "prepare")
  BY <1>1, <1>2, <1>5 DEF Protocol, NotLaunched, CommitsLast
<1>8. out = "rewound" /\ next = "commit" => op[w] = "failed"
  <2> SUFFICES ASSUME p = "commit", Total(w) = 1 PROVE op[w] = "failed"
    BY <1>6
  <2>1. op[w] \in Ends /\ Total(w) = Signal(op[w])
    BY <1>1, <1>2, <1>3, TotalIsRankZeros DEF Protocol
  <2> QED BY <2>1 DEF Signal, Ends
<1> HIDE DEF p, next, out
<1>9. RanksType'
  <2>1. /\ phase'[w] = [r \in Ranks |-> next]
        /\ verdict'[w] = [r \in Ranks |-> out]
    <3>1. /\ phase'[w] = [r \in Ranks |-> NextPhase(phase[w][r], Total(w))]
          /\ verdict'[w] = [r \in Ranks |-> Outcome(phase[w][r], Total(w))]
      BY <1>1, <1>2 DEF RanksType
    <3> QED BY <3>1, <1>3 DEF p, next, out
  <2> QED BY <2>1, <1>1, <1>2, <1>6 DEF RanksType
<1>10. SamePhase' /\ WaitersRun'
  BY <1>1, <1>2, <1>4 DEF Protocol, SamePhase, WaitersRun, RanksType
<1>11. NotLaunched' /\ CommitsLast'
  BY <1>1, <1>2, <1>4, <1>6, <1>7 DEF Protocol, NotLaunched, CommitsLast, RanksType
<1>12. Signals'
  <2> SUFFICES ASSUME NEW v \in Worlds, NEW q \in entered'[v], phase'[v][q] = "commit"
               PROVE  IF q = Primary THEN op[v] \in Ends /\ signal'[v][q] = Signal(op[v])
                                     ELSE signal'[v][q] = 0
    BY <1>2 DEF Signals, Signal
  <2>1. v # w
    BY <1>1, <1>2 DEF RanksType
  <2> QED BY <2>1, <1>1, <1>2, <1>4 DEF Protocol, Signals, RanksType
<1>13. RewindTogether'
  BY <1>1, <1>2, <1>4, <1>8 DEF Protocol, RewindTogether
<1>14. DiskType' /\ OwnManifest' /\ CollectType'
  BY <1>1, <1>2, UnchangedDiskKeeps DEF CollectType
<1> QED BY <1>9, <1>10, <1>11, <1>12, <1>13, <1>14, Zenon
        DEF IInv, Protocol, TypeOK, RanksType, CollectType, DiskType

LEMMA CommDiesKeepsIInv == ASSUME IInv, NEW w \in Worlds, CommDies(w) PROVE IInv'
<1>1. RanksType /\ CollectType /\ DiskType /\ Protocol /\ OwnManifest
  BY TypeParts DEF IInv
<1>2. /\ phase' = phase /\ entered' = entered /\ signal' = signal /\ verdict' = verdict
      /\ op' = op /\ bytes' = bytes /\ shards' = shards /\ UNCHANGED disk
      /\ comm' = [comm EXCEPT ![w] = "dead"]
  BY DEF CommDies
<1>3. RanksType' /\ CollectType'
  BY <1>1, <1>2 DEF RanksType, CollectType
<1>4. Protocol'
  <2>1. SamePhase' /\ NotLaunched' /\ WaitersRun' /\ CommitsLast' /\ RewindTogether'
    BY <1>1, <1>2
    DEF Protocol, SamePhase, NotLaunched, WaitersRun, CommitsLast, RewindTogether
  <2>2. Signals'
    BY <1>1, <1>2 DEF Protocol, Signals, Signal
  <2> QED BY <2>1, <2>2 DEF Protocol
<1>5. DiskType' /\ OwnManifest'
  BY <1>1, <1>2, UnchangedDiskKeeps
<1> QED BY <1>3, <1>4, <1>5, Zenon DEF IInv, TypeOK, RanksType, CollectType, DiskType

LEMMA CommErrorKeepsIInv ==
  ASSUME IInv, NEW w \in Worlds, NEW r \in Ranks, CommError(w, r) PROVE IInv'
<1>1. RanksType /\ CollectType /\ DiskType /\ Protocol /\ OwnManifest
  BY TypeParts DEF IInv
<1>2. /\ r \in entered[w] /\ verdict' = [verdict EXCEPT ![w][r] = AfterComm(w, r)]
      /\ entered' = [entered EXCEPT ![w] = @ \ {r}]
      /\ phase' = phase /\ signal' = signal /\ comm' = comm
      /\ op' = op /\ bytes' = bytes /\ shards' = shards /\ UNCHANGED disk
  BY DEF CommError
<1>3. verdict[w][r] = "none" /\ op[w] # "none"
  BY <1>1, <1>2 DEF Protocol, WaitersRun, NotLaunched
<1>4. /\ phase[w][r] = "commit" => AfterComm(w, r) = "ambiguous"
      /\ phase[w][r] # "commit" => AfterComm(w, r) = "rewound"
  BY DEF AfterComm
<1>5. RanksType' /\ CollectType'
  BY <1>1, <1>2, <1>4 DEF RanksType, CollectType
<1>6. SamePhase' /\ NotLaunched' /\ WaitersRun' /\ CommitsLast'
  BY <1>1, <1>2, <1>3, <1>4
  DEF Protocol, SamePhase, NotLaunched, WaitersRun, CommitsLast, RanksType
<1>7. Signals'
  BY <1>1, <1>2 DEF Protocol, Signals, RanksType, Signal
<1>8. RewindTogether'
  <2>1. ASSUME NEW v \in Worlds, NEW q \in Ranks, phase[v][q] = "commit",
               verdict'[v][q] = "rewound"
        PROVE  op[v] = "failed" /\ \A s \in Ranks : verdict'[v][s] = "rewound"
    <3>1. ~(v = w /\ q = r)
      BY <2>1, <1>1, <1>2, <1>4 DEF RanksType
    <3>2. verdict[v][q] = "rewound"
      BY <2>1, <3>1, <1>1, <1>2 DEF RanksType
    <3>3. op[v] = "failed" /\ \A s \in Ranks : verdict[v][s] = "rewound"
      BY <2>1, <3>2, <1>1 DEF Protocol, RewindTogether
    <3>4. v # w
      BY <3>3, <1>3
    <3> QED BY <3>3, <3>4, <1>1, <1>2 DEF RanksType
  <2> QED BY <2>1, <1>2 DEF RewindTogether
<1>9. DiskType' /\ OwnManifest'
  BY <1>1, <1>2, UnchangedDiskKeeps
<1> QED BY <1>5, <1>6, <1>7, <1>8, <1>9, Zenon
        DEF IInv, Protocol, TypeOK, RanksType, CollectType, DiskType

(***************************************************************************)
(* Crashes.                                                                *)
(***************************************************************************)
\* Ranks that have not returned are killed, and leave what they waited in.
LEMMA KillingKeepsProtocol ==
  ASSUME RanksType, Protocol, op' = op, phase' = phase, comm' = comm,
         RanksType',
         \A w \in Worlds : entered'[w] \subseteq entered[w],
         \A w \in Worlds, r \in Ranks :
           \/ verdict'[w][r] = verdict[w][r]
           \/ verdict'[w][r] = "killed" /\ verdict[w][r] = "none" /\ r \notin entered'[w]
              /\ phase[w][r] # "none",
         \A w \in Worlds : \A r \in entered'[w] : signal'[w][r] = signal[w][r]
  PROVE  Protocol'
<1>1. SamePhase'
  BY DEF Protocol, SamePhase
<1>2. NotLaunched'
  BY DEF Protocol, NotLaunched
<1>3. WaitersRun'
  BY DEF Protocol, WaitersRun, RanksType
<1>4. CommitsLast'
  BY DEF Protocol, CommitsLast
<1>5. Signals'
  <2>1. ASSUME NEW w \in Worlds, NEW r \in entered'[w], phase'[w][r] = "commit"
        PROVE  (IF r = Primary THEN op[w] \in Ends /\ signal[w][r] = Signal(op[w])
                               ELSE signal[w][r] = 0)'
    <3>1. r \in entered[w] /\ signal'[w][r] = signal[w][r] /\ phase[w][r] = "commit"
      BY <2>1
    <3>2. IF r = Primary THEN op[w] \in Ends /\ signal[w][r] = Signal(op[w])
                         ELSE signal[w][r] = 0
      BY <3>1 DEF Protocol, Signals
    <3> QED BY <3>1, <3>2 DEF Signal
  <2> QED BY <2>1, Zenon DEF Signals
<1>6. RewindTogether'
  BY DEF Protocol, RewindTogether
<1> QED BY <1>1, <1>2, <1>3, <1>4, <1>5, <1>6 DEF Protocol

LEMMA KillKeepsIInv == ASSUME IInv, NEW w \in Worlds, NEW r \in Ranks, Kill(w, r) PROVE IInv'
<1>1. RanksType /\ CollectType /\ DiskType /\ Protocol /\ OwnManifest
  BY TypeParts DEF IInv
<1>2. /\ phase[w][r] # "none" /\ verdict[w][r] = "none"
      /\ verdict' = [verdict EXCEPT ![w][r] = "killed"]
      /\ entered' = [entered EXCEPT ![w] = @ \ {r}]
      /\ signal' = [signal EXCEPT ![w][r] = 0]
      /\ phase' = phase /\ comm' = comm /\ op' = op /\ bytes' = bytes /\ shards' = shards
      /\ UNCHANGED disk \/ RemovePart(w)
  BY DEF Kill, Running, Over
<1>3. RanksType' /\ CollectType'
  BY <1>1, <1>2 DEF RanksType, CollectType
<1>4. Protocol'
  <2>1. \A v \in Worlds : entered'[v] \subseteq entered[v]
    BY <1>1, <1>2 DEF RanksType
  <2>2. \A v \in Worlds, s \in Ranks :
          \/ verdict'[v][s] = verdict[v][s]
          \/ verdict'[v][s] = "killed" /\ verdict[v][s] = "none" /\ s \notin entered'[v]
             /\ phase[v][s] # "none"
    BY <1>1, <1>2 DEF RanksType
  <2>3. \A v \in Worlds : \A s \in entered'[v] : signal'[v][s] = signal[v][s]
    BY <1>1, <1>2 DEF RanksType
  <2> QED BY <1>1, <1>2, <1>3, <2>1, <2>2, <2>3, KillingKeepsProtocol
<1>5. DiskType' /\ OwnManifest'
  <2>1. Quiet
    BY <1>1, <1>2, UnchangedIsQuiet, RemovePartIsQuiet
  <2> QED BY <1>1, <1>2, <2>1 DEF Quiet, NoNewManifest, OwnManifest
<1> QED BY <1>3, <1>4, <1>5, Zenon DEF IInv, TypeOK, RanksType, CollectType, DiskType

LEMMA PowerFailureKeepsIInv == ASSUME IInv, PowerFailure PROVE IInv'
<1>1. RanksType /\ CollectType /\ DiskType /\ Protocol /\ OwnManifest
  BY TypeParts DEF IInv
<1>2. /\ verdict' = [w \in Worlds |-> [r \in Ranks |->
                       IF Running(w, r) THEN "killed" ELSE verdict[w][r]]]
      /\ entered' = [w \in Worlds |-> {}]
      /\ signal' = [w \in Worlds |-> [r \in Ranks |-> 0]]
      /\ phase' = phase /\ comm' = comm /\ op' = op /\ bytes' = bytes /\ shards' = shards
  BY DEF PowerFailure
<1>3. RanksType' /\ CollectType'
  BY <1>1, <1>2 DEF RanksType, CollectType
<1>4. Protocol'
  <2>1. \A v \in Worlds : entered'[v] = {}
    BY <1>2
  <2>2. \A v \in Worlds, s \in Ranks :
          \/ verdict'[v][s] = verdict[v][s]
          \/ verdict'[v][s] = "killed" /\ verdict[v][s] = "none" /\ s \notin entered'[v]
             /\ phase[v][s] # "none"
    BY <1>2 DEF Running, Over
  <2> QED BY <1>1, <1>2, <1>3, <2>1, <2>2, KillingKeepsProtocol
<1>5. PICK F \in IF final' = 0 THEN {{}} ELSE Survivors(final') :
        files' = [w \in Worlds |-> IF w = final' THEN F ELSE {}]
  BY DEF PowerFailure
<1>6. final' \in onDisk /\ onDisk' = {final'} /\ synced' = files'
  BY DEF PowerFailure
<1>7. \A w \in Worlds : w = final' => F \subseteq files[w] \cup synced[w]
  BY <1>5 DEF Survivors
<1>8. DiskType'
  BY <1>1, <1>5, <1>6, <1>7 DEF DiskType
<1>9. OwnManifest'
  BY <1>1, <1>2, <1>5, <1>6, <1>7 DEF OwnManifest
<1> QED BY <1>3, <1>4, <1>8, <1>9, Zenon DEF IInv, TypeOK, RanksType, CollectType, DiskType

LEMMA StutterKeepsIInv == ASSUME IInv, UNCHANGED vars PROVE IInv'
<1>1. TypeOK'
  BY DEF IInv, TypeOK, vars, ranks, disk
<1>2. SamePhase' /\ NotLaunched' /\ WaitersRun' /\ CommitsLast' /\ RewindTogether'
  BY DEF IInv, Protocol, vars, ranks, disk,
         SamePhase, NotLaunched, WaitersRun, CommitsLast, RewindTogether
<1>3. Signals'
  BY DEF IInv, Protocol, vars, ranks, disk, Signals, Signal
<1>4. OwnManifest'
  BY DEF IInv, OwnManifest, vars, disk
<1> QED BY <1>1, <1>2, <1>3, <1>4 DEF IInv, Protocol

(***************************************************************************)
(* The theorems.                                                           *)
(***************************************************************************)
LEMMA NextKeepsIInv == ASSUME IInv, [Next]_vars PROVE IInv'
<1>1. ASSUME NEW w \in Worlds, Launch(w) PROVE IInv'
  BY <1>1, LaunchKeepsIInv
<1>2. ASSUME NEW w \in Worlds, CommitStep(w) PROVE IInv'
  BY <1>2, CommitStepKeepsIInv
<1>3. ASSUME NEW w \in Worlds, Reduce(w) PROVE IInv'
  BY <1>3, ReduceKeepsIInv
<1>4. ASSUME NEW w \in Worlds, CommFails(w) \/ Deadline(w) PROVE IInv'
  BY <1>4, CommDiesKeepsIInv DEF CommFails, Deadline
<1>5. ASSUME NEW w \in Worlds, NEW r \in Ranks, RankStep(w, r) PROVE IInv'
  BY <1>5, EnteringKeepsIInv, CommErrorKeepsIInv DEF RankStep
<1>6. ASSUME NEW w \in Worlds, NEW r \in Ranks, Kill(w, r) PROVE IInv'
  BY <1>6, KillKeepsIInv
<1>7. CASE PowerFailure
  BY <1>7, PowerFailureKeepsIInv
<1>8. CASE Finished \/ UNCHANGED vars
  BY <1>8, StutterKeepsIInv DEF Finished
<1> QED BY <1>1, <1>2, <1>3, <1>4, <1>5, <1>6, <1>7, <1>8, Zenon DEF Next, Progress

\* The inductive invariant: the type of the state, the protocol of the ranks,
\* and who may have linked a manifest.
THEOREM Invariance == Spec => []IInv
<1>1. Init => IInv
  BY InitIInv
<1>2. IInv /\ [Next]_vars => IInv'
  BY NextKeepsIInv
<1> QED BY <1>1, <1>2, PTL DEF Spec

\* The state stays in its type, for every number of ranks and worlds.
THEOREM TypeCorrect == Spec => []TypeOK
<1>1. IInv => TypeOK
  BY DEF IInv
<1> QED BY <1>1, Invariance, PTL

\* No rank of a world keeps its samplers while another takes them back,
\* whichever of them fails, dies or loses the communicator.
THEOREM RanksStayTogether == Spec => []RanksKeepTogether
<1>1. IInv => RanksKeepTogether
  <2> SUFFICES ASSUME IInv, NEW w \in Worlds, NEW r \in Ranks, NEW s \in Ranks,
                      verdict[w][r] = "rewound", verdict[w][s] \in {"published", "ambiguous"}
               PROVE  FALSE
    BY DEF RanksKeepTogether
  <2>1. phase[w][s] = "commit" /\ phase[w][r] = phase[w][s]
    BY DEF IInv, Protocol, CommitsLast, SamePhase
  <2> QED BY <2>1 DEF IInv, Protocol, RewindTogether
<1> QED BY <1>1, Invariance, PTL

\* "Once a manifest may be visible, it never rewinds the sampler": a rank that
\* rewinds belongs to a world that has linked no manifest, and never will.
THEOREM NeverRewindsAPublishedWindow == Spec => []RewindsOnlyUnpublished
<1>1. IInv => RewindsOnlyUnpublished
  <2> SUFFICES ASSUME IInv, NEW w \in Worlds, NEW r \in Ranks, verdict[w][r] = "rewound"
               PROVE  Manifest \notin files[w] \cup synced[w]
    BY DEF RewindsOnlyUnpublished
  <2>1. op[w] \in {"none", "prepare", "failed"}
    BY DEF IInv, Protocol, CommitsLast, RewindTogether
  <2> QED BY <2>1 DEF IInv, OwnManifest, Linked
<1> QED BY <1>1, Invariance, PTL



(***************************************************************************)
(* What is on the disk, and what of it is durable.                         *)
(***************************************************************************)
\* A manifest is linked after its payload was synced, and never taken back.
PayloadFirst ==
  \A v \in Worlds : Manifest \in files[v] \cup synced[v] =>
    Manifest \in files[v] /\ Writers \subseteq files[v] \cap synced[v]

\* Only the directory in place may hold a manifest.
ManifestNamed == \A v \in Worlds : Manifest \in files[v] \cup synced[v] => final = v

Claims == {"mark", "fenceclaim", "fenceclaimroot", "link", "fencepayload", "manifest",
           "settle", "settleroot", "resettle", "resettleroot", "unclaim"}

\* What the commit of w may rely on before its next operation.
Standing(w) ==
  Busy(w, Primary, "commit") =>
    /\ op[w] \notin Ends
    /\ op[w] \in Claims => final = w
    /\ op[w] \in {"fencepayload", "manifest"} => Writers \subseteq files[w]
    /\ op[w] = "manifest" => Writers \subseteq synced[w]
    /\ op[w] \in {"settle", "settleroot", "resettle", "resettleroot"} => Manifest \in files[w]
    /\ op[w] \in {"settleroot", "resettleroot"} => Manifest \in synced[w]
    /\ op[w] \in {"fence", "fenceroot"} => MarkerIs(bytes[w])
    /\ op[w] = "fenceroot" => Manifest \in synced[final]

\* What success means: SuccessIsDurable for one world.
Durable(w) ==
  /\ Exact(bytes[w])
  /\ onDisk = {final} /\ Writers \cup {Manifest} \subseteq synced[final]

\* Worlds start in order, each with a window of some bytes.
Collected ==
  \A w \in Worlds : op[w] # "none" => bytes[w] # 0 /\ \A v \in 1..w : op[v] # "none"

DiskInv == PayloadFirst /\ ManifestNamed
DInv ==
  /\ DiskInv /\ \A w \in Worlds : Standing(w)
  /\ \A w \in Worlds : op[w] = "ok" => Durable(w)

\* What an operation of the commit of w does to the disk.
Alters(w) ==
  \/ UNCHANGED disk
  \/ final = 0 /\ Named(w)
  \/ final = w /\ \E f \in Entries \ {Manifest} : Link(w, f)
  \/ final = w /\ Writers \subseteq files[w] \cap synced[w] /\ Link(w, Manifest)
  \/ SyncFinal(final)
  \/ SyncRoot
  \/ final = w /\ Manifest \notin files[w] \cup synced[w] /\ (RemoveFinal(w) \/ RemovePart(w))

\* What no operation of w does to the others, or to a window that is visible.
LeavesOthers(w) ==
  \A v \in Worlds \ {w} :
    /\ files'[v] = files[v] /\ synced'[v] \in {synced[v], files[v]}
    /\ final = v => final' = v
LeavesVisible ==
  Visible => /\ final' = final /\ onDisk' \subseteq onDisk
             /\ files[final] \subseteq files'[final]
             /\ synced'[final] \in {synced[final], files[final]}

LEMMA AltersLittle ==
  ASSUME DiskType, DiskInv, scheme' = scheme, NEW w \in Worlds, Alters(w)
  PROVE  DiskInv' /\ LeavesOthers(w) /\ LeavesVisible
<1> USE DEF DiskType, DiskInv, PayloadFirst, ManifestNamed, LeavesOthers, LeavesVisible,
           Visible, Writers
<1>1. CASE UNCHANGED disk
  BY <1>1 DEF disk
<1>2. CASE final = 0 /\ Named(w)
  <2>1. /\ files' = files /\ synced' = synced
        /\ \A v \in Worlds : Manifest \notin files[v] \cup synced[v]
    BY <1>2 DEF Named
  <2> QED BY <1>2, <2>1
<1>3. CASE final = w /\ \E f \in Entries \ {Manifest} : Link(w, f)
  BY <1>3 DEF Link
<1>4. CASE final = w /\ Writers \subseteq files[w] \cap synced[w] /\ Link(w, Manifest)
  BY <1>4 DEF Link
<1>5. CASE SyncFinal(final)
  BY <1>5 DEF SyncFinal
<1>6. CASE SyncRoot
  BY <1>6 DEF SyncRoot
<1>7. CASE final = w /\ Manifest \notin files[w] \cup synced[w] /\ RemoveFinal(w)
  BY <1>7 DEF RemoveFinal
<1>8. CASE final = w /\ Manifest \notin files[w] \cup synced[w] /\ RemovePart(w)
  BY <1>8 DEF RemovePart
<1> QED BY <1>1, <1>2, <1>3, <1>4, <1>5, <1>6, <1>7, <1>8 DEF Alters

\* The others stand where they stood.
LEMMA OthersStand ==
  ASSUME DiskType, DiskInv, scheme' = scheme, bytes' = bytes,
         NEW w \in Worlds, LeavesOthers(w), LeavesVisible,
         NEW v \in Worlds \ {w}, Standing(v), op'[v] = op[v],
         Busy(v, Primary, "commit")' => Busy(v, Primary, "commit")
  PROVE  Standing(v)'
<1>1. CASE ~Busy(v, Primary, "commit")'
  BY <1>1 DEF Standing
<1>2. CASE Busy(v, Primary, "commit")
  <2>1. /\ files'[v] = files[v] /\ synced'[v] \in {synced[v], files[v]}
        /\ final = v => final' = v
    BY DEF LeavesOthers
  <2>2. op[v] \in {"fence", "fenceroot"} => MarkerIs(bytes[v])'
    BY <1>2 DEF Standing, LeavesVisible, MarkerIs, Visible
  <2>3. op[v] = "fenceroot" => Manifest \in synced'[final']
    BY <1>2 DEF Standing, LeavesVisible, MarkerIs, Visible
  <2>4. Writers' = Writers
    BY DEF Writers
  <2> QED BY <1>2, <2>1, <2>2, <2>3, <2>4 DEF Standing
<1> QED BY <1>1, <1>2

\* Success is not taken back.
LEMMA SuccessStays ==
  ASSUME DiskType, DiskInv, scheme' = scheme, bytes' = bytes, LeavesVisible,
         DiskType', NEW v \in Worlds, Durable(v)
  PROVE  Durable(v)'
  BY DEF Durable, Exact, MarkerIs, Visible, LeavesVisible, Writers, DiskType, DiskInv, PayloadFirst
\* Every operation of a commit alters the disk in one of those ways, and leads to
\* a state in which the next one may rely on what it needs.
LEMMA ReturnStands ==
  ASSUME NEW w \in Worlds, RanksType, NEW o \in Ops, Return(w, o)
  PROVE  Standing(w)' /\ op'[w] = o
<1>1. Primary \in entered'[w] /\ op'[w] = o
  BY DEF Return, Enter, RanksType
<1> QED BY <1>1 DEF Standing, Busy

LEMMA OperationStands ==
  ASSUME NEW w \in Worlds, RanksType, DiskType, DInv, OwnManifest, CommitStep(w)
  PROVE  Alters(w) /\ Standing(w)' /\ (op'[w] = "ok" => Durable(w)')
<1>1. Busy(w, Primary, "commit") /\ Standing(w) /\ DiskInv
  BY DEF CommitStep, At, DInv, PrepareManifest, ClaimFinal, ProbeExisting, FenceExisting,
         FenceExistingRoot, MarkOwner, FenceClaim, FenceClaimRoot, LinkPayload, FencePayload,
         LinkManifest, SettleFinal, SettleRoot, Unclaim, UnclaimRoot, PublisherPanics
<1>2. scheme' = scheme /\ bytes' = bytes /\ Writers' = Writers
  BY DEF CommitStep, Writers
<1>3. ASSUME NEW o \in Ops, Goto(w, o) PROVE op'[w] = o
  BY <1>3 DEF Goto, RanksType
<1>4. ASSUME NEW o \in Ops, Return(w, o) PROVE Standing(w)' /\ op'[w] = o
  BY <1>4, ReturnStands
<1>5. {"none", "prepare", "claim", "probe", "fence", "fenceroot", "mark", "fenceclaim",
        "fenceclaimroot", "link", "fencepayload", "manifest", "settle", "settleroot",
        "resettle", "resettleroot", "unclaim", "unclaimroot", "ok", "failed", "ambiguous"} = Ops
  BY DEF Ops
<1> USE DEF Alters, At, Claims, Ends
<1>6. CASE PrepareManifest(w)
  BY <1>1, <1>3, <1>4, <1>5, <1>6 DEF PrepareManifest, Standing
<1>7. CASE ClaimFinal(w)
  BY <1>1, <1>3, <1>4, <1>5, <1>7 DEF ClaimFinal, Standing, Named
<1>8. CASE ProbeExisting(w)
  BY <1>1, <1>2, <1>3, <1>4, <1>5, <1>8 DEF ProbeExisting, Standing, Exact, MarkerIs, Visible, disk
<1>9. CASE FenceExisting(w)
  BY <1>1, <1>2, <1>3, <1>4, <1>5, <1>9
  DEF FenceExisting, Standing, MarkerIs, Visible, SyncFinal, DiskType
<1>10. CASE FenceExistingRoot(w)
  BY <1>1, <1>2, <1>3, <1>4, <1>5, <1>10
  DEF FenceExistingRoot, Standing, Durable, Exact, MarkerIs, Visible, SyncRoot, DiskInv,
      PayloadFirst, DiskType
<1>11. CASE MarkOwner(w)
  BY <1>1, <1>2, <1>3, <1>4, <1>5, <1>11
  DEF MarkOwner, Standing, Link, Entries, LedgerAssumption, Manifest, Owner
<1>12. CASE FenceClaim(w)
  BY <1>1, <1>2, <1>3, <1>4, <1>5, <1>12 DEF FenceClaim, Standing, SyncFinal, disk
<1>13. CASE FenceClaimRoot(w)
  BY <1>1, <1>2, <1>3, <1>4, <1>5, <1>13 DEF FenceClaimRoot, Standing, SyncRoot, disk
<1>14. CASE LinkPayload(w)
  BY <1>1, <1>2, <1>3, <1>4, <1>5, <1>14
  DEF LinkPayload, Standing, Link, Entries, Writers, DiskType, disk
<1>15. CASE FencePayload(w)
  BY <1>1, <1>2, <1>3, <1>4, <1>5, <1>15 DEF FencePayload, Standing, SyncFinal, disk, DiskType
<1>16. CASE LinkManifest(w)
  BY <1>1, <1>2, <1>3, <1>4, <1>5, <1>16 DEF LinkManifest, Standing, Link, disk, DiskType, Entries
<1>17. CASE SettleFinal(w)
  BY <1>1, <1>2, <1>3, <1>4, <1>5, <1>17 DEF SettleFinal, Standing, SyncFinal, disk, DiskType
<1>18. CASE SettleRoot(w)
  BY <1>1, <1>2, <1>3, <1>4, <1>5, <1>18
  DEF SettleRoot, Standing, SyncRoot, disk, Durable, Exact, MarkerIs, Visible, DiskInv,
      PayloadFirst, DiskType
<1>19. CASE Unclaim(w)
  BY <1>1, <1>2, <1>3, <1>4, <1>5, <1>19 DEF Unclaim, Standing, OwnManifest, Linked
<1>20. CASE UnclaimRoot(w)
  BY <1>1, <1>2, <1>3, <1>4, <1>5, <1>20 DEF UnclaimRoot, Standing
<1>21. CASE PublisherPanics(w)
  BY <1>1, <1>2, <1>3, <1>4, <1>5, <1>21 DEF PublisherPanics, Standing
<1> QED BY <1>6, <1>7, <1>8, <1>9, <1>10, <1>11, <1>12, <1>13, <1>14, <1>15, <1>16, <1>17,
           <1>18, <1>19, <1>20, <1>21 DEF CommitStep

LEMMA CommitStepKeepsDInv ==
  ASSUME IInv, DInv, NEW w \in Worlds, CommitStep(w) PROVE DInv'
<1>1. RanksType /\ DiskType /\ DiskType' /\ OwnManifest /\ DiskInv
  BY TypeParts, CommitStepKeepsIInv DEF IInv, DInv, TypeOK, DiskType
<1>2. Alters(w) /\ Standing(w)' /\ (op'[w] = "ok" => Durable(w)')
  BY <1>1, OperationStands
<1>3. Busy(w, Primary, "commit") /\ Moves(w)
  BY <1>1, OperationMoves, LinkManifestMoves DEF CommitStep
<1>4. PICK o \in Ops : MovesTo(w, o)
  BY <1>3 DEF Moves
<1>5. scheme' = scheme /\ bytes' = bytes
  BY DEF CommitStep
<1>6. DiskInv' /\ LeavesOthers(w) /\ LeavesVisible
  BY <1>1, <1>2, <1>5, AltersLittle
<1>7. ASSUME NEW v \in Worlds \ {w}
      PROVE  op'[v] = op[v] /\ (Busy(v, Primary, "commit")' => Busy(v, Primary, "commit"))
  BY <1>1, <1>4 DEF MovesTo, Enter, ranks, Busy, Over, RanksType
<1>8. \A v \in Worlds : Standing(v)'
  <2>1. \A v \in Worlds \ {w} : Standing(v)
    BY DEF DInv
  <2>2. \A v \in Worlds \ {w} : Standing(v)'
    BY <1>1, <1>5, <1>6, <1>7, <2>1, OthersStand
  <2> QED BY <1>2, <2>2
<1>9. \A v \in Worlds : op'[v] = "ok" => Durable(v)'
  <2>1. \A v \in Worlds : op[v] = "ok" => Durable(v)'
    BY <1>1, <1>5, <1>6, SuccessStays DEF DInv
  <2> QED BY <1>2, <1>7, <2>1
<1> QED BY <1>6, <1>8, <1>9 DEF DInv

\* Steps beside the commit leave the disk, and begin no operation that relies on it.
LEMMA BesideKeepsDInv ==
  ASSUME DiskType, DInv, UNCHANGED <<disk, scheme, bytes, op>>,
         \A v \in Worlds : Busy(v, Primary, "commit")' =>
           Busy(v, Primary, "commit") \/ op[v] \in {"none", "prepare"}
  PROVE  DInv'
<1>1. /\ final' = final /\ onDisk' = onDisk /\ files' = files /\ synced' = synced
      /\ scheme' = scheme /\ bytes' = bytes /\ op' = op
  BY DEF disk
<1>2. DiskInv'
  BY <1>1 DEF DInv, DiskInv, PayloadFirst, ManifestNamed, Writers
<1>3. \A v \in Worlds : op'[v] = "ok" => Durable(v)'
  BY <1>1 DEF DInv, Durable, Exact, MarkerIs, Visible, Writers
<1>4. ASSUME NEW v \in Worlds PROVE Standing(v)'
  <2>1. CASE ~Busy(v, Primary, "commit")'
    BY <2>1 DEF Standing
  <2>2. CASE op[v] \in {"none", "prepare"}
    BY <2>2, <1>1 DEF Standing, Claims, Ends
  <2>3. CASE Busy(v, Primary, "commit")
    <3>1. Standing(v)
      BY DEF DInv
    <3> QED BY <2>3, <3>1, <1>1 DEF Standing, MarkerIs, Visible, Writers
  <2> QED BY <2>1, <2>2, <2>3
<1> QED BY <1>2, <1>3, <1>4 DEF DInv

LEMMA LaunchKeepsDInv == ASSUME IInv, DInv, NEW w \in Worlds, Launch(w) PROVE DInv'
<1>1. RanksType /\ CollectType /\ DiskType /\ OwnManifest
  BY TypeParts DEF IInv
<1>2. /\ op[w] = "none" /\ op' = [op EXCEPT ![w] = "prepare"]
      /\ \A v \in Worlds \ {w} : bytes'[v] = bytes[v]
      /\ scheme' = scheme
      /\ final' = final /\ onDisk' = onDisk /\ files' = files /\ synced' = synced
  BY <1>1 DEF Launch, disk, CollectType
<1>3. Visible => final \in Worlds \ {w}
  BY <1>1, <1>2 DEF Visible, DiskType, OwnManifest, Linked
<1>4. DiskInv'
  BY <1>2 DEF DInv, DiskInv, PayloadFirst, ManifestNamed, Writers
<1>5. \A v \in Worlds : op'[v] = "ok" => Durable(v)'
  BY <1>1, <1>2, <1>3 DEF DInv, Durable, Exact, MarkerIs, Visible, Writers, RanksType
<1>6. ASSUME NEW v \in Worlds PROVE Standing(v)'
  <2>1. CASE v = w
    BY <1>1, <1>2, <2>1 DEF Standing, RanksType, Claims, Ends
  <2>2. CASE v # w
    <3>1. op'[v] = op[v] /\ (Busy(v, Primary, "commit")' => Busy(v, Primary, "commit"))
      BY <1>1, <1>2, <2>2 DEF Launch, Busy, Over, RanksType
    <3>2. Standing(v)
      BY DEF DInv
    <3> QED BY <1>2, <1>3, <2>2, <3>1, <3>2 DEF Standing, MarkerIs, Visible, Writers
  <2> QED BY <2>1, <2>2
<1> QED BY <1>4, <1>5, <1>6 DEF DInv

LEMMA ReduceKeepsDInv == ASSUME IInv, DInv, NEW w \in Worlds, Reduce(w) PROVE DInv'
<1>1. RanksType /\ DiskType /\ Protocol
  BY TypeParts DEF IInv
<1>2. ASSUME NEW v \in Worlds, Busy(v, Primary, "commit")'
      PROVE  Busy(v, Primary, "commit") \/ op[v] \in {"none", "prepare"}
  <2>1. CASE v = w
    <3>1. CASE phase[w][Primary] = "commit"
      <4>1. op[w] \in Ends /\ Total(w) = Signal(op[w])
        BY <1>1, <3>1, TotalIsRankZeros DEF Reduce, Protocol, SamePhase
      <4>2. Total(w) \in {0, 1, 2}
        BY <4>1 DEF Signal, Ends
      <4>3. verdict'[w][Primary] = Outcome("commit", Total(w))
        BY <1>1, <3>1 DEF Reduce, RanksType
      <4> QED BY <1>2, <2>1, <4>2, <4>3 DEF Outcome, Busy, Over
    <3>2. CASE phase[w][Primary] # "commit"
      BY <1>1, <2>1, <3>2 DEF Protocol, CommitsLast
    <3> QED BY <3>1, <3>2
  <2>2. CASE v # w
    BY <1>1, <1>2, <2>2 DEF Reduce, Busy, Over, RanksType
  <2> QED BY <2>1, <2>2
<1> QED BY <1>1, <1>2, BesideKeepsDInv DEF Reduce

LEMMA RankStepKeepsDInv ==
  ASSUME IInv, DInv, NEW w \in Worlds, NEW r \in Ranks, RankStep(w, r) PROVE DInv'
<1>1. RanksType /\ DiskType
  BY TypeParts DEF IInv
<1>2. UNCHANGED <<disk, scheme, bytes, op>>
  BY DEF RankStep, ClaimStage, WriteShard, AbortStage, AwaitCommit, CommError
<1>3. ASSUME NEW v \in Worlds, Busy(v, Primary, "commit")' PROVE Busy(v, Primary, "commit")
  <2>1. CASE ClaimStage(w, r) \/ WriteShard(w, r) \/ AbortStage(w, r) \/ AwaitCommit(w, r)
    BY <1>1, <1>3, <2>1
    DEF ClaimStage, WriteShard, AbortStage, AwaitCommit, Enter, Busy, Over, RanksType
  <2>2. CASE CommError(w, r)
    BY <1>1, <1>3, <2>2 DEF CommError, AfterComm, Busy, Over, RanksType
  <2> QED BY <2>1, <2>2 DEF RankStep
<1> QED BY <1>1, <1>2, <1>3, BesideKeepsDInv

LEMMA CommDiesKeepsDInv == ASSUME IInv, DInv, NEW w \in Worlds, CommDies(w) PROVE DInv'
<1>1. DiskType
  BY TypeParts DEF IInv
<1>2. UNCHANGED <<disk, scheme, bytes, op>>
  BY DEF CommDies
<1>3. \A v \in Worlds : Busy(v, Primary, "commit")' => Busy(v, Primary, "commit")
  BY DEF CommDies, Busy, Over
<1> QED BY <1>1, <1>2, <1>3, BesideKeepsDInv

LEMMA KillKeepsDInv == ASSUME IInv, DInv, NEW w \in Worlds, NEW r \in Ranks, Kill(w, r) PROVE DInv'
<1>1. RanksType /\ DiskType /\ DiskType' /\ OwnManifest /\ DiskInv
  BY TypeParts, KillKeepsIInv DEF IInv, DInv, TypeOK, DiskType
<1>2. scheme' = scheme /\ bytes' = bytes /\ op' = op
  BY DEF Kill
<1>3. ASSUME NEW v \in Worlds, Busy(v, Primary, "commit")'
      PROVE  Busy(v, Primary, "commit") /\ (v = w => r # Primary)
  BY <1>1, <1>3 DEF Kill, Busy, Over, RanksType
<1>4. CASE UNCHANGED disk
  BY <1>1, <1>2, <1>3, <1>4, BesideKeepsDInv
\* Within the removal of its claim.
<1>5. CASE r = Primary /\ At(w, "unclaim") /\ RemovePart(w)
  <2>1. Alters(w)
    BY <1>5 DEF Alters, DInv, Standing, At, Claims, IInv, OwnManifest, Linked
  <2>2. DiskInv' /\ LeavesOthers(w) /\ LeavesVisible
    BY <1>1, <1>2, <2>1, AltersLittle
  <2>3. \A v \in Worlds \ {w} : Standing(v)'
    BY <1>1, <1>2, <1>3, <2>2, OthersStand DEF DInv
  <2>4. \A v \in Worlds : op'[v] = "ok" => Durable(v)'
    BY <1>1, <1>2, <2>2, SuccessStays DEF DInv
  <2>5. Standing(w)'
    BY <1>3, <1>5 DEF Standing
  <2> QED BY <2>2, <2>3, <2>4, <2>5 DEF DInv
<1> QED BY <1>4, <1>5 DEF Kill

LEMMA PowerFailureKeepsDInv == ASSUME IInv, DInv, PowerFailure PROVE DInv'
<1>1. RanksType /\ DiskType /\ DiskType' /\ DiskInv
  BY TypeParts, PowerFailureKeepsIInv DEF IInv, DInv, TypeOK, DiskType
<1>2. PICK F \in IF final' = 0 THEN {{}} ELSE Survivors(final') :
        files' = [w \in Worlds |-> IF w = final' THEN F ELSE {}]
  BY DEF PowerFailure
<1>3. /\ final' \in onDisk /\ onDisk' = {final'} /\ synced' = files'
      /\ scheme' = scheme /\ bytes' = bytes /\ op' = op
  BY DEF PowerFailure
<1>4. \A w \in Worlds : w = final' =>
        F \subseteq files[w] \cup synced[w] /\ files[w] \cap synced[w] \subseteq F
  BY <1>2 DEF Survivors
<1>5. \A w \in Worlds : /\ w # final' => files'[w] = {} /\ synced'[w] = {}
                        /\ w = final' => files'[w] = F /\ synced'[w] = F
  BY <1>2, <1>3
<1>6. Writers' = Writers
  BY <1>3 DEF Writers
<1>7. DiskInv'
  BY <1>1, <1>4, <1>5, <1>6 DEF DiskInv, PayloadFirst, ManifestNamed
<1>8. \A v \in Worlds : ~Busy(v, Primary, "commit")'
  BY DEF PowerFailure, Busy, Over, Running
<1>9. ASSUME NEW v \in Worlds, op'[v] = "ok" PROVE Durable(v)'
  <2>1. Durable(v)
    BY <1>3, <1>9 DEF DInv
  <2>2. final' = final /\ final \in Worlds /\ Manifest \in files[final]
    BY <1>1, <1>3, <2>1 DEF Durable, Exact, MarkerIs, Visible, DiskType
  <2>3. Writers \cup {Manifest} \subseteq F
    BY <1>1, <1>4, <2>1, <2>2 DEF Durable, DiskInv, PayloadFirst
  <2> QED BY <1>3, <1>5, <1>6, <2>1, <2>2, <2>3 DEF Durable, Exact, MarkerIs, Visible
<1> QED BY <1>7, <1>8, <1>9 DEF DInv, Standing

LEMMA NextKeepsDInv == ASSUME IInv, DInv, [Next]_vars PROVE DInv'
<1>1. ASSUME NEW w \in Worlds, Launch(w) PROVE DInv'
  BY <1>1, LaunchKeepsDInv
<1>2. ASSUME NEW w \in Worlds, CommitStep(w) PROVE DInv'
  BY <1>2, CommitStepKeepsDInv
<1>3. ASSUME NEW w \in Worlds, Reduce(w) PROVE DInv'
  BY <1>3, ReduceKeepsDInv
<1>4. ASSUME NEW w \in Worlds, CommFails(w) \/ Deadline(w) PROVE DInv'
  BY <1>4, CommDiesKeepsDInv DEF CommFails, Deadline
<1>5. ASSUME NEW w \in Worlds, NEW r \in Ranks, RankStep(w, r) PROVE DInv'
  BY <1>5, RankStepKeepsDInv
<1>6. ASSUME NEW w \in Worlds, NEW r \in Ranks, Kill(w, r) PROVE DInv'
  BY <1>6, KillKeepsDInv
<1>7. CASE PowerFailure
  BY <1>7, PowerFailureKeepsDInv
<1>8. CASE Finished \/ UNCHANGED vars
  <2>1. UNCHANGED <<disk, scheme, bytes, op>> /\ DiskType
    BY <1>8, TypeParts DEF Finished, vars, IInv
  <2>2. \A v \in Worlds : Busy(v, Primary, "commit")' => Busy(v, Primary, "commit")
    BY <1>8 DEF Finished, vars, ranks, Busy, Over
  <2> QED BY <2>1, <2>2, BesideKeepsDInv
<1> QED BY <1>1, <1>2, <1>3, <1>4, <1>5, <1>6, <1>7, <1>8, Zenon DEF Next, Progress

LEMMA Durability == Spec => []DInv
<1>1. Init => DInv
  BY DEF Init, DInv, DiskInv, PayloadFirst, ManifestNamed, Standing, Busy
<1>2. IInv /\ DInv /\ [Next]_vars => DInv'
  BY NextKeepsDInv
<1> QED BY <1>1, <1>2, Invariance, PTL DEF Spec

\* A window that a learner can see has every payload file, through every failure of
\* an operation, every kill and every power failure.
THEOREM VisibleWindowIsWhole == Spec => []VisibleIsWhole
<1>1. IInv /\ DInv => VisibleIsWhole
  <2> SUFFICES ASSUME IInv, DInv, Visible PROVE Writers \subseteq files[final]
    BY DEF VisibleIsWhole
  <2>1. final \in Worlds
    BY TypeParts DEF IInv, DiskType, Visible
  <2> QED BY <2>1 DEF DInv, DiskInv, PayloadFirst, Visible
<1> QED BY <1>1, Invariance, Durability, PTL

\* A publisher that reports success reports it for its own bytes, and no power
\* failure can take them away.
THEOREM SuccessSurvives == Spec => []SuccessIsDurable
<1>1. DInv => SuccessIsDurable
  BY DEF DInv, Durable, SuccessIsDurable
<1> QED BY <1>1, Durability, PTL

(***************************************************************************)
(* The window is written once.                                             *)
(***************************************************************************)
LEMMA NextKeepsCollected == ASSUME IInv, Collected, [Next]_vars PROVE Collected'
<1>1. RanksType /\ CollectType /\ DiskType /\ OwnManifest
  BY TypeParts DEF IInv
<1>2. ASSUME NEW w \in Worlds, Launch(w) PROVE Collected'
  <2>1. PICK b \in {w} \cup {bytes[v] : v \in 1..(w - 1)} : bytes' = [bytes EXCEPT ![w] = b]
    BY <1>2 DEF Launch
  <2>2. op' = [op EXCEPT ![w] = "prepare"] /\ (w > 1 => op[w - 1] # "none")
    BY <1>2 DEF Launch
  <2>3. \A v \in 1..(w - 1) : op[v] # "none" /\ bytes[v] # 0
    <3>1. CASE w > 1
      <4>1. w - 1 \in Worlds /\ 1..(w - 1) \subseteq Worlds
        BY <3>1
      <4> QED BY <2>2, <3>1, <4>1 DEF Collected
    <3> QED BY <3>1
  <2>4. b # 0
    BY <2>3
  <2> QED BY <1>1, <2>1, <2>2, <2>3, <2>4 DEF Collected, RanksType, CollectType
<1>3. ASSUME NEW w \in Worlds, CommitStep(w) PROVE Collected'
  <2>1. Busy(w, Primary, "commit") /\ Moves(w)
    BY <1>1, <1>3, OperationMoves, LinkManifestMoves DEF CommitStep
  <2>2. PICK o \in Ops : MovesTo(w, o)
    BY <2>1 DEF Moves
  <2>3. bytes' = bytes
    BY <1>3 DEF CommitStep
  <2>4. \A v \in Worlds : op'[v] # "none" <=> (v = w \/ op[v] # "none")
    BY <1>1, <2>2 DEF MovesTo, RanksType
  <2>5. op[w] # "none"
    BY <2>1 DEF Busy, IInv, Protocol, NotLaunched
  <2>6. \A v \in Worlds : 1..v \subseteq Worlds
    OBVIOUS
  <2> QED BY <2>3, <2>4, <2>5, <2>6 DEF Collected
<1>4. CASE bytes' = bytes /\ op' = op
  BY <1>4 DEF Collected
<1> QED BY <1>2, <1>3, <1>4
    DEF Next, Progress, Reduce, CommFails, Deadline, CommDies, RankStep, ClaimStage, WriteShard,
        AbortStage, AwaitCommit, CommError, Kill, PowerFailure, Finished, vars

LEMMA LaunchesInOrder == Spec => []Collected
<1>1. Init => Collected
  BY DEF Init, Collected
<1>2. IInv /\ Collected /\ [Next]_vars => Collected'
  BY NextKeepsCollected
<1> QED BY <1>1, <1>2, Invariance, PTL DEF Spec

\* The package a learner finds, and whether success was reported.
Shown == IF Visible THEN bytes[final] ELSE 0
Settled == \E w \in Worlds : op[w] = "ok"

\* A settled window is never empty.
LEMMA SettledIsShown ==
  ASSUME IInv, DInv, Collected, Settled
  PROVE  Visible /\ Shown # 0 /\ onDisk = {final} /\ Manifest \in files[final] \cap synced[final]
<1>1. PICK w \in Worlds : op[w] = "ok"
  BY DEF Settled
<1>2. Durable(w) /\ bytes[w] # 0
  BY <1>1 DEF DInv, Collected
<1> QED BY <1>2 DEF Durable, Exact, MarkerIs, Visible, Shown

LEMMA CommitImplements ==
  ASSUME IInv, DInv, Collected, IInv', Collected', NEW w \in Worlds, CommitStep(w)
  PROVE  [Window!Next]_(Window!vars)
<1>1. RanksType /\ CollectType /\ DiskType /\ OwnManifest /\ DiskInv
  BY TypeParts DEF IInv, DInv
<1>2. Alters(w)
  BY <1>1, OperationStands
<1>3. scheme' = scheme /\ bytes' = bytes /\ crashes' = crashes
  BY DEF CommitStep
<1>4. LeavesVisible
  BY <1>1, <1>2, <1>3, AltersLittle
<1>5. Busy(w, Primary, "commit") /\ Moves(w)
  BY <1>1, OperationMoves, LinkManifestMoves DEF CommitStep
<1>6. PICK o \in Ops : MovesTo(w, o)
  BY <1>5 DEF Moves
<1>7. op[w] # "ok" /\ \A v \in Worlds \ {w} : op'[v] = op[v]
  BY <1>1, <1>5, <1>6 DEF MovesTo, DInv, Standing, Ends, RanksType
<1>8. op'[w] = "ok" => Visible /\ Visible' /\ Shown # 0
  <2> SUFFICES ASSUME op'[w] = "ok" PROVE Visible /\ Visible' /\ Shown # 0
    OBVIOUS
  <2>1. Durable(w)' /\ UNCHANGED <<final, files>>
    <3>1. Durable(w)'
      BY <1>1, OperationStands
    <3>2. UNCHANGED <<final, files>>
      BY <1>1 DEF CommitStep, PrepareManifest, ClaimFinal, ProbeExisting, FenceExisting,
           FenceExistingRoot, MarkOwner, FenceClaim, FenceClaimRoot, LinkPayload, FencePayload,
           LinkManifest, SettleFinal, SettleRoot, Unclaim, UnclaimRoot, PublisherPanics,
           Goto, Return, SyncRoot, disk, RanksType
    <3> QED BY <3>1, <3>2
  <2>2. Visible /\ Visible' /\ bytes[final] = bytes[w]
    BY <1>3, <2>1 DEF Durable, Exact, MarkerIs, Visible
  <2>3. op[w] # "none"
    BY <1>5 DEF Busy, IInv, Protocol, NotLaunched
  <2> QED BY <2>2, <2>3 DEF Collected, Shown
<1>9. CASE Visible \/ ~Visible'
  <2>1. Shown' = Shown
    BY <1>3, <1>4, <1>9 DEF Shown, Visible, LeavesVisible
  <2>2. Settled => Settled'
    BY <1>7 DEF Settled
  <2>3. Settled' /\ ~Settled => Shown # 0
    BY <1>7, <1>8 DEF Settled
  <2> QED BY <1>3, <2>1, <2>2, <2>3, Zenon
      DEF Window!Next, Window!Settle, Window!vars, Shown, Settled
<1>10. CASE ~Visible /\ Visible'
  <2>1. Shown = 0 /\ ~Settled
    BY <1>10, SettledIsShown DEF Shown
  <2>2. ~Settled'
    BY <1>7, <1>8, <1>10, <2>1 DEF Settled
  <2>3. Shown' \in Worlds
    <3>1. final' \in Worlds /\ op'[final'] # "none" /\ bytes' \in [Worlds -> Worlds \cup {0}]
      BY <1>10 DEF IInv, TypeOK, OwnManifest, Linked, Visible
    <3> QED BY <1>10, <3>1 DEF Collected, Shown
  <2> QED BY <1>3, <2>1, <2>2, <2>3, Zenon
      DEF Window!Next, Window!Publish, Window!vars, Shown, Settled
<1> QED BY <1>9, <1>10

LEMMA CrashImplements ==
  ASSUME IInv, DInv, Collected, DInv', PowerFailure \/ \E w \in Worlds, r \in Ranks : Kill(w, r)
  PROVE  Window!Crash
<1>1. RanksType /\ CollectType /\ DiskType /\ OwnManifest /\ DiskInv
  BY TypeParts DEF IInv, DInv
<1>2. scheme' = scheme /\ bytes' = bytes /\ op' = op /\ crashes' = crashes + 1
  BY DEF PowerFailure, Kill, Crash
<1>3. Settled' = Settled
  BY <1>2 DEF Settled
<1>4. Shown' = Shown \/ (~Settled /\ Shown' = 0)
  <2>1. CASE PowerFailure
    <3>1. PICK F \in IF final' = 0 THEN {{}} ELSE Survivors(final') :
            files' = [w \in Worlds |-> IF w = final' THEN F ELSE {}]
      BY <2>1 DEF PowerFailure
    <3>2. final' \in Worlds \cup {0}
      BY <1>1, <2>1 DEF PowerFailure, DiskType
    <3>3. Visible' => final' \in Worlds /\ Manifest \in files[final'] \cup synced[final']
      BY <3>1, <3>2 DEF Visible, Survivors
    <3>4. Visible' => Visible /\ final' = final
      BY <1>1, <3>3 DEF DiskInv, PayloadFirst, ManifestNamed, Visible
    <3>5. Settled => Visible'
      BY <1>2 DEF Settled, DInv, Durable, Exact, MarkerIs
    <3> QED BY <1>2, <3>4, <3>5 DEF Shown
  <2>2. ASSUME NEW w \in Worlds, NEW r \in Ranks, Kill(w, r) PROVE Shown' = Shown
    <3>1. CASE UNCHANGED disk
      BY <1>2, <3>1 DEF Shown, Visible, disk
    <3>2. CASE r = Primary /\ At(w, "unclaim") /\ RemovePart(w)
      <4>1. Manifest \notin files[w] /\ final' = final
        BY <1>1, <3>2 DEF At, OwnManifest, Linked, RemovePart
      <4>2. Manifest \notin files'[w] /\ \A v \in Worlds \ {w} : files'[v] = files[v]
        BY <1>1, <3>2, <4>1 DEF RemovePart, DiskType
      <4> QED BY <1>1, <1>2, <4>1, <4>2 DEF Shown, Visible, DiskType
    <3> QED BY <2>2, <3>1, <3>2 DEF Kill
  <2> QED BY <2>1, <2>2
<1> QED BY <1>2, <1>3, <1>4, Zenon DEF Window!Crash, Shown, Settled

\* Steps that neither show a window, nor hide one, nor report success.
LEMMA SameWindow ==
  ASSUME IInv, NEW w \in Worlds,
         Launch(w) \/ UNCHANGED <<bytes, op, disk, crashes>>
  PROVE  UNCHANGED Window!vars
<1>1. RanksType /\ CollectType /\ DiskType /\ OwnManifest
  BY TypeParts DEF IInv
<1>2. CASE Launch(w)
  <2>1. /\ op[w] = "none" /\ op' = [op EXCEPT ![w] = "prepare"]
        /\ \A v \in Worlds \ {w} : bytes'[v] = bytes[v]
        /\ final' = final /\ files' = files /\ crashes' = crashes
    BY <1>1, <1>2 DEF Launch, disk, CollectType
  <2>2. Visible => final \in Worlds \ {w}
    BY <1>1, <2>1 DEF Visible, DiskType, OwnManifest, Linked
  <2>3. Shown' = Shown
    BY <2>1, <2>2 DEF Shown, Visible
  <2>4. Settled' = Settled
    BY <1>1, <2>1 DEF Settled, RanksType
  <2> QED BY <2>1, <2>3, <2>4, Zenon DEF Window!vars, Shown, Settled
<1>3. CASE UNCHANGED <<bytes, op, disk, crashes>>
  BY <1>3 DEF Window!vars, Visible, disk
<1> QED BY <1>2, <1>3

LEMMA StepImplements ==
  ASSUME IInv, DInv, Collected, IInv', DInv', Collected', [Next]_vars
  PROVE  [Window!Next]_(Window!vars)
<1>1. ASSUME NEW w \in Worlds, CommitStep(w) PROVE [Window!Next]_(Window!vars)
  BY <1>1, CommitImplements
<1>2. CASE PowerFailure \/ \E w \in Worlds, r \in Ranks : Kill(w, r)
  BY <1>2, CrashImplements DEF Window!Next
<1>3. ASSUME NEW w \in Worlds, Launch(w) \/ UNCHANGED <<bytes, op, disk, crashes>>
      PROVE  [Window!Next]_(Window!vars)
  BY <1>3, SameWindow
<1>4. ASSUME NEW w \in Worlds,
             Reduce(w) \/ Deadline(w) \/ CommFails(w) \/ \E r \in Ranks : RankStep(w, r)
      PROVE  UNCHANGED <<bytes, op, disk, crashes>>
  BY <1>4 DEF Reduce, Deadline, CommFails, CommDies, RankStep, ClaimStage, WriteShard,
          AbortStage, AwaitCommit, CommError
<1>5. CASE UNCHANGED vars \/ Finished
  BY <1>5 DEF Finished, vars, Window!vars, Visible, disk
<1> QED BY <1>1, <1>2, <1>3, <1>4, <1>5 DEF Next, Progress

\* The window is a place that is written once: a package appears whole, nothing
\* takes its place, and after a success no power failure takes it away.
THEOREM WindowIsWrittenOnce == Spec => ImplementsWindow
<1>1. Init => Window!Init
  BY DEF Init, Window!Init, Visible
<1>2. IInv /\ DInv /\ Collected /\ IInv' /\ DInv' /\ Collected' /\ [Next]_vars
        => [Window!Next]_(Window!vars)
  BY StepImplements
<1> QED BY <1>1, <1>2, Invariance, Durability, LaunchesInOrder, PTL
        DEF Spec, ImplementsWindow, Window!Spec
=============================================================================
