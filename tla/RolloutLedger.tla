----------------------------- MODULE RolloutLedger -----------------------------
(***************************************************************************)
(* The publication of one rollout window by the worlds that collect it:    *)
(* publish_distributed_rollout_ledger_step and its tensor-parallel form in *)
(* src/crates/ferrl/src/trainer.rs, over the writer of rollout_ledger.rs.  *)
(*                                                                         *)
(* A world is one call of the collector in one job.  A job that is started *)
(* again while processes of the former one linger makes two worlds that    *)
(* publish to one directory, with no lock between them.  Under data        *)
(* parallelism every rank writes its shard into a hidden stage and rank 0  *)
(* commits the stage; otherwise the ranks hold one logical payload, which  *)
(* rank 0 writes and commits alone ("logical"; world one is its case of    *)
(* one rank).                                                              *)
(*                                                                         *)
(* The directory step-k is claimed by create_dir, filled by hard links,    *)
(* and visible to a reader once the manifest is linked.  An entry is       *)
(* durable after a sync of its directory only; the bytes of a file are     *)
(* synced before it is linked (write_new_synced).                          *)
(*                                                                         *)
(* The ranks of a world go from phase to phase by reductions, each of      *)
(* which ends for all of them at once (AllReduce).                         *)
(***************************************************************************)
EXTENDS Naturals, FiniteSets, FiniteSetsExt

CONSTANTS Ranks, Primary,   \* an execution world and its rank 0
          MaxWorlds,        \* bound: worlds that collect this window
          MaxFaults,        \* bound: operations and collectives that fail
          MaxCrashes        \* bound: processes killed and power failures

Manifest == "manifest"
Owner == "owner"

ASSUME LedgerAssumption ==
  /\ IsFiniteSet(Ranks) /\ Primary \in Ranks
  /\ Manifest \notin Ranks /\ Owner \notin Ranks   \* names of files, as the shards are
  /\ MaxWorlds \in Nat /\ MaxFaults \in Nat /\ MaxCrashes \in Nat

VARIABLES
  scheme,    \* "distributed" or "logical"
  bytes,     \* bytes[w]: the first world that has collected the bytes of w
  phase,     \* phase[w][r]: the part of the publication rank r is in
  entered,   \* entered[w]: the ranks waiting in the reduction of that part
  signal,    \* signal[w][r]: what r gives: 0, 1 a failure, 2 an ambiguity
  comm,      \* comm[w]: "live", or "dead" once a collective has failed
  verdict,   \* verdict[w][r]: what r does with its sampler when it returns
  shards,    \* shards[w]: the shards in the hidden stage of w
  op,        \* op[w]: the next operation of the commit, or how it ended
  final,     \* the world whose directory is step-k, 0 for none
  onDisk,    \* the values of final that a power failure may leave
  files,     \* files[w]: the entries of the directory that w created
  synced,    \* synced[w]: those of them that survive a power failure
  faults, crashes              \* counters that the bounds cap

ranks == <<phase, entered, signal, comm, verdict>>
disk == <<final, onDisk, files, synced>>
vars == <<scheme, bytes, ranks, shards, op, disk, faults, crashes>>

Worlds == 1..MaxWorlds
Writers == IF scheme = "distributed" THEN Ranks ELSE {Primary}

Init ==
  /\ scheme \in {"distributed", "logical"}
  /\ bytes = [w \in Worlds |-> 0]
  /\ phase = [w \in Worlds |-> [r \in Ranks |-> "none"]]
  /\ entered = [w \in Worlds |-> {}]
  /\ signal = [w \in Worlds |-> [r \in Ranks |-> 0]]
  /\ comm = [w \in Worlds |-> "live"]
  /\ verdict = [w \in Worlds |-> [r \in Ranks |-> "none"]]
  /\ shards = [w \in Worlds |-> {}]
  /\ op = [w \in Worlds |-> "none"]
  /\ final = 0 /\ onDisk = {0}
  /\ files = [w \in Worlds |-> {}] /\ synced = [w \in Worlds |-> {}]
  /\ faults = 0 /\ crashes = 0

Works == UNCHANGED faults
Fails == faults < MaxFaults /\ faults' = faults + 1
Crash == crashes < MaxCrashes /\ crashes' = crashes + 1

Over(w, r) == verdict[w][r] # "none"
Busy(w, r, p) == phase[w][r] = p /\ ~Over(w, r) /\ r \notin entered[w]

Enter(w, r, s) ==
  /\ entered' = [entered EXCEPT ![w] = @ \cup {r}]
  /\ signal' = [signal EXCEPT ![w][r] = s]
  /\ UNCHANGED <<phase, comm, verdict>>

(***************************************************************************)
(* Collectors start, claim a stage and fill it.                            *)
(***************************************************************************)
FirstPhase == IF scheme = "distributed" THEN "claim" ELSE "commit"

\* A collector starts.  The samplers repeat themselves, the rewards need not: a
\* world collects what an earlier one has collected, or something new.
Launch(w) ==
  /\ op[w] = "none" /\ (w > 1 => op[w - 1] # "none")
  /\ \E b \in {w} \cup {bytes[v] : v \in 1..(w - 1)} : bytes' = [bytes EXCEPT ![w] = b]
  /\ phase' = [phase EXCEPT ![w] = [r \in Ranks |-> FirstPhase]]
  /\ op' = [op EXCEPT ![w] = "prepare"]
  /\ UNCHANGED <<scheme, entered, signal, comm, verdict, shards, disk, faults, crashes>>

\* create_distributed_stage on rank 0; what fails is removed again, or left.
ClaimStage(w, r) ==
  /\ Busy(w, r, "claim")
  /\ \/ Works /\ Enter(w, r, 0)
     \/ r = Primary /\ Fails /\ Enter(w, r, 1)
  /\ UNCHANGED <<scheme, bytes, shards, op, disk, crashes>>

\* Mutant: the error of write_distributed_shard is returned at once.
WriteShardOrReturn(w, r) ==
  /\ Busy(w, r, "shard")
  /\ \/ /\ Works /\ Enter(w, r, 0)
        /\ shards' = [shards EXCEPT ![w] = @ \cup {r}]
     \/ /\ Fails
        /\ verdict' = [verdict EXCEPT ![w][r] = "rewound"]
        /\ UNCHANGED <<phase, entered, signal, comm, shards>>
  /\ UNCHANGED <<scheme, bytes, op, disk, crashes>>

\* write_distributed_shard, on every rank.
WriteShard(w, r) ==
  /\ Busy(w, r, "shard")
  /\ \/ /\ Works /\ Enter(w, r, 0)
        /\ shards' = [shards EXCEPT ![w] = @ \cup {r}]
     \/ Fails /\ Enter(w, r, 1) /\ UNCHANGED shards
  /\ UNCHANGED <<scheme, bytes, op, disk, crashes>>

\* A shard has failed somewhere: rank 0 removes the stage.
AbortStage(w, r) ==
  /\ Busy(w, r, "abort")
  /\ \/ Works /\ Enter(w, r, 0)
     \/ r = Primary /\ Fails /\ Enter(w, r, 1)
  /\ shards' = IF r = Primary THEN [shards EXCEPT ![w] = {}] ELSE shards
  /\ UNCHANGED <<scheme, bytes, op, disk, crashes>>

\* The peers of the rank that commits give 0 to the publication signal.
AwaitCommit(w, r) ==
  /\ Busy(w, r, "commit") /\ r # Primary
  /\ Enter(w, r, 0)
  /\ UNCHANGED <<scheme, bytes, shards, op, disk, faults, crashes>>

(***************************************************************************)
(* The file system.                                                        *)
(***************************************************************************)
Named(v) == final' = v /\ onDisk' = onDisk \cup {v} /\ UNCHANGED <<files, synced>>
Link(w, f) ==
  /\ files' = [files EXCEPT ![w] = @ \cup {f}]
  /\ UNCHANGED <<final, onDisk, synced>>
SyncFinal(w) == synced' = [synced EXCEPT ![w] = files[w]] /\ UNCHANGED <<final, onDisk, files>>
SyncRoot == onDisk' = {final} /\ UNCHANGED <<final, files, synced>>

\* remove_dir_all of w's own claim, and one that stops on the way.
RemoveFinal(w) ==
  /\ final' = 0 /\ onDisk' = onDisk \cup {0}
  /\ files' = [files EXCEPT ![w] = {}]
  /\ UNCHANGED synced
RemovePart(w) ==
  /\ \E F \in SUBSET files[w] : files' = [files EXCEPT ![w] = F]
  /\ UNCHANGED <<final, onDisk, synced>>

\* What a learner can read: the manifest is the only commit marker.
Visible == final # 0 /\ Manifest \in files[final]

\* The destination holds the marker of these bytes, and the payload with it.
MarkerIs(b) == Visible /\ bytes[final] = b
Exact(b) == MarkerIs(b) /\ Writers \subseteq files[final]

(***************************************************************************)
(* The commit on rank 0, one operation at a time.                          *)
(***************************************************************************)
At(w, o) == Busy(w, Primary, "commit") /\ op[w] = o

Goto(w, o) ==
  /\ op' = [op EXCEPT ![w] = o]
  /\ UNCHANGED ranks

\* Mutant: only an Ok is told from an error.
SignalErrors(o) == IF o = "ok" THEN 0 ELSE 1

\* may_be_visible: 2 for PublicationAmbiguous, 1 for any other error.
Signal(o) == CASE o = "ok" -> 0 [] o = "failed" -> 1 [] o = "ambiguous" -> 2

Return(w, o) ==
  /\ op' = [op EXCEPT ![w] = o]
  /\ Enter(w, Primary, Signal(o))

\* Read the shards back and stage the manifest.
PrepareManifest(w) ==
  /\ At(w, "prepare")
  /\ \/ /\ Works /\ (scheme = "distributed" => shards[w] = Ranks)
        /\ Goto(w, IF scheme = "distributed" /\ final # 0 THEN "probe" ELSE "claim")
     \/ Fails /\ Return(w, "failed")
  /\ UNCHANGED disk

\* create_dir never replaces what is there.
ClaimFinal(w) ==
  /\ At(w, "claim")
  /\ LET refused == IF scheme = "distributed" THEN Goto(w, "probe") ELSE Return(w, "failed")
     IN  \/ /\ final = 0 /\ Works
            /\ Named(w)
            /\ Goto(w, IF scheme = "distributed" THEN "mark" ELSE "link")
         \/ final # 0 /\ Works /\ refused /\ UNCHANGED disk
         \/ final = 0 /\ Fails /\ refused /\ UNCHANGED disk

\* probe_existing_distributed_package: the marker before the payload.
ProbeExisting(w) ==
  /\ At(w, "probe")
  /\ \/ Works /\ ~MarkerIs(bytes[w]) /\ Return(w, "failed")
     \/ Works /\ Exact(bytes[w]) /\ Goto(w, "fence")
     \/ Works /\ MarkerIs(bytes[w]) /\ ~Exact(bytes[w]) /\ Return(w, "ambiguous")
     \/ Fails /\ Return(w, "ambiguous")
  /\ UNCHANGED disk

\* Mutant: an exact package needs no fence.
TrustExisting(w) ==
  /\ At(w, "fence")
  /\ Works /\ Return(w, "ok") /\ UNCHANGED disk

\* reconcile_existing_distributed_package, once the probe has matched.
FenceExisting(w) ==
  /\ At(w, "fence")
  /\ \/ Works /\ SyncFinal(final) /\ Goto(w, "fenceroot")
     \/ Fails /\ Return(w, "ambiguous") /\ UNCHANGED disk

FenceExistingRoot(w) ==
  /\ At(w, "fenceroot")
  /\ \/ Works /\ SyncRoot /\ Return(w, IF Exact(bytes[w]) THEN "ok" ELSE "ambiguous")
     \/ Fails /\ Return(w, "ambiguous") /\ UNCHANGED disk

\* The owner marker; cleanup leaves a claim alone whose marker is not exact.
MarkOwner(w) ==
  /\ At(w, "mark")
  /\ \/ Works /\ Link(w, Owner) /\ Goto(w, "fenceclaim")
     \/ Fails /\ Link(w, Owner) /\ Goto(w, "unclaim")
     \/ Fails /\ UNCHANGED disk /\ Return(w, "failed")

FenceClaim(w) ==
  /\ At(w, "fenceclaim")
  /\ \/ Works /\ SyncFinal(w) /\ Goto(w, "fenceclaimroot")
     \/ Fails /\ UNCHANGED disk /\ Goto(w, "unclaim")

FenceClaimRoot(w) ==
  /\ At(w, "fenceclaimroot")
  /\ \/ Works /\ SyncRoot /\ Goto(w, "link")
     \/ Fails /\ UNCHANGED disk /\ Goto(w, "unclaim")

LinkPayload(w) ==
  /\ At(w, "link")
  /\ \/ /\ Works
        /\ \E r \in Writers \ files[w] :
             Link(w, r) /\ Goto(w, IF Writers \ {r} \subseteq files[w] THEN "fencepayload" ELSE "link")
     \/ Fails /\ UNCHANGED disk /\ Goto(w, "unclaim")

\* Mutant: the payload is fenced together with the manifest.
FencePayloadLater(w) ==
  /\ At(w, "fencepayload")
  /\ Works /\ UNCHANGED disk /\ Goto(w, "manifest")

FencePayload(w) ==
  /\ At(w, "fencepayload")
  /\ \/ Works /\ SyncFinal(w) /\ Goto(w, "manifest")
     \/ Fails /\ UNCHANGED disk /\ Goto(w, "unclaim")

LinkManifest(w) ==
  /\ At(w, "manifest")
  /\ \/ Works /\ Link(w, Manifest) /\ Goto(w, "settle")
     \/ Fails /\ UNCHANGED disk /\ Goto(w, "unclaim")

\* Mutant: a sync that fails is cleaned up after, as before the manifest.
SettleOrUnclaim(w) ==
  /\ At(w, "settle")
  /\ \/ Works /\ SyncFinal(w) /\ Goto(w, "settleroot")
     \/ Fails /\ UNCHANGED disk /\ Goto(w, "unclaim")

\* The two syncs that make the manifest durable, and their one retry.
SettleFinal(w) ==
  /\ op[w] \in {"settle", "resettle"} /\ At(w, op[w])
  /\ \/ /\ Works /\ SyncFinal(w)
        /\ Goto(w, IF op[w] = "settle" THEN "settleroot" ELSE "resettleroot")
     \/ /\ Fails /\ UNCHANGED disk
        /\ IF op[w] = "settle" THEN Goto(w, "resettle") ELSE Return(w, "ambiguous")

\* ... the check of the visible bytes included, which may fail to read them.
SettleRoot(w) ==
  /\ op[w] \in {"settleroot", "resettleroot"} /\ At(w, op[w])
  /\ \/ Works /\ SyncRoot /\ Return(w, "ok")
     \/ /\ Fails
        /\ SyncRoot \/ UNCHANGED disk
        /\ IF op[w] = "settleroot" THEN Goto(w, "resettle") ELSE Return(w, "ambiguous")

\* cleanup_distributed_claim, and the best effort of the logical writer.
Unclaim(w) ==
  /\ At(w, "unclaim")
  /\ \/ /\ Works /\ RemoveFinal(w)
        /\ IF scheme = "distributed" THEN Goto(w, "unclaimroot") ELSE Return(w, "failed")
     \/ Fails /\ RemovePart(w) /\ Return(w, "failed")

UnclaimRoot(w) ==
  /\ At(w, "unclaimroot")
  /\ \/ Works /\ SyncRoot
     \/ Fails /\ UNCHANGED disk
  /\ Return(w, "failed")

\* catch_unwind around the publisher: whatever it had done, it is ambiguous.
PublisherPanics(w) ==
  /\ At(w, op[w])
  /\ Fails /\ Return(w, "ambiguous")
  /\ UNCHANGED disk

CommitStep(w) ==
  /\ \/ PrepareManifest(w) \/ ClaimFinal(w) \/ ProbeExisting(w)
     \/ FenceExisting(w) \/ FenceExistingRoot(w)
     \/ MarkOwner(w) \/ FenceClaim(w) \/ FenceClaimRoot(w)
     \/ LinkPayload(w) \/ FencePayload(w) \/ LinkManifest(w)
     \/ SettleFinal(w) \/ SettleRoot(w) \/ Unclaim(w) \/ UnclaimRoot(w)
     \/ PublisherPanics(w)
  /\ UNCHANGED <<scheme, bytes, shards, crashes>>

(***************************************************************************)
(* The reductions of a world.                                              *)
(***************************************************************************)
Total(w) == Max({signal[w][r] : r \in Ranks})

\* The verdict that a reduction comes to; "none" when it goes on.
Outcome(p, total) ==
  CASE p = "commit" /\ total = 0 -> "published"
    [] p = "commit" /\ total = 2 -> "ambiguous"
    [] p = "commit" /\ total = 1 -> "rewound"
    [] p = "claim"  /\ total > 0 -> "rewound"
    [] p = "abort"               -> "rewound"
    [] OTHER                     -> "none"

NextPhase(p, total) ==
  CASE p = "claim" /\ total = 0 -> "shard"
    [] p = "shard" -> IF total > 0 THEN "abort" ELSE "commit"
    [] OTHER -> p

Reduce(w) ==
  /\ comm[w] = "live" /\ entered[w] = Ranks
  /\ phase' = [phase EXCEPT ![w] = [r \in Ranks |-> NextPhase(@[r], Total(w))]]
  /\ verdict' = [verdict EXCEPT ![w] = [r \in Ranks |-> Outcome(phase[w][r], Total(w))]]
  /\ entered' = [entered EXCEPT ![w] = {}]
  /\ signal' = [signal EXCEPT ![w] = [r \in Ranks |-> 0]]
  /\ UNCHANGED <<scheme, bytes, comm, shards, op, disk, faults, crashes>>

CommDies(w) ==
  /\ comm[w] = "live" /\ entered[w] # {}
  /\ comm' = [comm EXCEPT ![w] = "dead"]
  /\ UNCHANGED <<scheme, bytes, phase, entered, signal, verdict, shards, op, disk, crashes>>

\* A transport failure, and the deadline of a peer that is gone.
CommFails(w) == CommDies(w) /\ Fails
Deadline(w) == CommDies(w) /\ Works /\ \E r \in Ranks : verdict[w][r] = "killed"

\* Mutant: a rank that has published nothing itself rewinds.
KeptByPrimary(w, r) ==
  IF phase[w][r] = "commit" /\ r = Primary THEN "ambiguous" ELSE "rewound"

\* PublicationAmbiguousAfterComm once the commit has begun; a plain failure of
\* the communicator before.
AfterComm(w, r) == IF phase[w][r] = "commit" THEN "ambiguous" ELSE "rewound"

CommError(w, r) ==
  /\ comm[w] = "dead" /\ r \in entered[w] /\ ~Over(w, r)
  /\ verdict' = [verdict EXCEPT ![w][r] = AfterComm(w, r)]
  /\ entered' = [entered EXCEPT ![w] = @ \ {r}]
  /\ UNCHANGED <<scheme, bytes, phase, signal, comm, shards, op, disk, faults, crashes>>

(***************************************************************************)
(* Crashes.                                                                *)
(***************************************************************************)
Running(w, r) == phase[w][r] # "none" /\ ~Over(w, r)

\* A process is killed, perhaps within a removal.
Kill(w, r) ==
  /\ Running(w, r) /\ Crash
  /\ verdict' = [verdict EXCEPT ![w][r] = "killed"]
  /\ entered' = [entered EXCEPT ![w] = @ \ {r}]
  /\ signal' = [signal EXCEPT ![w][r] = 0]
  /\ UNCHANGED disk \/ (r = Primary /\ At(w, "unclaim") /\ RemovePart(w))
  /\ UNCHANGED <<scheme, bytes, phase, comm, shards, op, faults>>

\* What a power failure may leave of the directory of w: what is synced and
\* not removed, and of the rest any part.
Survivors(w) ==
  {F \in SUBSET (files[w] \cup synced[w]) : files[w] \cap synced[w] \subseteq F}

\* Power fails: no process survives.
PowerFailure ==
  /\ Crash
  /\ final' \in onDisk /\ onDisk' = {final'}
  /\ \E F \in IF final' = 0 THEN {{}} ELSE Survivors(final') :
       files' = [w \in Worlds |-> IF w = final' THEN F ELSE {}]
  /\ synced' = files'
  /\ verdict' = [w \in Worlds |-> [r \in Ranks |->
                   IF Running(w, r) THEN "killed" ELSE verdict[w][r]]]
  /\ entered' = [w \in Worlds |-> {}]
  /\ signal' = [w \in Worlds |-> [r \in Ranks |-> 0]]
  /\ UNCHANGED <<scheme, bytes, phase, comm, shards, op, faults>>

\* Every rank of every world has returned.
Finished ==
  /\ \A w \in Worlds : op[w] # "none" /\ \A r \in Ranks : Over(w, r)
  /\ UNCHANGED vars

RankStep(w, r) == \/ ClaimStage(w, r) \/ WriteShard(w, r) \/ AbortStage(w, r)
                  \/ AwaitCommit(w, r) \/ CommError(w, r)

\* What a world does when nothing interferes with it.
Progress(w) == CommitStep(w) \/ Reduce(w) \/ Deadline(w) \/ \E r \in Ranks : RankStep(w, r)

Next ==
  \/ \E w \in Worlds : \/ Launch(w) \/ Progress(w) \/ CommFails(w)
                       \/ \E r \in Ranks : Kill(w, r)
  \/ PowerFailure \/ Finished

Spec == Init /\ [][Next]_vars

\* As long as a process can run, or a deadline can pass, one does.  This is less
\* than fairness to each process; it is enough because no world waits for another.
FairSpec == Spec /\ WF_vars(\E w \in Worlds : Progress(w))

(***************************************************************************)
(* Properties.                                                             *)
(***************************************************************************)
Ops == {"none", "prepare", "claim", "probe", "fence", "fenceroot", "mark", "fenceclaim",
        "fenceclaimroot", "link", "fencepayload", "manifest", "settle", "settleroot",
        "resettle", "resettleroot", "unclaim", "unclaimroot", "ok", "failed", "ambiguous"}
Entries == Ranks \cup {Owner, Manifest}

\* The type of the state.
TypeOK ==
  /\ bytes \in [Worlds -> Worlds \cup {0}]
  /\ phase \in [Worlds -> [Ranks -> {"none", "claim", "shard", "abort", "commit"}]]
  /\ entered \in [Worlds -> SUBSET Ranks]
  /\ signal \in [Worlds -> [Ranks -> 0..2]]
  /\ comm \in [Worlds -> {"live", "dead"}]
  /\ verdict \in [Worlds -> [Ranks -> {"none", "published", "ambiguous", "rewound", "killed"}]]
  /\ shards \in [Worlds -> SUBSET Ranks]
  /\ op \in [Worlds -> Ops]
  /\ final \in onDisk /\ onDisk \subseteq Worlds \cup {0}
  /\ files \in [Worlds -> SUBSET Entries] /\ synced \in [Worlds -> SUBSET Entries]

\* A manifest that a learner can see has every payload file with it, also after
\* a power failure took what was not yet durable.
VisibleIsWhole == Visible => Writers \subseteq files[final]

\* A publisher reports success only for its own bytes, whoever linked them, and
\* only when no power failure can take them away.
SuccessIsDurable ==
  \A w \in Worlds : op[w] = "ok" =>
    /\ Exact(bytes[w])
    /\ onDisk = {final} /\ Writers \cup {Manifest} \subseteq synced[final]

\* "Once a manifest may be visible, it never rewinds the sampler": no rank of
\* the world that linked it, whether it returned, lost the communicator, or
\* heard of a failure; not even when only a power failure would show it again.
RewindsOnlyUnpublished ==
  \A w \in Worlds, r \in Ranks :
    verdict[w][r] = "rewound" => Manifest \notin files[w] \cup synced[w]

\* The ranks of one world do not part: none keeps the samplers of the window
\* while another takes them back.
RanksKeepTogether ==
  \A w \in Worlds, r, s \in Ranks :
    verdict[w][r] = "rewound" => verdict[w][s] \notin {"published", "ambiguous"}

\* Every rank that has started to publish has returned in the end, or was killed:
\* no error path leaves a peer in a reduction that nobody else enters.
EveryWorldReturns ==
  <>[](\A w \in Worlds : op[w] # "none" => \A r \in Ranks : Over(w, r))

Window == INSTANCE LedgerWindow WITH
  Packages <- Worlds, NoPackage <- 0,
  window <- IF Visible THEN bytes[final] ELSE 0,
  settled <- \E w \in Worlds : op[w] = "ok"

\* The step is written once: two worlds never replace, mix or withdraw what the
\* other has made visible; only a power failure may, before success is reported.
ImplementsWindow == Window!Spec
=============================================================================
