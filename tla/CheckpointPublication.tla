------------------------ MODULE CheckpointPublication ------------------------
(***************************************************************************)
(* The publication of one checkpoint, checkpoints/step-n, by the writers   *)
(* of src/crates/ferrl/src/checkpoint.rs on a file system that may lose    *)
(* what was not synced, and its discovery by a reader.                     *)
(*                                                                         *)
(* An entry of the parent that was created, renamed or removed is durable  *)
(* only after a sync of the parent; what is in a package only after a sync *)
(* of the package.  A power failure keeps any of the unsynced operations   *)
(* and loses the others; each rename is atomic.                            *)
(*                                                                         *)
(* Save number i is one call of a writer, in a process of its own.  It     *)
(* works on package i, on the hidden names step-n.tmp-i and step-n.old-i,  *)
(* and on the canonical name step-n.                                       *)
(***************************************************************************)
EXTENDS Naturals, FiniteSets

CONSTANTS MaxSaves,    \* bound: calls of a writer
          Kinds,       \* the writers called: "ordinary", "continuation"
          MaxFaults,   \* bound: file system operations that report an error
          MaxCrashes,  \* bound: processes killed and power failures
          HasReader    \* does a reader run latest_checkpoint meanwhile?

ASSUME PublicationAssumption ==
  /\ MaxSaves \in Nat /\ MaxFaults \in Nat /\ MaxCrashes \in Nat
  /\ Kinds # {} /\ Kinds \subseteq {"ordinary", "continuation"}
  /\ HasReader \in BOOLEAN

VARIABLES
  names,     \* names[e]: the package that the entry e leads to, 0 for none
  onDisk,    \* the values of names that a power failure may leave
  content,   \* content[i]: what is in package i
  kept,      \* kept[i]: the contents of i that a power failure may leave
  pc,        \* pc[i]: where save i is
  kind,      \* kind[i]: the writer that save i calls
  had,       \* had[i]: did save i find a prior canonical package?
  outcome,   \* outcome[i]: how save i ended
  lock,      \* the save that holds the writer lock, 0 for none
  reader,    \* the reader: its phase, its listing and its result
  faults, crashes                \* counters that the bounds cap

entries == <<names, onDisk>>
packages == <<content, kept>>
vars == <<entries, packages, pc, kind, had, outcome, lock, reader, faults, crashes>>

Saves == 1..MaxSaves
Canon == <<"canon", 0>>
Tmp(i) == <<"tmp", i>>
Old(i) == <<"old", i>>
Names == {Canon} \cup {Tmp(i) : i \in Saves} \cup {Old(i) : i \in Saves}

\* "payload": adapter and optimizer, and no manifest under its final name;
\* "hollow": a manifest without all of its payload.
Contents == {"none", "payload", "hollow", "whole"}

Init ==
  /\ names = [e \in Names |-> 0] /\ onDisk = {names}
  /\ content = [i \in Saves |-> "none"] /\ kept = [i \in Saves |-> {"none"}]
  /\ pc = [i \in Saves |-> "new"]
  /\ kind \in [Saves -> Kinds]
  /\ had = [i \in Saves |-> FALSE]
  /\ outcome = [i \in Saves |-> "none"]
  /\ lock = 0
  /\ reader = [phase |-> "idle", listing |-> {}, due |-> FALSE, still |-> FALSE,
               result |-> "none"]
  /\ faults = 0 /\ crashes = 0

(***************************************************************************)
(* The file system.                                                        *)
(***************************************************************************)
\* An operation on the entries of the parent empties a and has b lead to v.
Put(d, a, b, v) == [d EXCEPT ![a] = 0, ![b] = v]
Operate(a, b, v) ==
  /\ names' = Put(names, a, b, v)
  /\ onDisk' = onDisk \cup {Put(d, a, b, v) : d \in onDisk}

MakeDir(e, i) == Operate(e, e, i)
Rename(a, b) == Operate(a, b, names[a])
SyncParent == onDisk' = {names} /\ UNCHANGED names

Exists(e) == names[e] # 0

\* require_recoverable_staged_package
Whole(e) == content[names[e]] = "whole"

\* The contents that a power failure may leave when c is written over k: a
\* manifest may be there and its payload not.
Torn(k, c) == k \cup {c} \cup (IF c = "whole" /\ "none" \in k THEN Contents ELSE {})

Write(i, c) ==
  /\ content' = [content EXCEPT ![i] = c]
  /\ kept' = [kept EXCEPT ![i] = Torn(@, c)]
SyncPackage(i) == kept' = [kept EXCEPT ![i] = {content[i]}] /\ UNCHANGED content

\* remove_dir_all empties the package before its entry goes; it may stop half
\* way, and a power failure may bring the entry back with what was left.
Leftovers(c) == IF c = "whole" THEN Contents ELSE {c, "none"}
Damage(i) ==
  /\ \E c \in Leftovers(content[i]) : content' = [content EXCEPT ![i] = c]
  /\ kept' = [kept EXCEPT ![i] = @ \cup Leftovers(content[i])]
Remove(e) ==
  /\ Operate(e, e, 0)
  /\ content' = [content EXCEPT ![names[e]] = "none"]
  /\ kept' = [kept EXCEPT ![names[e]] = @ \cup Leftovers(content[names[e]])]

(***************************************************************************)
(* The control of a save.                                                  *)
(***************************************************************************)
At(i, l) == pc[i] = l
Goto(i, l) == pc' = [pc EXCEPT ![i] = l] /\ UNCHANGED <<outcome, lock>>

\* The call returns, and its lock file is closed.
Return(i, o) ==
  /\ pc' = [pc EXCEPT ![i] = "done"]
  /\ outcome' = [outcome EXCEPT ![i] = o]
  /\ lock' = IF lock = i THEN 0 ELSE lock

Works == UNCHANGED faults
Fails == faults < MaxFaults /\ faults' = faults + 1

Hidden == {e \in Names \ {Canon} : Exists(e)}
Asides == {e \in Hidden : e[1] = "old"}

\* The frame of every step of a save.
Frame == UNCHANGED <<kind, reader, crashes>>

\* A boundary of two syncs, of the package under e and of the parent: l when
\* both succeed.  The parent may be unsynced when only the second fails.
Fenced(i, e, l) ==
  /\ SyncParent /\ SyncPackage(names[e]) /\ Works /\ Goto(i, l)
Unfenced(e) ==
  /\ Fails /\ UNCHANGED entries
  /\ UNCHANGED packages \/ SyncPackage(names[e])

\* acquire_checkpoint_writer_lock: a try-lock that fails when it is held.
Begin(i) ==
  /\ At(i, "new") /\ \A j \in Saves : j < i => pc[j] # "new"
  /\ IF lock # 0 THEN Return(i, "error")
     ELSE /\ pc' = [pc EXCEPT ![i] = IF kind[i] = "ordinary" THEN "reconcile" ELSE "claim"]
          /\ lock' = i /\ UNCHANGED outcome
  /\ Works /\ UNCHANGED <<entries, packages, had>>

(***************************************************************************)
(* write_staged: the ordinary writer.                                      *)
(***************************************************************************)
\* Mutant: a stage beside the aside makes it no sole candidate.
RestoreAsideUnlessStaged(i) ==
  /\ At(i, "reconcile") /\ ~Exists(Canon) /\ Asides # {}
  /\ IF \E e \in Hidden : Hidden = {e} /\ Whole(e)
     THEN \E e \in Asides : Rename(e, Canon) /\ Goto(i, "fence")
     ELSE Return(i, "ambiguous") /\ UNCHANGED entries
  /\ Works /\ UNCHANGED <<packages, had>>

\* reconcile_staged_siblings: a sole complete aside is the checkpoint when the
\* canonical name is absent.
RestoreAside(i) ==
  /\ At(i, "reconcile") /\ ~Exists(Canon) /\ Asides # {}
  /\ \/ /\ \E e \in Asides : Asides = {e} /\ Whole(e) /\ Rename(e, Canon)
        /\ \/ Works /\ Goto(i, "fence")
           \/ Fails /\ Return(i, "ambiguous")
     \/ /\ Fails \/ (Works /\ ~(\E e \in Asides : Asides = {e} /\ Whole(e)))
        /\ Return(i, "ambiguous") /\ UNCHANGED entries
  /\ UNCHANGED <<packages, had>>

\* ... and a complete canonical package outranks what is hidden.
Reconcile(i) ==
  /\ At(i, "reconcile") /\ (Exists(Canon) \/ Asides = {})
  /\ IF Hidden = {} THEN Goto(i, "stage")
     ELSE IF ~Exists(Canon) THEN Goto(i, "sweep")
     ELSE IF Whole(Canon) THEN Goto(i, "fence") ELSE Return(i, "ambiguous")
  /\ Works /\ UNCHANGED <<entries, packages, had>>

\* The visible package is fenced before anything hidden is removed.
FenceCanonical(i) ==
  /\ At(i, "fence")
  /\ \/ Fenced(i, Canon, IF Hidden = {} THEN "stage" ELSE "sweep")
     \/ Unfenced(Canon) /\ Return(i, "ambiguous")
  /\ UNCHANGED had

Sweep(i) ==
  /\ At(i, "sweep") /\ Hidden # {}
  /\ \E e \in Hidden :
       \/ Works /\ Remove(e) /\ Goto(i, "sweep")
       \/ Fails /\ Damage(names[e]) /\ Return(i, "ambiguous") /\ UNCHANGED entries
  /\ UNCHANGED had

EndSweep(i) ==
  /\ At(i, "sweep") /\ Hidden = {}
  /\ \/ Works /\ SyncParent /\ Goto(i, "stage")
     \/ Fails /\ UNCHANGED entries /\ Return(i, "ambiguous")
  /\ UNCHANGED <<packages, had>>

\* prepare_stage
MakeStage(i) ==
  /\ \/ At(i, "stage") /\ Works /\ MakeDir(Tmp(i), i) /\ Goto(i, "staged")
     \/ At(i, "stage") /\ Fails /\ UNCHANGED entries /\ Return(i, "error")
     \/ At(i, "staged") /\ Works /\ SyncParent /\ Goto(i, "write")
     \/ At(i, "staged") /\ Fails /\ UNCHANGED entries /\ Return(i, "error")
  /\ UNCHANGED <<packages, had>>

\* write_checkpoint_contents, the manifest last; a failed write is scrapped.
WriteStage(i) ==
  /\ At(i, "write")
  /\ \/ Works /\ Write(i, "whole") /\ Goto(i, "fenceStage")
     \/ Fails /\ (\E c \in {"none", "payload", "whole"} : Write(i, c)) /\ Goto(i, "scrap")
  /\ UNCHANGED <<entries, had>>

\* remove_hidden_directory_durable, the end of every recovery.
Scrap(i) ==
  /\ \/ At(i, "scrap") /\ Works /\ Remove(Tmp(i)) /\ Goto(i, "scrapped")
     \/ At(i, "scrap") /\ Fails /\ Damage(i) /\ Return(i, "ambiguous") /\ UNCHANGED entries
     \/ At(i, "scrapped") /\ Works /\ SyncParent /\ Return(i, "error") /\ UNCHANGED packages
     \/ /\ At(i, "scrapped") /\ Fails /\ Return(i, "ambiguous")
        /\ UNCHANGED <<entries, packages>>
  /\ UNCHANGED had

\* Mutant: only the parent is synced.
FenceStageEntry(i) ==
  /\ At(i, "fenceStage")
  /\ had' = [had EXCEPT ![i] = Exists(Canon)]
  /\ SyncParent /\ Works /\ Goto(i, IF Exists(Canon) THEN "aside" ELSE "publish")
  /\ UNCHANGED packages

\* commit_stage
FenceStage(i) ==
  /\ At(i, "fenceStage")
  /\ had' = [had EXCEPT ![i] = Exists(Canon)]
  /\ \/ Fenced(i, Tmp(i), IF Exists(Canon) THEN "aside" ELSE "publish")
     \/ Unfenced(Tmp(i)) /\ Goto(i, "undone")

\* A rename that reports an error may have happened: the names tell.
MoveAside(i) ==
  /\ At(i, "aside")
  /\ \/ Rename(Canon, Old(i)) /\ Works /\ Goto(i, "fenceAside")
     \/ /\ Rename(Canon, Old(i)) /\ Fails
        /\ IF Whole(Canon) THEN Goto(i, "restore") ELSE Return(i, "ambiguous")
     \/ /\ UNCHANGED entries /\ Fails
        /\ IF Whole(Canon) THEN Goto(i, "untouched") ELSE Return(i, "ambiguous")
  /\ UNCHANGED <<packages, had>>

\* reconcile_prior_aside_rename_error, when the prior package never moved.
FenceUntouched(i) ==
  /\ At(i, "untouched")
  /\ \/ Fenced(i, Canon, "scrap")
     \/ Unfenced(Canon) /\ Return(i, "ambiguous")
  /\ UNCHANGED had

FenceAside(i) ==
  /\ At(i, "fenceAside")
  /\ \/ Works /\ SyncParent /\ Goto(i, "publish")
     \/ Fails /\ UNCHANGED entries /\ Goto(i, "restore")
  /\ UNCHANGED <<packages, had>>

Publish(i) ==
  /\ At(i, "publish")
  /\ \/ Rename(Tmp(i), Canon) /\ Works /\ Goto(i, "fenceNew")
     \/ Rename(Tmp(i), Canon) /\ Fails /\ Goto(i, "fenceReported")
     \/ UNCHANGED entries /\ Fails /\ Return(i, "ambiguous")
  /\ UNCHANGED <<packages, had>>

\* reconcile_publish_rename_error
FenceReported(i) ==
  /\ At(i, "fenceReported")
  /\ \/ Fenced(i, Canon, "fenceNew")
     \/ Unfenced(Canon) /\ Return(i, "ambiguous")
  /\ UNCHANGED had

\* Mutant: the rename is taken for durable when the package is.
FenceNewPackage(i) ==
  /\ At(i, "fenceNew")
  /\ SyncPackage(i) /\ Works /\ UNCHANGED entries
  /\ IF had[i] THEN Goto(i, "cleanup") ELSE Return(i, "ok")
  /\ UNCHANGED had

FenceNew(i) ==
  /\ At(i, "fenceNew")
  /\ \/ /\ SyncParent /\ SyncPackage(i) /\ Works
        /\ IF had[i] THEN Goto(i, "cleanup") ELSE Return(i, "ok")
     \/ Unfenced(Canon) /\ Goto(i, "unpublish")
  /\ UNCHANGED had

CleanUpAside(i) ==
  /\ \/ At(i, "cleanup") /\ Works /\ Remove(Old(i)) /\ Goto(i, "cleaned")
     \/ /\ At(i, "cleanup") /\ Fails /\ Damage(names[Old(i)]) /\ Return(i, "ambiguous")
        /\ UNCHANGED entries
     \/ At(i, "cleaned") /\ Works /\ SyncParent /\ Return(i, "ok") /\ UNCHANGED packages
     \/ /\ At(i, "cleaned") /\ Fails /\ Return(i, "ambiguous")
        /\ UNCHANGED <<entries, packages>>
  /\ UNCHANGED had

\* rollback_staged_replacement: the new package back to the stage, the prior
\* one back to the canonical name, each fenced, and then the stage removed.
Unpublish(i) ==
  /\ \/ At(i, "unpublish") /\ Rename(Canon, Tmp(i)) /\ Works /\ Goto(i, "unpublished")
     \/ /\ At(i, "unpublish") /\ Fails /\ Return(i, "ambiguous")
        /\ UNCHANGED entries \/ Rename(Canon, Tmp(i))
     \/ /\ At(i, "unpublished") /\ Works /\ SyncParent
        /\ Goto(i, IF had[i] THEN "restore" ELSE "undone")
     \/ At(i, "unpublished") /\ Fails /\ UNCHANGED entries /\ Return(i, "ambiguous")
  /\ UNCHANGED <<packages, had>>

RestorePrior(i) ==
  /\ At(i, "restore")
  /\ \/ Rename(Old(i), Canon) /\ Works /\ Goto(i, "restored")
     \/ /\ Fails /\ Return(i, "ambiguous")
        /\ UNCHANGED entries \/ Rename(Old(i), Canon)
  /\ UNCHANGED <<packages, had>>

FenceRestored(i) ==
  /\ \/ At(i, "restored") /\ Fenced(i, Canon, "scrap")
     \/ At(i, "restored") /\ Unfenced(Canon) /\ Return(i, "ambiguous")
     \/ At(i, "undone") /\ Works /\ SyncParent /\ Goto(i, "scrap") /\ UNCHANGED packages
     \/ /\ At(i, "undone") /\ Fails /\ Return(i, "ambiguous")
        /\ UNCHANGED <<entries, packages>>
  /\ UNCHANGED had

(***************************************************************************)
(* save_checkpoint_no_replace: the continuation writer.                    *)
(***************************************************************************)
\* create_dir is the claim; it never replaces what is there.
Claim(i) ==
  /\ At(i, "claim")
  /\ \/ ~Exists(Canon) /\ Works /\ MakeDir(Canon, i) /\ Goto(i, "mark")
     \/ Exists(Canon) /\ Works /\ Return(i, "error") /\ UNCHANGED entries
     \/ ~Exists(Canon) /\ Fails /\ Return(i, "error") /\ UNCHANGED entries
  /\ UNCHANGED <<packages, had>>

\* The owner marker, and the fences of the claim.
MarkClaim(i) ==
  /\ \/ At(i, "mark") /\ Works /\ Goto(i, "anchor") /\ UNCHANGED <<entries, packages>>
     \/ At(i, "mark") /\ Fails /\ Return(i, "ambiguous") /\ UNCHANGED <<entries, packages>>
     \/ At(i, "anchor") /\ Fenced(i, Canon, "payload")
     \/ At(i, "anchor") /\ Unfenced(Canon) /\ Goto(i, "unclaim")
  /\ UNCHANGED had

\* Mutant: the entries of the payload are not fenced before the manifest.
WriteClaimUnfenced(i) ==
  /\ At(i, "payload") /\ Works /\ Write(i, "payload") /\ Goto(i, "commit")
  /\ UNCHANGED <<entries, had>>

\* The payload and the manifest under a temporary name, and their fence.
WriteClaim(i) ==
  /\ \/ At(i, "payload") /\ Works /\ Write(i, "payload") /\ Goto(i, "fencePayload")
     \/ /\ At(i, "payload") /\ Fails /\ Goto(i, "unclaim")
        /\ \E c \in {"none", "payload"} : Write(i, c)
     \/ At(i, "fencePayload") /\ Works /\ SyncPackage(i) /\ Goto(i, "commit")
     \/ At(i, "fencePayload") /\ Fails /\ UNCHANGED packages /\ Goto(i, "unclaim")
  /\ UNCHANGED <<entries, had>>

\* The rename of the manifest makes the package discoverable.
CommitManifest(i) ==
  /\ At(i, "commit")
  /\ \/ Works /\ Write(i, "whole") /\ Goto(i, "fenceManifest")
     \/ Fails /\ (UNCHANGED packages \/ Write(i, "whole")) /\ Goto(i, "unclaim")
  /\ UNCHANGED <<entries, had>>

\* sync_no_replace_publication, once more when it failed, and then
\* verify_visible_owned_package, which may fail to read what is there.
FenceManifest(i) ==
  /\ pc[i] \in {"fenceManifest", "fenceAgain"}
  /\ \/ SyncParent /\ SyncPackage(i) /\ Works /\ Return(i, "ok")
     \/ SyncParent /\ SyncPackage(i) /\ Fails /\ Return(i, "ambiguous")
     \/ At(i, "fenceManifest") /\ Unfenced(Canon) /\ Goto(i, "fenceAgain")
     \/ At(i, "fenceAgain") /\ Unfenced(Canon) /\ Return(i, "ambiguous")
  /\ UNCHANGED had

\* Mutant: the removal of the claim is not synced.
UnclaimUnsynced(i) ==
  /\ At(i, "unclaim") /\ Works /\ Remove(Canon) /\ Return(i, "error")
  /\ UNCHANGED had

\* cleanup_uncommitted_claim
Unclaim(i) ==
  /\ \/ At(i, "unclaim") /\ Works /\ Remove(Canon) /\ Goto(i, "unclaimed")
     \/ At(i, "unclaim") /\ Fails /\ Damage(i) /\ Return(i, "ambiguous") /\ UNCHANGED entries
     \/ At(i, "unclaimed") /\ Works /\ SyncParent /\ Return(i, "error") /\ UNCHANGED packages
     \/ /\ At(i, "unclaimed") /\ Fails /\ Return(i, "ambiguous")
        /\ UNCHANGED <<entries, packages>>
  /\ UNCHANGED had

Save(i) ==
  /\ Frame
  /\ \/ Begin(i)
     \/ RestoreAside(i) \/ Reconcile(i) \/ FenceCanonical(i) \/ Sweep(i) \/ EndSweep(i)
     \/ MakeStage(i) \/ WriteStage(i) \/ Scrap(i)
     \/ FenceStage(i) \/ MoveAside(i) \/ FenceUntouched(i) \/ FenceAside(i)
     \/ Publish(i) \/ FenceReported(i) \/ FenceNew(i) \/ CleanUpAside(i)
     \/ Unpublish(i) \/ RestorePrior(i) \/ FenceRestored(i)
     \/ Claim(i) \/ MarkClaim(i) \/ WriteClaim(i) \/ CommitManifest(i)
     \/ FenceManifest(i) \/ Unclaim(i)

(***************************************************************************)
(* Crashes.                                                                *)
(***************************************************************************)
Crash == crashes < MaxCrashes /\ crashes' = crashes + 1
Running(i) == pc[i] \notin {"new", "done"}

\* The package that save i is removing.
Removing(i) == CASE pc[i] = "cleanup"             -> {names[Old(i)]}
                 [] pc[i] \in {"scrap", "unclaim"} -> {i}
                 [] pc[i] = "sweep"               -> {names[e] : e \in Hidden}
                 [] OTHER                         -> {}

\* A process is killed, perhaps within a removal; the system closes its lock.
Kill(i) ==
  /\ Running(i) /\ Crash
  /\ Return(i, "killed")
  /\ \/ UNCHANGED packages
     \/ \E j \in Removing(i) : Damage(j)
  /\ UNCHANGED <<entries, kind, had, reader, faults>>

\* Power fails: no process survives, and what was not synced may be lost.
PowerFailure ==
  /\ Crash
  /\ names' \in onDisk /\ onDisk' = {names'}
  /\ content' \in {c \in [Saves -> Contents] : \A i \in Saves : c[i] \in kept[i]}
  /\ kept' = [i \in Saves |-> {content'[i]}]
  /\ pc' = [i \in Saves |-> IF Running(i) THEN "done" ELSE pc[i]]
  /\ outcome' = [i \in Saves |-> IF Running(i) THEN "killed" ELSE outcome[i]]
  /\ lock' = 0
  /\ reader' = [reader EXCEPT !.phase = "idle"]
  /\ UNCHANGED <<kind, had, faults>>

(***************************************************************************)
(* latest_checkpoint, for this one name.                                   *)
(***************************************************************************)
\* A save of an ordinary checkpoint has returned Ok.
Published == \E i \in Saves : kind[i] = "ordinary" /\ outcome[i] = "ok"

\* read_dir: the entries as the directory holds them now.
ReadDir ==
  /\ HasReader /\ reader.phase = "idle"
  /\ reader' = [phase |-> "listed", listing |-> {e \in Names : Exists(e)},
                due |-> Published, still |-> FALSE, result |-> "none"]
  /\ UNCHANGED <<entries, packages, pc, kind, had, outcome, lock, faults, crashes>>

\* Mutant: everything hidden is skipped.
ClassifyCanonical(listing) ==
  IF Canon \notin listing THEN "none"
  ELSE IF ~Exists(Canon) \/ content[names[Canon]] \in {"none", "payload"} THEN "error"
  ELSE IF kind[names[Canon]] = "continuation" THEN "none"
  ELSE "found"

\* What a listing comes to, read now: hidden stages are skipped, an aside next
\* to a canonical package too, and a manifest that cannot be read is an error.
Classify(listing) ==
  IF \E e \in listing : e[1] = "old" /\ ~Exists(Canon) THEN "error"
  ELSE IF Canon \notin listing THEN "none"
  ELSE IF ~Exists(Canon) \/ content[names[Canon]] \in {"none", "payload"} THEN "error"
  ELSE IF kind[names[Canon]] = "continuation" THEN "none"
  ELSE "found"

ReadEntries ==
  /\ reader.phase = "listed"
  /\ reader' = [reader EXCEPT !.phase = "done", !.result = Classify(reader.listing),
                              !.still = reader.listing = {e \in Names : Exists(e)}]
  /\ UNCHANGED <<entries, packages, pc, kind, had, outcome, lock, faults, crashes>>

AllDone ==
  /\ \A i \in Saves : pc[i] = "done"
  /\ UNCHANGED vars

Next ==
  \/ \E i \in Saves : Save(i) \/ Kill(i)
  \/ PowerFailure \/ ReadDir \/ ReadEntries \/ AllDone

Spec == Init /\ [][Next]_vars

\* All saves call one writer: a run publishes its steps as ordinary checkpoints
\* (write_checkpoint), the separated loop publishes them as continuations.
OneKindInit == Init /\ \E k \in Kinds : kind = [i \in Saves |-> k]

OneKindSpec == OneKindInit /\ [][Next]_vars

(***************************************************************************)
(* Properties.                                                             *)
(***************************************************************************)
\* latest_checkpoint: "Atomic ordinary publication exposes only complete final
\* directories", whatever a power failure leaves; and a manifest under the
\* canonical name of a continuation has all of its payload.
VisibleIsWhole ==
  \A d \in onDisk :
    LET i == d[Canon] IN
    i # 0 => "hollow" \notin kept[i] /\ (kind[i] = "ordinary" => kept[i] = {"whole"})

\* Crashes alone never wedge the name: without an error of the file system, no
\* save is ambiguous, and a later one reconciles whatever a crash has left.
CrashesNeverWedge == \A i \in Saves : outcome[i] = "ambiguous" => faults > 0

(***************************************************************************)
(* The slot that a name is.                                                *)
(***************************************************************************)
\* What a recovery would find.
Shown ==
  IF Exists(Canon) THEN IF Whole(Canon) THEN names[Canon] ELSE 0
  ELSE IF \E e \in Asides : Asides = {e} /\ Whole(e)
       THEN names[CHOOSE e \in Asides : TRUE] ELSE 0

\* The last save that returned Ok, 0 when none has.
LastOk == IF \E i \in Saves : outcome[i] = "ok"
          THEN CHOOSE i \in Saves : outcome[i] = "ok" /\ \A j \in Saves : outcome[j] = "ok" => j <= i
          ELSE 0

\* Its package, and those of the saves since then that may have taken effect.
Possible ==
  {LastOk} \cup {i \in Saves : i > LastOk /\ outcome[i] # "error" /\ pc[i] # "new"}

Slot == INSTANCE CheckpointSlot WITH Packages <- Saves, shown <- Shown, possible <- Possible

\* A checkpoint name is a CheckpointSlot: what a save reported as published is
\* found by every recovery until a later save may have replaced it, what it
\* reported as failed is found by none, and nothing else is lost or resurrected.
ImplementsSlot == Slot!Spec

\* Every visible package is whole as long as the file system reports no error,
\* and with errors too once a save has returned Ok.
PublishedStaysWhole == faults = 0 \/ LastOk # 0 => VisibleIsWhole

\* A scan over entries that did not change meanwhile does not report None once
\* a save has returned Ok, whatever crashes and failed saves came in between:
\* a checkpoint that is only under a prior aside is an error, not an absence.
StillScanFindsPublished ==
  reader.phase = "done" /\ reader.due /\ reader.still => reader.result # "none"

\* latest_checkpoint: the newest complete checkpoint, or None if there is none.
\* A scan that began after a save had returned Ok does not report None.
ScanFindsPublished ==
  reader.phase = "done" /\ reader.due => reader.result # "none"
=============================================================================
