--------------------------- MODULE ArtifactPublication ---------------------------
(***************************************************************************)
(* The publication of an artifact, src/crates/ferrl/src/artifact.rs: of an *)
(* audited one (publish_trimul_artifact and ArtifactPublication), or of    *)
(* the winner of a discovery (publish_simple_manifest_last).  Several      *)
(* publishers, one after the other or at once, claim one output name; the  *)
(* one that has it measures, if it is an audit, stages the bundle aside,   *)
(* links its files and at last the manifest.                               *)
(*                                                                         *)
(* A file is synced before it is linked, so that only directory entries    *)
(* can be lost: the output's own, which the sync of the parent keeps, and  *)
(* the entries in it, which the sync of the output keeps.  A stage is left *)
(* behind.  That of an audit has a random name; that of a discovery has    *)
(* the name of the output, and is in the way of the next one.              *)
(* require_owner holds at every step, as nobody removes an output whose    *)
(* publisher still runs.                                                   *)
(***************************************************************************)
EXTENDS FiniteSets, Naturals

CONSTANTS Publishers, NoOne,
          Discoveries,   \* those publishers that are discovery runs
          Payload,       \* the files of a bundle but its manifest
          Manifest,
          MaxMishaps     \* bound: calls that fail, processes and machines that die

ASSUME ArtifactAssumption ==
  /\ NoOne \notin Publishers /\ Discoveries \subseteq Publishers /\ Manifest \notin Payload /\ MaxMishaps \in Nat

VARIABLES
  at,        \* at[p]: the step of p, or how it has ended
  stage,     \* is there a stage under the name that discoveries use?
  owner,     \* who has made the output directory that is there
  entries,   \* its entries
  anchored,  \* is its own entry in the parent durable?
  durable,   \* those of its entries that are durable
  mishaps    \* a counter that MaxMishaps caps

artifactVars == <<at, stage, owner, entries, anchored, durable, mishaps>>

ArtifactInit ==
  /\ at = [p \in Publishers |-> "idle"]
  /\ stage = FALSE
  /\ owner = NoOne /\ entries = {} /\ anchored = FALSE /\ durable = {}
  /\ mishaps = 0

Well == UNCHANGED mishaps
Mishap == mishaps < MaxMishaps /\ mishaps' = mishaps + 1
Goes(p, step) == at' = [at EXCEPT ![p] = step]

\* create_dir is exclusive.  What follows it in the claim, owner marker, stage
\* and attempt record, is not read by anybody else.
Claim(p) ==
  /\ at[p] = "claim"
  /\ \/ /\ owner # NoOne /\ Well
        /\ Goes(p, "failed") /\ UNCHANGED owner
     \/ /\ owner = NoOne /\ Well
        /\ Goes(p, IF p \in Discoveries THEN "stage" ELSE "anchor") /\ owner' = p
     \/ /\ owner = NoOne /\ Mishap
        /\ Goes(p, "failed") /\ owner' \in {NoOne, p}
  /\ UNCHANGED <<stage, entries, anchored, durable>>

\* create_private_directory: the output is taken already when the stage turns out
\* to be there.
MakeStage(p) ==
  /\ at[p] = "stage"
  /\ \/ /\ stage /\ Well
        /\ Goes(p, "failed") /\ UNCHANGED stage
     \/ /\ ~stage /\ Well
        /\ Goes(p, "anchor") /\ stage' = TRUE
     \/ /\ ~stage /\ Mishap
        /\ Goes(p, "failed") /\ stage' \in BOOLEAN
  /\ UNCHANGED <<owner, entries, anchored, durable>>

\* The claim ends with the syncs of output and parent, or of the parent alone,
\* before anything is measured.
Anchor(p) ==
  /\ at[p] = "anchor"
  /\ \/ Well /\ Goes(p, "measure") /\ anchored' = TRUE
     \/ Mishap /\ Goes(p, "failed") /\ UNCHANGED anchored
  /\ UNCHANGED <<stage, owner, entries, durable>>

\* The paired audit, each execution of it staged, then report and manifest; a
\* rejected candidate is published as well.  A discovery has only to write.
Measure(p) ==
  /\ at[p] = "measure"
  /\ \/ Well /\ Goes(p, "link")
     \/ Mishap /\ Goes(p, "failed")
  /\ UNCHANGED <<stage, owner, entries, anchored, durable>>

\* link_staged_manifest_last: the payload, one link at a time.
Link(p) ==
  /\ at[p] = "link"
  /\ \/ /\ Payload \subseteq entries /\ Well
        /\ Goes(p, "fence") /\ UNCHANGED entries
     \/ /\ Well /\ UNCHANGED at
        /\ \E f \in Payload \ entries : entries' = entries \cup {f}
     \/ /\ ~(Payload \subseteq entries) /\ Mishap
        /\ Goes(p, "failed") /\ UNCHANGED entries
  /\ UNCHANGED <<stage, owner, anchored, durable>>

\* Mutant: one sync at the end is enough.
FenceLater(p) ==
  /\ at[p] = "fence" /\ Well /\ Goes(p, "commit")
  /\ UNCHANGED <<stage, owner, entries, anchored, durable>>

\* Its directories are synced, and the output, and the parent.
Fence(p) ==
  /\ at[p] = "fence"
  /\ \/ Well /\ Goes(p, "commit") /\ durable' = entries /\ anchored' = TRUE
     \/ /\ Mishap /\ Goes(p, "failed")
        /\ durable' \in {durable, entries} /\ UNCHANGED anchored
  /\ UNCHANGED <<stage, owner, entries>>

Commit(p) ==
  /\ at[p] = "commit"
  /\ \/ Well /\ Goes(p, "settle") /\ entries' = entries \cup {Manifest}
     \/ Mishap /\ Goes(p, "failed") /\ UNCHANGED entries
  /\ UNCHANGED <<stage, owner, anchored, durable>>

\* After the link a failure says nothing: PublicationIndeterminate.
Settle(p) ==
  /\ at[p] = "settle"
  /\ \/ Well /\ Goes(p, "published") /\ durable' = entries
     \/ Mishap /\ Goes(p, "indeterminate") /\ durable' \in {durable, entries}
  /\ UNCHANGED <<stage, owner, entries, anchored>>

Ended == {"idle", "failed", "published", "indeterminate", "dead"}

PublisherDies(p) ==
  /\ at[p] \notin Ended /\ Mishap /\ Goes(p, "dead")
  /\ UNCHANGED <<stage, owner, entries, anchored, durable>>

\* The machine stops: of what is not durable, anything may be gone.
PowerFails ==
  /\ \E p \in Publishers : at[p] # "idle"
  /\ Mishap
  /\ at' = [p \in Publishers |-> IF at[p] \in Ended THEN at[p] ELSE "dead"]
  /\ \/ /\ \E lost \in SUBSET (entries \ durable) : entries' = entries \ lost
        /\ durable' = entries' /\ anchored' = (owner # NoOne) /\ UNCHANGED owner
     \/ /\ owner # NoOne /\ ~anchored
        /\ owner' = NoOne /\ entries' = {} /\ durable' = {} /\ UNCHANGED anchored
  /\ \/ UNCHANGED stage
     \/ owner \in Discoveries /\ ~anchored /\ stage' = FALSE

\* An operator removes an output without manifest that nobody works on, with the
\* stage of it or without.
Clear ==
  /\ owner # NoOne /\ at[owner] \in Ended /\ Manifest \notin entries /\ Well
  /\ owner' = NoOne /\ entries' = {} /\ anchored' = FALSE /\ durable' = {}
  /\ stage' \in {stage, FALSE} /\ UNCHANGED at

PublisherNext ==
  \/ \E p \in Publishers :
       \/ Claim(p) \/ MakeStage(p) \/ Anchor(p) \/ Measure(p) \/ Link(p) \/ Fence(p) \/ Commit(p) \/ Settle(p)
       \/ PublisherDies(p)
  \/ PowerFails \/ Clear

(***************************************************************************)
(* Properties.                                                             *)
(***************************************************************************)
\* A manifest without all of its bundle is nobody's artifact, which ArtifactSlot
\* never has.
Slot == INSTANCE ArtifactSlot WITH
  artifact <- IF Manifest \notin entries THEN NoOne
              ELSE IF Payload \subseteq entries THEN owner ELSE Manifest,
  told <- {p \in Publishers : at[p] = "published"}

\* Whoever finds a manifest finds the whole bundle of one publisher, now and
\* later; only a publisher that has not been told of success may see its bundle
\* disappear, and with a power failure.
ImplementsArtifact == Slot!Spec
=============================================================================
