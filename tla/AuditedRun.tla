------------------------------- MODULE AuditedRun -------------------------------
(***************************************************************************)
(* From a launch to an artifact: ranks train and leave their run           *)
(* directories (LaunchRun), and the command trimul-artifact                *)
(* (src/crates/ferrl/src/bin/ferrl.rs) audits a candidate of such a        *)
(* directory and publishes the bundle (ArtifactPublication).  A discovery  *)
(* (discovery.rs) trains by itself, in one process, and publishes what it  *)
(* has found.                                                              *)
(*                                                                         *)
(* The command reads a directory whose launch may still be going on.  It   *)
(* only reads what is never changed again, so that it is enough to have it *)
(* begin after the launches have returned.                                 *)
(***************************************************************************)
EXTENDS LaunchRun, ArtifactPublication

auditedVars == <<launchVars, artifactVars>>

AuditedInit == LaunchInit /\ ArtifactInit

Becomes(p, from, to) ==
  /\ at[p] = from /\ at' = [at EXCEPT ![p] = to]
  /\ UNCHANGED <<stage, owner, entries, anchored, durable, mishaps>>

\* load_bound_run_candidate: a launch record, its prompt and a row of its own; and
\* all that is checked before the output is claimed.
LoadCandidate(p) ==
  /\ p \notin Discoveries /\ AllReturned
  /\ \E d \in DOMAIN dir :
       /\ dir[d].launch # None /\ dir[d].prompt = dir[d].launch
       /\ dir[d].launch \in dir[d].rows
  /\ Becomes(p, "idle", "claim")

\* Discovery::run: validate_before_load wants no output yet.
Discover(p) ==
  /\ p \in Discoveries
  /\ Becomes(p, "idle", IF owner = NoOne THEN "search" ELSE "failed")

\* A world of one trains, evaluates and has every candidate verified; then there
\* is a winner to be published, or none, for whatever reason.
Search(p) == \E outcome \in {"claim", "failed"} : Becomes(p, "search", outcome)

Finished ==
  /\ AllReturned \/ \A l \in Launches : \A r \in Ranks(l) : job[l][r] = Start
  /\ \A p \in Publishers : at[p] \in Ended
  /\ UNCHANGED auditedVars

AuditedNext ==
  \/ LaunchNext /\ UNCHANGED artifactVars
  \/ /\ UNCHANGED launchVars
     /\ PublisherNext \/ \E p \in Publishers : LoadCandidate(p) \/ Discover(p) \/ Search(p)
  \/ Finished

AuditedSpec == AuditedInit /\ [][AuditedNext]_auditedVars
=============================================================================
