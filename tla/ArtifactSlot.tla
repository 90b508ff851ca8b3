------------------------------ MODULE ArtifactSlot ------------------------------
(***************************************************************************)
(* What the publication of an artifact promises (publish_trimul_artifact   *)
(* in src/crates/ferrl/src/artifact.rs): at most one bundle stands under   *)
(* the output name, it is never replaced, and once its publisher has been  *)
(* told of success it is never lost.                                       *)
(***************************************************************************)
CONSTANTS Publishers, NoOne

VARIABLES artifact,   \* whose bundle a reader finds
          told        \* the publishers whose call has returned success

Init == artifact = NoOne /\ told = {}

Publish(p) == artifact = NoOne /\ artifact' = p /\ UNCHANGED told
Tell(p) == artifact = p /\ told' = told \cup {p} /\ UNCHANGED artifact
Lose == artifact \notin told /\ artifact' = NoOne /\ UNCHANGED told

Next == Lose \/ \E p \in Publishers : Publish(p) \/ Tell(p)

Spec == Init /\ [][Next]_<<artifact, told>>
=============================================================================
