------------------------ MODULE MCCheckpointPublication ------------------------
(* Instances of CheckpointPublication for TLC: the writers that are called,    *)
(* and the checks of what is in a package, which TLC evaluates on the way.     *)
EXTENDS CheckpointPublication, PackageChecks

BothKinds == {"ordinary", "continuation"}
OrdinaryOnly == {"ordinary"}

\* Bound: of the failing calls and the crashes, three in all.
ThreeMishapsSpec == OneKindInit /\ [][Next /\ faults' + crashes' <= 3]_vars
=============================================================================
