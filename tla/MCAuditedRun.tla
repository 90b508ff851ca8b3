------------------------------ MODULE MCAuditedRun ------------------------------
(***************************************************************************)
(* Two launches of one second, of three and of two ranks, the larger with  *)
(* ranks that may differ in one item, at once with a rendezvous file each  *)
(* or one after the other with the same, and the larger alone with held-out*)
(* samples; then two audits with one output.                               *)
(* Or, in a behaviour without launches, two discoveries with one output.   *)
(***************************************************************************)
EXTENDS AuditedRun, AuditChecks

CONSTANTS l1, l2, p1, p2, d1, d2, file1, file2

OneOrTwoFiles == {[l \in Launches |-> l], [l \in Launches |-> l1]}
WorldSizes == [l \in Launches |-> IF l = l1 THEN 3 ELSE 2]
OneOddItem == {[l \in Launches |-> IF l = l1 THEN item ELSE None] :
                 item \in {"config", "samples", "report", None}}

\* Audits and discoveries do not share an output.
Apart ==
  \/ \A d \in Discoveries : at[d] = "idle"
  \/ \A l \in Launches : \A r \in Ranks(l) : job[l][r] = Start

\* Bound: calls fail only where the ranks of every launch hold the same.
OneTrouble == \A l \in Launches : odd[l] # None => failures = 0

ApartSpec == AuditedInit /\ [][AuditedNext /\ Apart' /\ OneTrouble']_auditedVars
=============================================================================
