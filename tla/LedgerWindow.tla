----------------------------- MODULE LedgerWindow -----------------------------
(***************************************************************************)
(* What rollout_ledger.rs promises of one rollout window, step-k: a place  *)
(* that is written once.  A package appears whole, no other ever takes its *)
(* place, and once a publisher has reported success it is there for good.  *)
(* Before that, a power failure may take it away again.                    *)
(***************************************************************************)
EXTENDS Naturals

CONSTANTS Packages,    \* what the collectors may publish
          NoPackage    \* an empty window

VARIABLES window,      \* the package a learner finds
          settled,     \* has a publisher reported success?
          crashes      \* processes killed and power failures so far

vars == <<window, settled, crashes>>

Init == window = NoPackage /\ settled = FALSE /\ crashes = 0

Publish ==
  /\ window = NoPackage /\ ~settled
  /\ window' \in Packages
  /\ UNCHANGED <<settled, crashes>>

Settle ==
  /\ window # NoPackage
  /\ settled' = TRUE
  /\ UNCHANGED <<window, crashes>>

Crash ==
  /\ crashes' = crashes + 1
  /\ window' = window \/ (~settled /\ window' = NoPackage)
  /\ UNCHANGED settled

Next == Publish \/ Settle \/ Crash

Spec == Init /\ [][Next]_vars
=============================================================================
