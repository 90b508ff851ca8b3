------------------------------ MODULE AllReduce ------------------------------
(***************************************************************************)
(* What a collective communicator promises its callers, with no mutex, no  *)
(* condition variable and no clock: the contract that the documentation of *)
(* src/crates/ferrl/src/comm.rs states for the trait Comm and the type     *)
(* LocalComm.  The n-th collective of a kind is decided at one instant,    *)
(* from the contributions that every rank has pending at that instant, and *)
(* a world in which some call has failed decides nothing any more.         *)
(***************************************************************************)
EXTENDS Integers, Sequences

CONSTANTS Ranks,    \* the ranks of the world
          Kinds,    \* the operation types: tensor and scalar reductions
          Shapes    \* what a contribution looks like (count, shape, dtype)

VARIABLES pending,  \* pending[r]: is rank r inside a collective?
          call,     \* call[r]: the kind and the shape of r's last collective
          decided,  \* decided[k]: the combined results of kind k, in order
          seen,     \* seen[r][k]: how many of them r has received
          answer,   \* answer[r]: how the last collective of r ended
          dead      \* has a collective of this world failed?

vars == <<pending, call, decided, seen, answer, dead>>

Init ==
  /\ pending = [r \in Ranks |-> FALSE]
  /\ call \in [Ranks -> [kind : Kinds, shape : Shapes]]
  /\ decided = [k \in Kinds |-> <<>>]
  /\ seen = [r \in Ranks |-> [k \in Kinds |-> 0]]
  /\ answer = [r \in Ranks |-> "none"]
  /\ dead = FALSE

Request(r) ==
  /\ ~pending[r]
  /\ pending' = [pending EXCEPT ![r] = TRUE]
  /\ \E k \in Kinds, s \in Shapes : call' = [call EXCEPT ![r] = [kind |-> k, shape |-> s]]
  /\ UNCHANGED <<decided, seen, answer, dead>>

\* A call on a dead world fails at once.
Refuse(r) ==
  /\ ~pending[r]
  /\ dead
  /\ \E k \in Kinds, s \in Shapes : call' = [call EXCEPT ![r] = [kind |-> k, shape |-> s]]
  /\ answer' = [answer EXCEPT ![r] = "failed"]
  /\ UNCHANGED <<pending, decided, seen, dead>>

Agree == \A q, r \in Ranks : call[q].shape = call[r].shape

\* The instant of the n-th reduction of kind k: every rank is inside it and
\* has received all the earlier ones.
Decide(k) ==
  /\ ~dead
  /\ \A r \in Ranks : pending[r] /\ call[r].kind = k /\ seen[r][k] = Len(decided[k])
  /\ decided' = [decided EXCEPT ![k] = Append(@, [r \in Ranks |-> call[r].shape])]
  /\ dead' = (k = "tensor" /\ ~Agree)
  /\ UNCHANGED <<pending, call, seen, answer>>

Uniform(vals) == \A q, r \in Ranks : vals[q] = vals[r]

Return(r) ==
  LET k == call[r].kind IN
  /\ pending[r]
  /\ seen[r][k] < Len(decided[k])
  /\ seen' = [seen EXCEPT ![r][k] = @ + 1]
  /\ answer' = [answer EXCEPT ![r] =
                  IF k = "scalar" \/ Uniform(decided[k][seen[r][k] + 1])
                  THEN "sum" ELSE "mismatch"]
  /\ pending' = [pending EXCEPT ![r] = FALSE]
  /\ UNCHANGED <<call, decided, dead>>

\* A rank gives up on a reduction that has not been decided: the world is dead.
Fail(r) ==
  /\ pending[r]
  /\ seen[r][call[r].kind] = Len(decided[call[r].kind])
  /\ pending' = [pending EXCEPT ![r] = FALSE]
  /\ answer' = [answer EXCEPT ![r] = "failed"]
  /\ dead' = TRUE
  /\ UNCHANGED <<call, decided, seen>>

Next == \/ \E r \in Ranks : Request(r) \/ Refuse(r) \/ Return(r) \/ Fail(r)
        \/ \E k \in Kinds : Decide(k)

Spec == Init /\ [][Next]_vars
=============================================================================
