----------------------------- MODULE Rendezvous -----------------------------
(***************************************************************************)
(* The in-process communicator of src/crates/ferrl/src/comm.rs: LocalComm, *)
(* its two reusable rendezvous (one for tensor, one for scalar reductions) *)
(* and the PoisonCell they share.                                          *)
(*                                                                         *)
(* Each rank is a thread.  A call of exchange() takes the mutex of its     *)
(* rendezvous, waits on the condition variable until no earlier round is   *)
(* draining, deposits, and waits again until the last arrival has combined *)
(* the contributions.  Only the poison cell is shared by the two           *)
(* rendezvous, so it is the one thing that can change under a rank that    *)
(* holds a mutex: every read of it is an action of its own.                *)
(*                                                                         *)
(* decided, used and seen are history variables: they record what the code *)
(* has done and no guard reads them.                                       *)
(***************************************************************************)
EXTENDS Integers, Sequences, FiniteSets

CONSTANTS Ranks,      \* the rank threads of one world
          NoRank,     \* the owner of a free mutex
          Shapes,     \* tensor count, shape and dtype of a contribution
          MaxCalls,   \* bound: collectives each rank starts
          MaxSpurious \* bound: spurious wakeups of a condition variable

ASSUME WorldAssumption ==
  /\ IsFiniteSet(Ranks) /\ Ranks # {}        \* assert!(world_size > 0)
  /\ NoRank \notin Ranks
  /\ Shapes # {}
  /\ MaxCalls \in Nat /\ MaxSpurious \in Nat

Kinds == {"tensor", "scalar"}
World == Cardinality(Ranks)

VARIABLES
  poison,    \* the PoisonCell of the world: "none" or the first failure
  slots,     \* slots[k][r]: what r deposited in the current round of k
  arrived, departed, outcome,    \* the other fields of Round
  lock,      \* lock[k]: the owner of the mutex of k
  broken,    \* broken[k]: did a rank panic while it owned the mutex?
  pc,        \* where in exchange() a rank is
  parked,    \* the ranks blocked in Condvar::wait_timeout
  expired,   \* expired[r]: has the deadline of r's call passed?
  call,      \* call[r]: the kind and shape of r's last call
  result,    \* result[r]: what r's last finished call returned
  started, spurious,             \* counters that the bounds cap
  decided, used, seen            \* history variables

round == <<slots, arrived, departed, outcome>>
history == <<decided, used, seen>>
counters == <<started, spurious>>
vars == <<poison, round, lock, broken, pc, parked, expired, call, result,
          counters, history>>

NoValue == [shape |-> "none", count |-> 0]
EmptySlots == [r \in Ranks |-> NoValue]
NoOutcome == [status |-> "none", vals |-> EmptySlots]

Init ==
  /\ poison = "none"
  /\ slots = [k \in Kinds |-> EmptySlots]
  /\ arrived = [k \in Kinds |-> 0]
  /\ departed = [k \in Kinds |-> 0]
  /\ outcome = [k \in Kinds |-> NoOutcome]
  /\ lock = [k \in Kinds |-> NoRank]
  /\ broken = [k \in Kinds |-> FALSE]
  /\ pc = [r \in Ranks |-> "idle"]
  /\ parked = {}
  /\ expired = [r \in Ranks |-> FALSE]
  /\ call \in [Ranks -> [kind : {"scalar"}, shape : {"f64"}]]
  /\ result = [r \in Ranks |-> [status |-> "none", vals |-> EmptySlots]]
  /\ started = [r \in Ranks |-> 0]
  /\ spurious = 0
  /\ decided = [k \in Kinds |-> <<>>]
  /\ used = [r \in Ranks |-> [k \in Kinds |-> 0]]
  /\ seen = [r \in Ranks |-> [k \in Kinds |-> 0]]

(***************************************************************************)
(* Helpers.                                                                *)
(***************************************************************************)
Kind(r) == call[r].kind
Holds(r) == pc[r] # "idle" /\ lock[Kind(r)] = r

\* PoisonCell::set keeps the first failure.
SetPoison(why) == poison' = IF poison = "none" THEN why ELSE poison

\* Mutant: only the ranks that have deposited are woken.
NotifyDepositors(k) ==
  parked' = {r \in parked : Kind(r) # k \/ pc[r] = "opening"}

\* notify_all on the condition variable of k.
NotifyAll(k) == parked' = {r \in parked : Kind(r) # k}

Unlock(k) == lock' = [lock EXCEPT ![k] = NoRank]

\* exchange() returns an error to r, dropping the guard if r owns it.
FailWith(r, status) ==
  /\ pc' = [pc EXCEPT ![r] = "idle"]
  /\ result' = [result EXCEPT ![r] = [status |-> status, vals |-> EmptySlots]]

\* The presence of an outcome is the only sign of a round that is draining.
Open(k) == outcome[k].status = "none"

\* Mutant: combine when all ranks but one have arrived.
LastInTooEarly(k) == arrived[k] + 1 >= World - 1
LastIn(k) == arrived[k] + 1 = World

\* Mutant: compare before the increment.
LastOutTooLate(k) == departed[k] = World
LastOut(k) == departed[k] + 1 = World

\* Mutant: a wait that timed out is taken for a spurious wakeup.
WaitAgain(r) ==
  /\ Unlock(Kind(r))
  /\ parked' = IF expired[r] THEN parked ELSE parked \cup {r}
  /\ UNCHANGED <<poison, pc, result>>

\* Mutant: the deadline fails one rank and leaves the world alive.
WaitOrGiveUp(r) ==
  /\ Unlock(Kind(r))
  /\ \/ /\ expired[r]
        /\ NotifyAll(Kind(r))
        /\ FailWith(r, "timeout")
     \/ /\ ~expired[r]
        /\ parked' = parked \cup {r}
        /\ UNCHANGED <<pc, result>>
  /\ UNCHANGED poison

\* One bounded wait: poison the world at the deadline, park before it.
WaitOrPoison(r) ==
  /\ Unlock(Kind(r))
  /\ \/ /\ expired[r]
        /\ SetPoison("timeout")
        /\ NotifyAll(Kind(r))
        /\ FailWith(r, "timeout")
     \/ /\ ~expired[r]
        /\ parked' = parked \cup {r}
        /\ UNCHANGED <<poison, pc, result>>

(***************************************************************************)
(* exchange().                                                             *)
(***************************************************************************)
ShapesOf(k) == IF k = "tensor" THEN Shapes ELSE {"f64"}

\* The poison check on entry, before the mutex is taken.
Enter(r) ==
  /\ pc[r] = "idle"
  /\ started[r] < MaxCalls
  /\ started' = [started EXCEPT ![r] = @ + 1]
  /\ \E k \in Kinds : \E s \in ShapesOf(k) :
       call' = [call EXCEPT ![r] = [kind |-> k, shape |-> s]]
  /\ expired' = [expired EXCEPT ![r] = FALSE]
  /\ \/ /\ poison # "none"
        /\ FailWith(r, "poisoned")
     \/ /\ poison = "none"
        /\ pc' = [pc EXCEPT ![r] = "opening"]
        /\ UNCHANGED result
  /\ UNCHANGED <<poison, round, lock, broken, parked, spurious, history>>

\* lock_round, or a condition variable wait that reacquires the mutex.
Acquire(r) ==
  /\ pc[r] \in {"opening", "waiting"}
  /\ r \notin parked
  /\ lock[Kind(r)] = NoRank
  /\ \/ /\ ~broken[Kind(r)]
        /\ lock' = [lock EXCEPT ![Kind(r)] = r]
        /\ UNCHANGED <<poison, pc, result>>
     \/ /\ broken[Kind(r)]
        /\ SetPoison("panic")
        /\ FailWith(r, "poisoned")
        /\ UNCHANGED lock
  /\ UNCHANGED <<round, broken, parked, expired, call, counters, history>>

\* Mutant: only exchange() checks the poison, before it takes the mutex.
TryOpenUnchecked(r) ==
  /\ pc[r] = "opening" /\ Holds(r)
  /\ \/ /\ Open(Kind(r))
        /\ pc' = [pc EXCEPT ![r] = "deposit"]
        /\ UNCHANGED <<poison, lock, parked, result>>
     \/ /\ ~Open(Kind(r))
        /\ WaitOrPoison(r)
  /\ UNCHANGED <<round, broken, expired, call, counters, history>>

\* One turn of the loop of wait_round_open.
TryOpen(r) ==
  /\ pc[r] = "opening" /\ Holds(r)
  /\ \/ /\ poison # "none"
        /\ FailWith(r, "poisoned")
        /\ Unlock(Kind(r))
        /\ UNCHANGED <<poison, parked>>
     \/ /\ poison = "none"
        /\ Open(Kind(r))
        /\ pc' = [pc EXCEPT ![r] = "deposit"]
        /\ UNCHANGED <<poison, lock, parked, result>>
     \/ /\ poison = "none"
        /\ ~Open(Kind(r))
        /\ WaitOrPoison(r)
  /\ UNCHANGED <<round, broken, expired, call, counters, history>>

WithDeposit(k, r) == [slots[k] EXCEPT ![r] = [shape |-> call[r].shape, count |-> used[r][k] + 1]]

\* A rank that is not the last one leaves its contribution and waits.
DepositAndWait(r) ==
  LET k == Kind(r) IN
  /\ pc[r] = "deposit"
  /\ ~LastIn(k)
  /\ slots' = [slots EXCEPT ![k] = WithDeposit(k, r)]
  /\ arrived' = [arrived EXCEPT ![k] = @ + 1]
  /\ used' = [used EXCEPT ![r][k] = @ + 1]
  /\ pc' = [pc EXCEPT ![r] = "waiting"]
  /\ UNCHANGED <<poison, departed, outcome, lock, broken, parked, expired, call,
                 result, counters, decided, seen>>

\* sum_tensor_slots compares every contribution with that of rank 0; adding tensors
\* that agree succeeds (a failure of add would be a "mismatch" too, an error for every
\* rank); the sum of the scalars cannot fail.
Combined(k, vals) ==
  [status |-> IF k = "scalar" \/ \A q, r \in Ranks : vals[q].shape = vals[r].shape
              THEN "sum" ELSE "mismatch",
   vals   |-> vals]

\* The last arrival drains the slots, combines them and publishes the outcome.
DepositAndCombine(r) ==
  LET k == Kind(r)
      out == Combined(k, WithDeposit(k, r)) IN
  /\ pc[r] = "deposit"
  /\ LastIn(k)
  /\ slots' = [slots EXCEPT ![k] = EmptySlots]
  /\ arrived' = [arrived EXCEPT ![k] = @ + 1]
  /\ outcome' = [outcome EXCEPT ![k] = out]
  /\ IF out.status = "mismatch" THEN SetPoison("mismatch") ELSE UNCHANGED poison
  /\ NotifyAll(k)
  /\ used' = [used EXCEPT ![r][k] = @ + 1]
  /\ decided' = [decided EXCEPT ![k] = Append(@, out)]
  /\ pc' = [pc EXCEPT ![r] = "leaving"]
  /\ UNCHANGED <<departed, lock, broken, expired, call, result, counters, seen>>

\* The addition of two tensors (of a library) panics inside the combine: the
\* slots are drained, the mutex is poisoned, nobody is notified.
DepositAndPanic(r) ==
  LET k == Kind(r) IN
  /\ pc[r] = "deposit"
  /\ LastIn(k)
  /\ k = "tensor" /\ World > 1
  /\ slots' = [slots EXCEPT ![k] = EmptySlots]
  /\ arrived' = [arrived EXCEPT ![k] = @ + 1]
  /\ broken' = [broken EXCEPT ![k] = TRUE]
  /\ used' = [used EXCEPT ![r][k] = @ + 1]
  /\ Unlock(k)
  /\ FailWith(r, "panic")
  /\ UNCHANGED <<poison, departed, outcome, parked, expired, call, counters,
                 decided, seen>>

\* Mutant: the poison is tested before the outcome.
AwaitOutcomePoisonFirst(r) ==
  /\ pc[r] = "waiting" /\ Holds(r)
  /\ \/ /\ poison # "none"
        /\ FailWith(r, "poisoned")
        /\ Unlock(Kind(r))
        /\ UNCHANGED <<poison, parked>>
     \/ /\ poison = "none" /\ ~Open(Kind(r))
        /\ pc' = [pc EXCEPT ![r] = "leaving"]
        /\ UNCHANGED <<poison, lock, parked, result>>
     \/ /\ poison = "none" /\ Open(Kind(r))
        /\ WaitOrPoison(r)
  /\ UNCHANGED <<round, broken, expired, call, counters, history>>

\* One turn of the loop of wait_outcome: a published outcome wins over poison,
\* and poison over the deadline.
AwaitOutcome(r) ==
  /\ pc[r] = "waiting" /\ Holds(r)
  /\ \/ /\ ~Open(Kind(r))
        /\ pc' = [pc EXCEPT ![r] = "leaving"]
        /\ UNCHANGED <<poison, lock, parked, result>>
     \/ /\ Open(Kind(r))
        /\ poison # "none"
        /\ FailWith(r, "poisoned")
        /\ Unlock(Kind(r))
        /\ UNCHANGED <<poison, parked>>
     \/ /\ Open(Kind(r))
        /\ poison = "none"
        /\ WaitOrPoison(r)
  /\ UNCHANGED <<round, broken, expired, call, counters, history>>

\* Collect the outcome; the last rank out opens the next round.
Leave(r) ==
  LET k == Kind(r)
      last == LastOut(k) IN
  /\ pc[r] = "leaving"
  /\ result' = [result EXCEPT ![r] = outcome[k]]
  /\ seen' = [seen EXCEPT ![r][k] = @ + 1]
  /\ arrived' = [arrived EXCEPT ![k] = IF last THEN 0 ELSE @]
  /\ departed' = [departed EXCEPT ![k] = IF last THEN 0 ELSE @ + 1]
  /\ outcome' = [outcome EXCEPT ![k] = IF last THEN NoOutcome ELSE @]
  /\ IF last THEN NotifyAll(k) ELSE UNCHANGED parked
  /\ Unlock(k)
  /\ pc' = [pc EXCEPT ![r] = "idle"]
  /\ UNCHANGED <<poison, slots, broken, expired, call, counters, decided, used>>

\* The deadline of a call passes; a parked rank wakes because of it.
Expire(r) ==
  /\ pc[r] # "idle" /\ ~expired[r]
  /\ expired' = [expired EXCEPT ![r] = TRUE]
  /\ parked' = parked \ {r}
  /\ UNCHANGED <<poison, round, lock, broken, pc, call, result, counters, history>>

\* Condvar::wait_timeout may return for no reason.
WakeSpuriously(r) ==
  /\ r \in parked
  /\ spurious < MaxSpurious
  /\ spurious' = spurious + 1
  /\ parked' = parked \ {r}
  /\ UNCHANGED <<poison, round, lock, broken, pc, expired, call, result, started,
                 history>>

\* Every rank has finished its program.
Finished ==
  /\ \A r \in Ranks : pc[r] = "idle" /\ started[r] = MaxCalls
  /\ UNCHANGED vars

Step(r) == \/ Acquire(r) \/ TryOpen(r) \/ DepositAndWait(r) \/ DepositAndCombine(r)
           \/ DepositAndPanic(r) \/ AwaitOutcome(r) \/ Leave(r)

Next == \/ \E r \in Ranks : Enter(r) \/ Step(r) \/ Expire(r) \/ WakeSpuriously(r)
        \/ Finished

Spec == Init /\ [][Next]_vars

\* The scheduler runs every thread that can run. Nothing obliges a rank to start
\* another collective, and a deadline need never pass.
FairSpec == Spec /\ \A r \in Ranks : WF_vars(Step(r))

\* The clock runs: the deadline of a rank that stays parked passes.
ClockRuns == \A r \in Ranks : WF_vars(Expire(r))
-----------------------------------------------------------------------------
(***************************************************************************)
(* Properties.                                                             *)
(***************************************************************************)
Contribution == [shape : Shapes \cup {"f64"}, count : Nat]
Slot == Contribution \cup {NoValue}
Outcomes == [status : {"none", "sum", "mismatch"}, vals : [Ranks -> Slot]]
Results == [status : {"none", "sum", "mismatch", "timeout", "poisoned", "panic"},
            vals : [Ranks -> Slot]]

TypeOK ==
  /\ poison \in {"none", "mismatch", "timeout", "panic"}
  /\ slots \in [Kinds -> [Ranks -> Slot]]
  /\ arrived \in [Kinds -> 0..World]
  /\ departed \in [Kinds -> 0..World - 1]
  /\ outcome \in [Kinds -> Outcomes]
  /\ lock \in [Kinds -> Ranks \cup {NoRank}]
  /\ broken \in [Kinds -> BOOLEAN]
  /\ pc \in [Ranks -> {"idle", "opening", "deposit", "waiting", "leaving"}]
  /\ parked \in SUBSET Ranks
  /\ expired \in [Ranks -> BOOLEAN]
  /\ call \in [Ranks -> [kind : Kinds, shape : Shapes \cup {"f64"}]]
  /\ result \in [Ranks -> Results]
  /\ started \in [Ranks -> Nat]
  /\ spurious \in Nat
  /\ decided \in [Kinds -> Seq(Outcomes)]
  /\ used \in [Ranks -> [Kinds -> Nat]]
  /\ seen \in [Ranks -> [Kinds -> Nat]]

\* The i-th reduction of a kind combines exactly the i-th contribution of every
\* rank: reusing the slot table never mixes two rounds, loses a deposit or
\* counts one twice (the reuse that wait_round_open guards).
OneContributionPerRound ==
  \A k \in Kinds : \A i \in 1..Len(decided[k]) : \A r \in Ranks :
    decided[k][i].vals[r].count = i

\* A combined round reaches every rank, in order: whoever has not received the
\* last one is still inside exchange() for it, whatever its deadline and the
\* poison cell say (the outcome test comes first in wait_outcome).
NobodyMissesARound ==
  \A k \in Kinds, r \in Ranks :
    \/ seen[r][k] = Len(decided[k])
    \/ /\ seen[r][k] = Len(decided[k]) - 1
       /\ pc[r] \in {"waiting", "leaving"} /\ Kind(r) = k

\* No lost wakeup: no rank sleeps on a condition whose event has happened, so
\* a deadline only ever reports a peer that did not arrive.
NoLostWakeup ==
  \A r \in parked :
    /\ pc[r] \in {"opening", "waiting"}
    /\ pc[r] = "waiting" => Open(Kind(r))
    /\ pc[r] = "opening" => ~Open(Kind(r))

\* The world has failed: the cell is set, or a mutex is poisoned and the cell
\* will be set by the next rank that takes it.
Dead == poison # "none" \/ \E k \in Kinds : broken[k]

\* A dead world is dead for every operation type: whatever a rank had already
\* checked when the failure happened, no further round is combined, also not in
\* the other rendezvous (the PoisonCell is read before, not with, the deposit).
DeadWorldDecidesNothing == [][Dead => decided' = decided]_vars

\* While the clock runs, every call comes back, with a sum or with an error,
\* however the peers behave.
EveryCallReturns == ClockRuns => \A r \in Ranks : pc[r] # "idle" ~> pc[r] = "idle"

\* A full house: every rank has entered its next collective of kind k.
FullHouse(k) ==
  \A r \in Ranks : /\ pc[r] \in {"opening", "deposit", "waiting"} /\ Kind(r) = k
                   /\ seen[r][k] = Len(decided[k])

\* A full house needs no deadline: every rank of it returns although none passes.
\* A panic inside the combine is the exception: it notifies nobody.
FullHouseNeedsNoDeadline ==
  []((\A r \in Ranks : ~expired[r]) /\ (\A k \in Kinds : ~broken[k])) =>
    \A k \in Kinds, r \in Ranks : FullHouse(k) ~> pc[r] = "idle"

\* What the comment on wait_or_poison says of the deadline: it poisons the
\* world and wakes every peer into a loud failure.
TimeoutWakesEveryPeer ==
  [][poison = "none" /\ poison' = "timeout" => parked' = {}]_vars

-----------------------------------------------------------------------------
(***************************************************************************)
(* The inductive invariant behind these properties.                        *)
(***************************************************************************)
Deposited(k) == {r \in Ranks : slots[k][r] # NoValue}
At(r, place, k) == pc[r] = place /\ Kind(r) = k
Inside(k) == {r \in Ranks : At(r, "waiting", k) \/ At(r, "leaving", k)}

\* Who may own a mutex, and that a poisoned mutex is never owned again.
LockDiscipline ==
  /\ \A r \in Ranks : pc[r] \in {"deposit", "leaving"} => lock[Kind(r)] = r
  /\ \A k \in Kinds, r \in Ranks :
       lock[k] = r => pc[r] # "idle" /\ Kind(r) = k /\ r \notin parked
  /\ \A k \in Kinds : broken[k] => lock[k] = NoRank /\ Open(k) /\ Deposited(k) = {}

\* What the counters of an open round count.
OpenRound ==
  \A k \in Kinds : Open(k) =>
    /\ departed[k] = 0
    /\ ~broken[k] => /\ arrived[k] = Cardinality(Deposited(k))
                     /\ \A r \in Ranks : At(r, "waiting", k) => r \in Deposited(k)
    /\ \A r \in Ranks : ~At(r, "leaving", k)

\* What the counters of a draining round count.
DrainingRound ==
  \A k \in Kinds : ~Open(k) =>
    /\ Deposited(k) = {}
    /\ arrived[k] = World
    /\ Inside(k) # {}
    /\ departed[k] = World - Cardinality(Inside(k))
    /\ \A r \in Ranks : ~At(r, "deposit", k)

\* A contribution that outlives the call that left it there closes the round.
Leftovers ==
  \A k \in Kinds : \A r \in Deposited(k) : ~At(r, "waiting", k) =>
    /\ poison # "none"
    /\ \A q \in Ranks : ~At(q, "deposit", k)

\* The history variables, and the contribution of a call in flight.
History ==
  \A k \in Kinds, r \in Ranks :
    /\ used[r][k] = Len(decided[k]) + (IF r \in Deposited(k) \/ broken[k] THEN 1 ELSE 0)
    /\ r \in Deposited(k) => slots[k][r].count = used[r][k]
    /\ r \in Deposited(k) /\ At(r, "waiting", k) => slots[k][r].shape = call[r].shape
    /\ seen[r][k] = Len(decided[k]) - (IF ~Open(k) /\ r \in Inside(k) THEN 1 ELSE 0)

\* The published outcome is the last round that was combined.
Latest ==
  \A k \in Kinds :
    /\ ~Open(k) => Len(decided[k]) > 0 /\ outcome[k] = decided[k][Len(decided[k])]
    /\ \A i \in 1..Len(decided[k]) : decided[k][i] = Combined(k, decided[k][i].vals)

\* Whoever killed the world is missing from every round that is still open.
DeadWorldLacksARank ==
  /\ \A k \in Kinds : broken[k] /\ poison = "none" => \E q \in Ranks : At(q, "waiting", k)
  /\ \A k \in Kinds, r \in Ranks :
       poison # "none" /\ At(r, "deposit", k) => \E q \in Ranks \ {r} : q \notin Deposited(k)

IInv == /\ TypeOK
        /\ LockDiscipline
        /\ OpenRound
        /\ DrainingRound
        /\ Leftovers
        /\ History
        /\ Latest
        /\ DeadWorldLacksARank
        /\ NoLostWakeup
        /\ OneContributionPerRound
-----------------------------------------------------------------------------
(***************************************************************************)
(* The contract it implements.                                             *)
(***************************************************************************)
ShapesOfRounds(rounds) ==
  [i \in DOMAIN rounds |-> [r \in Ranks |-> rounds[i].vals[r].shape]]

Abstract == INSTANCE AllReduce WITH
  Shapes <- Shapes \cup {"f64"},
  pending <- [r \in Ranks |-> pc[r] # "idle"],
  decided <- [k \in Kinds |-> ShapesOfRounds(decided[k])],
  answer <- [r \in Ranks |-> IF result[r].status \in {"timeout", "poisoned", "panic"}
                             THEN "failed" ELSE result[r].status],
  dead <- Dead

\* Every reduction has one instant at which all ranks are inside it with what
\* is combined, every rank gets the results in that order and at most once, and
\* an error is only ever returned by a world that decides nothing any more.
ImplementsAllReduce == Abstract!Spec
=============================================================================
