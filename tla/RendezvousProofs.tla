-------------------------- MODULE RendezvousProofs --------------------------
(***************************************************************************)
(* Proofs about the rendezvous of src/crates/ferrl/src/comm.rs, for every  *)
(* set of ranks, every set of shapes and every bound.                      *)
(***************************************************************************)
EXTENDS Rendezvous, FiniteSetTheorems, TLAPS

\* A world has at least one rank, and a set of ranks as large as the world is
\* the world.
LEMMA WorldSize ==
  /\ World \in Nat \ {0}
  /\ \A S \in SUBSET Ranks :
       /\ IsFiniteSet(S)
       /\ Cardinality(S) \in 0..World
       /\ Cardinality(S) = World => S = Ranks
       /\ Cardinality(S) = 0 => S = {}
       /\ S = {} => Cardinality(S) = 0
PROOF
  <1>1. IsFiniteSet(Ranks) /\ Ranks # {}
    BY WorldAssumption
  <1>2. World \in Nat \ {0}
    BY <1>1, FS_CardinalityType, FS_EmptySet DEF World
  <1>3. ASSUME NEW S \in SUBSET Ranks
        PROVE  /\ IsFiniteSet(S)
               /\ Cardinality(S) \in 0..World
               /\ Cardinality(S) = World => S = Ranks
               /\ Cardinality(S) = 0 => S = {}
               /\ S = {} => Cardinality(S) = 0
    <2>1. IsFiniteSet(S) /\ Cardinality(S) <= World /\ (World = Cardinality(S) => Ranks = S)
      BY <1>1, FS_Subset DEF World
    <2>2. Cardinality(S) \in Nat
      BY <2>1, FS_CardinalityType
    <2> QED
      BY <1>2, <2>1, <2>2, FS_EmptySet
  <1> QED
    BY <1>2, <1>3

LEMMA InitIInv == Init => IInv
PROOF
  <1> SUFFICES ASSUME Init PROVE IInv
    OBVIOUS
  <1>1. TypeOK
    <2>1. World \in Nat \ {0}
      BY WorldSize
    <2> QED
      BY <2>1, WorldAssumption DEF Init, TypeOK, Kinds, EmptySlots, NoOutcome, NoValue, Outcomes,
         Results, Slot, Contribution
  <1>2. LockDiscipline
    BY WorldAssumption DEF Init, LockDiscipline, Kind, Open, NoOutcome, Deposited
  <1>3. \A k \in Kinds : Deposited(k) = {}
    BY DEF Init, Deposited, EmptySlots
  <1>4. OpenRound
    BY <1>3, FS_EmptySet DEF Init, OpenRound, Open, NoOutcome, At, Deposited
  <1>5. DrainingRound
    BY DEF Init, DrainingRound, Open, NoOutcome
  <1>6. Leftovers
    BY <1>3 DEF Leftovers
  <1>7. History
    BY <1>3 DEF Init, History, Open, NoOutcome, Inside, At
  <1>8. Latest
    BY DEF Init, Latest, Open, NoOutcome
  <1>9. DeadWorldLacksARank
    BY DEF Init, DeadWorldLacksARank
  <1>10. NoLostWakeup /\ OneContributionPerRound
    BY DEF Init, NoLostWakeup, OneContributionPerRound
  <1> QED
    BY <1>1, <1>2, <1>4, <1>5, <1>6, <1>7, <1>8, <1>9, <1>10 DEF IInv

\* A call that fails returns a typed result.
LEMMA FailWithType ==
  ASSUME TypeOK, NEW r \in Ranks,
         NEW status \in {"timeout", "poisoned", "panic"}, FailWith(r, status)
  PROVE  /\ pc' \in [Ranks -> {"idle", "opening", "deposit", "waiting", "leaving"}]
         /\ result' \in [Ranks -> Results]
         /\ pc'[r] = "idle"
         /\ \A q \in Ranks \ {r} : pc'[q] = pc[q]
PROOF
  <1>1. [status |-> status, vals |-> EmptySlots] \in Results
    BY DEF Results, EmptySlots, Slot
  <1> QED
    BY <1>1 DEF FailWith, TypeOK

\* Steps that leave every round, and its history, alone: they move one rank r.
QuietStep(r) ==
  /\ UNCHANGED <<round, broken, history>>
  /\ \A q \in Ranks \ {r} : pc'[q] = pc[q] /\ call'[q] = call[q]
  /\ \/ pc'[r] = pc[r] /\ call'[r] = call[r] /\ poison' = poison
     \/ pc[r] = "idle" /\ pc'[r] \in {"idle", "opening"} /\ poison' = poison
     \/ /\ pc[r] = "opening" /\ pc'[r] = "deposit" /\ call'[r] = call[r]
        /\ Open(Kind(r)) /\ poison' = "none" /\ poison = "none"
     \/ /\ pc[r] = "waiting" /\ pc'[r] = "leaving" /\ call'[r] = call[r]
        /\ ~Open(Kind(r)) /\ poison' = poison
     \/ /\ pc[r] \in {"opening", "waiting"} /\ pc'[r] = "idle" /\ call'[r] = call[r]
        /\ pc[r] = "waiting" => Open(Kind(r))
        /\ poison' # "none"
        /\ \A q \in Ranks : ~At(q, "deposit", Kind(r))

LEMMA QuietStepKeeps ==
  ASSUME IInv, NEW r \in Ranks, QuietStep(r)
  PROVE  /\ OpenRound' /\ DrainingRound' /\ Leftovers' /\ History' /\ Latest'
         /\ DeadWorldLacksARank' /\ OneContributionPerRound'
PROOF
  <1>1. \A k \in Kinds : Deposited(k)' = Deposited(k) /\ Open(k)' = Open(k)
    BY DEF QuietStep, round, Deposited, Open
  <1>2. Kind(r) \in Kinds
    BY DEF IInv, TypeOK, Kind
  <1>3. \A k \in Kinds : ~Open(k) => Inside(k)' = Inside(k)
    BY DEF QuietStep, Inside, At, Kind
  <1>4. OpenRound'
    BY <1>1 DEF IInv, OpenRound, QuietStep, At, Kind, round
  <1>5. DrainingRound'
    BY <1>1, <1>2, <1>3 DEF IInv, DrainingRound, QuietStep, At, Kind, round
  <1>6. Leftovers'
    <2> SUFFICES ASSUME NEW k \in Kinds, NEW q \in Deposited(k), ~At(q, "waiting", k)'
                 PROVE  poison' # "none" /\ \A p \in Ranks : ~At(p, "deposit", k)'
      BY <1>1 DEF Leftovers
    <2>1. q \in Ranks
      BY DEF Deposited
    <2>2. CASE At(q, "waiting", k)
      BY <2>1, <2>2 DEF IInv, DrainingRound, QuietStep, At, Kind
    <2>3. CASE ~At(q, "waiting", k)
      BY <2>1, <2>3 DEF IInv, Leftovers, QuietStep, At, Kind
    <2> QED
      BY <2>2, <2>3
  <1>7. History'
    <2> SUFFICES ASSUME NEW k \in Kinds, NEW q \in Ranks
                 PROVE  /\ used[q][k] = Len(decided[k])
                             + (IF q \in Deposited(k) \/ broken[k] THEN 1 ELSE 0)
                        /\ q \in Deposited(k) => slots[k][q].count = used[q][k]
                        /\ q \in Deposited(k) /\ At(q, "waiting", k)'
                             => slots[k][q].shape = call[q].shape'
                        /\ seen[q][k] = Len(decided[k])
                             - (IF ~Open(k) /\ q \in Inside(k) THEN 1 ELSE 0)
      BY <1>1, <1>3 DEF QuietStep, History, round, history
    <2>1. At(q, "waiting", k)' => At(q, "waiting", k) /\ call'[q] = call[q]
      BY DEF QuietStep, At, Kind
    <2> QED
      BY <2>1 DEF IInv, History
  <1>8. Latest'
    BY <1>1 DEF IInv, Latest, QuietStep, Combined, round, history
  <1>9. DeadWorldLacksARank'
    BY <1>1, <1>2 DEF IInv, DeadWorldLacksARank, LockDiscipline, Leftovers, QuietStep, At, Kind
  <1>10. OneContributionPerRound'
    BY DEF IInv, OneContributionPerRound, QuietStep, history
  <1> QED
    BY <1>4, <1>5, <1>6, <1>7, <1>8, <1>9, <1>10

\* A call starts, or is refused by a dead world.
LEMMA EnterKeepsIInv ==
  ASSUME IInv, NEW r \in Ranks, Enter(r) PROVE IInv'
PROOF
  <1>1. TypeOK /\ LockDiscipline /\ NoLostWakeup
    BY DEF IInv
  <1>2. /\ pc' \in [Ranks -> {"idle", "opening", "deposit", "waiting", "leaving"}]
        /\ result' \in [Ranks -> Results]
        /\ pc'[r] \in {"idle", "opening"}
        /\ \A q \in Ranks \ {r} : pc'[q] = pc[q]
    <2>1. CASE poison # "none"
      BY <1>1, <2>1, FailWithType DEF Enter
    <2>2. CASE poison = "none"
      BY <1>1, <2>2 DEF Enter, TypeOK
    <2> QED
      BY <2>1, <2>2
  <1>3. /\ call' \in [Ranks -> [kind : Kinds, shape : Shapes \cup {"f64"}]]
        /\ \A q \in Ranks \ {r} : call'[q] = call[q]
    BY <1>1 DEF Enter, TypeOK, ShapesOf
  <1>4. TypeOK'
    <2>1. expired' \in [Ranks -> BOOLEAN] /\ started' \in [Ranks -> Nat]
      BY <1>1 DEF Enter, TypeOK
    <2> QED
      BY <1>1, <1>2, <1>3, <2>1 DEF Enter, TypeOK, round, history
  <1>5. LockDiscipline'
    BY <1>1, <1>2, <1>3 DEF Enter, LockDiscipline, Kind, Open, Deposited, round
  <1>6. NoLostWakeup'
    <2>1. \A q \in parked : q \in Ranks \ {r}
      BY <1>1 DEF Enter, NoLostWakeup, TypeOK
    <2> QED
      BY <1>1, <1>2, <1>3, <2>1 DEF Enter, NoLostWakeup, Kind, Open, round
  <1>7. QuietStep(r)
    BY <1>1, <1>2, <1>3 DEF Enter, QuietStep
  <1> QED
    BY <1>4, <1>5, <1>6, <1>7, QuietStepKeeps DEF IInv

\* A mutex changes owner, or a poisoned mutex kills the world.
LEMMA AcquireKeepsIInv ==
  ASSUME IInv, NEW r \in Ranks, Acquire(r) PROVE IInv'
PROOF
  <1>1. TypeOK /\ LockDiscipline /\ NoLostWakeup
    BY DEF IInv
  <1>2. Kind(r) \in Kinds
    BY <1>1 DEF TypeOK, Kind
  <1>3. UNCHANGED <<round, broken, parked, expired, call, started, spurious, history>>
    BY DEF Acquire, counters
  <1>4. CASE ~broken[Kind(r)]
    <2>1. lock' = [lock EXCEPT ![Kind(r)] = r] /\ UNCHANGED <<poison, pc, result>>
      BY <1>4 DEF Acquire
    <2>2. TypeOK'
      BY <1>1, <1>2, <1>3, <2>1 DEF TypeOK, round, history
    <2>3. LockDiscipline'
      <3>1. lock[Kind(r)] = NoRank /\ r \notin parked /\ pc[r] # "idle" /\ call' = call
        BY DEF Acquire
      <3>2. \A q \in Ranks : q # NoRank /\ (pc[q] \in {"deposit", "leaving"} => Kind(q) # Kind(r))
        BY <1>1, <3>1, WorldAssumption DEF LockDiscipline
      <3>3. /\ lock'[Kind(r)] = r
            /\ \A k \in Kinds \ {Kind(r)} : lock'[k] = lock[k]
        BY <1>1, <1>2, <2>1 DEF TypeOK
      <3>4. \A q \in Ranks : Kind(q) \in Kinds /\ Kind(q)' = Kind(q)
        BY <1>1, <3>1 DEF TypeOK, Kind
      <3>5. \A q \in Ranks : pc'[q] \in {"deposit", "leaving"} => lock'[Kind(q)] = q
        BY <1>1, <2>1, <3>2, <3>3, <3>4 DEF LockDiscipline
      <3>6. \A k \in Kinds : \A q \in Ranks :
              lock'[k] = q => pc'[q] # "idle" /\ Kind(q)' = k /\ q \notin parked'
        BY <1>1, <1>3, <2>1, <3>1, <3>3, <3>4 DEF LockDiscipline
      <3>7. \A k \in Kinds : broken'[k] => lock'[k] = NoRank /\ Open(k)' /\ Deposited(k)' = {}
        BY <1>1, <1>3, <1>4, <3>3 DEF LockDiscipline, Open, Deposited, round
      <3> QED
        BY <3>4, <3>5, <3>6, <3>7 DEF LockDiscipline
    <2>4. NoLostWakeup'
      BY <1>1, <1>3, <2>1 DEF NoLostWakeup, Kind, Open, round
    <2>5. QuietStep(r)
      BY <1>3, <2>1 DEF QuietStep
    <2> QED
      BY <2>2, <2>3, <2>4, <2>5, QuietStepKeeps DEF IInv
  <1>5. CASE broken[Kind(r)]
    <2>1. SetPoison("panic") /\ FailWith(r, "poisoned") /\ UNCHANGED lock
      BY <1>5 DEF Acquire
    <2>2. /\ pc' \in [Ranks -> {"idle", "opening", "deposit", "waiting", "leaving"}]
          /\ result' \in [Ranks -> Results]
          /\ pc'[r] = "idle"
          /\ \A q \in Ranks \ {r} : pc'[q] = pc[q]
      BY <1>1, <2>1, FailWithType
    <2>3. poison' \in {"mismatch", "timeout", "panic"}
      BY <1>1, <2>1 DEF SetPoison, TypeOK
    <2>4. TypeOK'
      BY <1>1, <1>3, <2>1, <2>2, <2>3 DEF TypeOK, round, history
    <2>5. LockDiscipline'
      BY <1>1, <1>2, <1>3, <2>1, <2>2, WorldAssumption
         DEF Acquire, LockDiscipline, Kind, Open, Deposited, round
    <2>6. NoLostWakeup'
      BY <1>1, <1>3, <2>2 DEF Acquire, TypeOK, NoLostWakeup, Kind, Open, round
    <2>7. QuietStep(r)
      BY <1>1, <1>2, <1>3, <1>5, <2>2, <2>3, WorldAssumption
         DEF Acquire, QuietStep, LockDiscipline, At, Kind
    <2> QED
      BY <2>4, <2>5, <2>6, <2>7, QuietStepKeeps DEF IInv
  <1> QED
    BY <1>4, <1>5

\* Waiting with the mutex: the deadline fails the call and kills the world, or
\* the rank parks.
LEMMA WaitOrPoisonMoves ==
  ASSUME IInv, NEW r \in Ranks, WaitOrPoison(r), lock[Kind(r)] = r,
         pc[r] \in {"opening", "waiting"}, UNCHANGED <<round, broken, expired, call, counters, history>>,
         pc[r] = "waiting" <=> Open(Kind(r))
  PROVE  IInv'
PROOF
  <1>1. TypeOK /\ LockDiscipline /\ NoLostWakeup
    BY DEF IInv
  <1>2. Kind(r) \in Kinds /\ r # NoRank
    BY <1>1, WorldAssumption DEF TypeOK, Kind
  <1>3. /\ lock' \in [Kinds -> Ranks \cup {NoRank}]
        /\ lock'[Kind(r)] = NoRank
        /\ \A k \in Kinds \ {Kind(r)} : lock'[k] = lock[k]
    BY <1>1, <1>2 DEF WaitOrPoison, Unlock, TypeOK
  <1>4. \A q \in Ranks \ {r} : pc[q] \in {"deposit", "leaving"} => Kind(q) # Kind(r)
    BY <1>1, <1>2 DEF LockDiscipline
  <1>5. \A q \in Ranks : Kind(q) \in Kinds /\ Kind(q)' = Kind(q)
    BY <1>1 DEF TypeOK, Kind
  <1>6. /\ \A k \in Kinds : (Open(k)' <=> Open(k)) /\ Deposited(k)' = Deposited(k)
        /\ broken' = broken
    BY DEF Open, Deposited, round
  <1>7. CASE expired[r]
    <2>1. SetPoison("timeout") /\ NotifyAll(Kind(r)) /\ FailWith(r, "timeout")
      BY <1>7 DEF WaitOrPoison
    <2>2. /\ pc' \in [Ranks -> {"idle", "opening", "deposit", "waiting", "leaving"}]
          /\ result' \in [Ranks -> Results]
          /\ pc'[r] = "idle"
          /\ \A q \in Ranks \ {r} : pc'[q] = pc[q]
      BY <1>1, <2>1, FailWithType
    <2>3. poison' \in {"mismatch", "timeout", "panic"} /\ parked' \in SUBSET parked
      BY <1>1, <2>1 DEF SetPoison, NotifyAll, TypeOK
    <2>4. TypeOK'
      BY <1>1, <1>3, <2>2, <2>3 DEF TypeOK, round, counters, history
    <2>5. LockDiscipline'
      BY <1>1, <1>2, <1>3, <1>4, <1>5, <1>6, <2>2, <2>3, WorldAssumption DEF LockDiscipline
    <2>6. NoLostWakeup'
      <3>1. \A q \in parked' : q \in Ranks \ {r}
        BY <1>1, <1>2, <2>3 DEF LockDiscipline, TypeOK
      <3> QED
        BY <1>1, <1>5, <1>6, <2>2, <2>3, <3>1 DEF NoLostWakeup
    <2>7. QuietStep(r)
      BY <1>2, <1>4, <2>2, <2>3 DEF QuietStep, At
    <2> QED
      BY <2>4, <2>5, <2>6, <2>7, QuietStepKeeps DEF IInv
  <1>8. CASE ~expired[r]
    <2>1. parked' = parked \cup {r} /\ UNCHANGED <<poison, pc, result>>
      BY <1>8 DEF WaitOrPoison
    <2>2. TypeOK'
      BY <1>1, <1>3, <2>1 DEF TypeOK, round, counters, history
    <2>3. LockDiscipline'
      BY <1>1, <1>2, <1>3, <1>4, <1>5, <1>6, <2>1, WorldAssumption DEF LockDiscipline
    <2>4. NoLostWakeup'
      <3> SUFFICES ASSUME NEW q \in parked'
                   PROVE  /\ pc'[q] \in {"opening", "waiting"}
                          /\ pc'[q] = "waiting" => outcome'[call'[q].kind].status = "none"
                          /\ pc'[q] = "opening" => outcome'[call'[q].kind].status # "none"
        BY DEF NoLostWakeup, Open, Kind
      <3>1. q \in parked \/ q = r
        BY <2>1
      <3> QED
        BY <1>1, <2>1, <3>1 DEF NoLostWakeup, Open, Kind, round
    <2>5. QuietStep(r)
      BY <2>1 DEF QuietStep
    <2> QED
      BY <2>2, <2>3, <2>4, <2>5, QuietStepKeeps DEF IInv
  <1> QED
    BY <1>7, <1>8

\* Leaving the loop of a wait with the mutex in hand: with an error that gives
\* the mutex back, or onwards with the mutex.
LEMMA FailHolding ==
  ASSUME IInv, NEW r \in Ranks, FailWith(r, "poisoned"), Unlock(Kind(r)), lock[Kind(r)] = r,
         pc[r] \in {"opening", "waiting"}, pc[r] = "waiting" => Open(Kind(r)), poison # "none",
         UNCHANGED <<poison, parked, round, broken, expired, call, counters, history>>
  PROVE  IInv'
PROOF
  <1>1. TypeOK /\ LockDiscipline /\ NoLostWakeup
    BY DEF IInv
  <1>2. Kind(r) \in Kinds /\ r # NoRank
    BY <1>1, WorldAssumption DEF TypeOK, Kind
  <1>3. /\ lock' \in [Kinds -> Ranks \cup {NoRank}]
        /\ lock'[Kind(r)] = NoRank
        /\ \A k \in Kinds \ {Kind(r)} : lock'[k] = lock[k]
    BY <1>1, <1>2 DEF Unlock, TypeOK
  <1>4. \A q \in Ranks \ {r} : pc[q] \in {"deposit", "leaving"} => Kind(q) # Kind(r)
    BY <1>1, <1>2 DEF LockDiscipline
  <1>5. \A q \in Ranks : Kind(q) \in Kinds /\ Kind(q)' = Kind(q)
    BY <1>1 DEF TypeOK, Kind
  <1>6. /\ \A k \in Kinds : (Open(k)' <=> Open(k)) /\ Deposited(k)' = Deposited(k)
        /\ broken' = broken
    BY DEF Open, Deposited, round
  <1>7. /\ pc' \in [Ranks -> {"idle", "opening", "deposit", "waiting", "leaving"}]
        /\ result' \in [Ranks -> Results]
        /\ pc'[r] = "idle"
        /\ \A q \in Ranks \ {r} : pc'[q] = pc[q]
    BY <1>1, FailWithType
  <1>8. TypeOK'
    BY <1>1, <1>3, <1>7 DEF TypeOK, round, counters, history
  <1>9. LockDiscipline'
    BY <1>1, <1>2, <1>3, <1>4, <1>5, <1>6, <1>7, WorldAssumption DEF LockDiscipline
  <1>10. NoLostWakeup'
    <2>1. \A q \in parked' : q \in Ranks \ {r}
      BY <1>1, <1>2 DEF LockDiscipline, TypeOK
    <2> QED
      BY <1>1, <1>5, <1>6, <1>7, <2>1 DEF NoLostWakeup
  <1>11. QuietStep(r)
    BY <1>2, <1>4, <1>7 DEF QuietStep, At
  <1> QED
    BY <1>8, <1>9, <1>10, <1>11, QuietStepKeeps DEF IInv

LEMMA GoOnHolding ==
  ASSUME IInv, NEW r \in Ranks, lock[Kind(r)] = r, NEW place,
         \/ pc[r] = "opening" /\ place = "deposit" /\ Open(Kind(r)) /\ poison = "none"
         \/ pc[r] = "waiting" /\ place = "leaving" /\ ~Open(Kind(r)),
         pc' = [pc EXCEPT ![r] = place],
         UNCHANGED <<poison, lock, parked, result, round, broken, expired, call, counters, history>>
  PROVE  IInv'
PROOF
  <1>1. TypeOK /\ LockDiscipline /\ NoLostWakeup
    BY DEF IInv
  <1>2. pc'[r] = place /\ \A q \in Ranks \ {r} : pc'[q] = pc[q]
    BY <1>1 DEF TypeOK
  <1>3. TypeOK'
    BY <1>1 DEF TypeOK, round, counters, history
  <1>4. LockDiscipline'
    BY <1>1, <1>2 DEF LockDiscipline, Kind, Open, Deposited, round
  <1>5. NoLostWakeup'
    <2>1. \A q \in parked' : q \in Ranks \ {r}
      BY <1>1 DEF LockDiscipline, TypeOK, Kind
    <2> QED
      BY <1>1, <1>2, <2>1 DEF NoLostWakeup, Kind, Open, round
  <1>6. QuietStep(r)
    BY <1>2 DEF QuietStep
  <1> QED
    BY <1>3, <1>4, <1>5, <1>6, QuietStepKeeps DEF IInv

LEMMA TryOpenKeepsIInv ==
  ASSUME IInv, NEW r \in Ranks, TryOpen(r) PROVE IInv'
PROOF
  <1>1. CASE poison # "none"
    BY <1>1, FailHolding DEF TryOpen, Holds
  <1>2. CASE poison = "none" /\ Open(Kind(r))
    BY <1>2, GoOnHolding DEF TryOpen, Holds
  <1>3. CASE poison = "none" /\ ~Open(Kind(r))
    BY <1>3, WaitOrPoisonMoves DEF TryOpen, Holds
  <1> QED
    BY <1>1, <1>2, <1>3

LEMMA AwaitOutcomeKeepsIInv ==
  ASSUME IInv, NEW r \in Ranks, AwaitOutcome(r) PROVE IInv'
PROOF
  <1>1. CASE ~Open(Kind(r))
    BY <1>1, GoOnHolding DEF AwaitOutcome, Holds
  <1>2. CASE Open(Kind(r)) /\ poison # "none"
    BY <1>2, FailHolding DEF AwaitOutcome, Holds
  <1>3. CASE Open(Kind(r)) /\ poison = "none"
    BY <1>3, WaitOrPoisonMoves DEF AwaitOutcome, Holds
  <1> QED
    BY <1>1, <1>2, <1>3

\* A deadline passes, or a parked rank wakes for no reason.
LEMMA WakeKeepsIInv ==
  ASSUME IInv, NEW r \in Ranks, Expire(r) \/ WakeSpuriously(r) PROVE IInv'
PROOF
  <1>1. TypeOK /\ LockDiscipline /\ NoLostWakeup
    BY DEF IInv
  <1>2. UNCHANGED <<poison, round, lock, broken, pc, call, result, history>> /\ parked' \in SUBSET parked
    BY DEF Expire, WakeSpuriously
  <1>3. TypeOK'
    <2>1. expired' \in [Ranks -> BOOLEAN] /\ spurious' \in Nat /\ started' = started
      <3>1. CASE Expire(r)
        BY <1>1, <3>1 DEF TypeOK, Expire, counters
      <3>2. CASE WakeSpuriously(r)
        BY <1>1, <3>2 DEF TypeOK, WakeSpuriously
      <3> QED
        BY <3>1, <3>2
    <2> QED
      BY <1>1, <1>2, <2>1 DEF TypeOK, round, history
  <1>4. LockDiscipline' /\ NoLostWakeup'
    BY <1>1, <1>2 DEF LockDiscipline, NoLostWakeup, Kind, Open, Deposited, round
  <1>5. QuietStep(r)
    BY <1>2 DEF QuietStep
  <1> QED
    BY <1>3, <1>4, <1>5, QuietStepKeeps DEF IInv

\* A contribution is deposited and the rank waits for the others.
LEMMA DepositAndWaitKeepsIInv ==
  ASSUME IInv, NEW r \in Ranks, DepositAndWait(r) PROVE IInv'
PROOF
  <1>1. TypeOK /\ LockDiscipline /\ NoLostWakeup
    BY DEF IInv
  <1>0. PICK k \in Kinds : k = Kind(r)
    BY <1>1 DEF TypeOK, Kind
  <1>2. /\ r # NoRank /\ lock[k] = r /\ ~broken[k] /\ Open(k)
        /\ pc[r] = "deposit" /\ At(r, "deposit", k) /\ call' = call
        /\ (\A q \in Ranks : Kind(q)' = Kind(q)) /\ Kind(r) = k /\ outcome' = outcome /\ lock' = lock
        /\ \A q \in Ranks \ {r} : ~(pc[q] \in {"deposit", "leaving"} /\ Kind(q) = k)
    <2>1. pc[r] = "deposit" /\ call' = call /\ outcome' = outcome /\ lock' = lock
      BY DEF DepositAndWait
    <2>2. r # NoRank /\ lock[k] = r /\ Kind(r) = k /\ At(r, "deposit", k)
      BY <1>0, <1>1, <2>1, WorldAssumption DEF LockDiscipline, At
    <2>3. ~broken[k]
      BY <1>1, <2>2 DEF LockDiscipline
    <2>4. Open(k)
      BY <2>2 DEF IInv, DrainingRound
    <2>5. \A q \in Ranks \ {r} : ~(pc[q] \in {"deposit", "leaving"} /\ Kind(q) = k)
      BY <1>1, <2>2 DEF LockDiscipline
    <2>6. \A q \in Ranks : Kind(q)' = Kind(q)
      BY <2>1 DEF Kind
    <2> QED
      BY <2>1, <2>2, <2>3, <2>4, <2>5, <2>6
  <1>3. r \notin Deposited(k) /\ arrived[k] = Cardinality(Deposited(k))
    BY <1>2 DEF IInv, OpenRound, Leftovers, At
  <1>4. /\ slots' = [slots EXCEPT ![k] = WithDeposit(k, r)]
        /\ arrived' = [arrived EXCEPT ![k] = @ + 1]
        /\ used' = [used EXCEPT ![r][k] = @ + 1]
        /\ pc' = [pc EXCEPT ![r] = "waiting"]
        /\ UNCHANGED <<poison, departed, outcome, lock, broken, parked, expired, call,
                       result, counters, decided, seen>>
    BY <1>0 DEF DepositAndWait
  <1>5. /\ \A j \in Kinds \ {k} : slots'[j] = slots[j] /\ arrived'[j] = arrived[j]
        /\ slots'[k] = WithDeposit(k, r) /\ arrived'[k] = arrived[k] + 1
        /\ pc'[r] = "waiting"
        /\ \A q \in Ranks \ {r} : pc'[q] = pc[q] /\ used'[q] = used[q]
        /\ used'[r][k] = used[r][k] + 1 /\ \A j \in Kinds \ {k} : used'[r][j] = used[r][j]
    BY <1>1, <1>2, <1>4 DEF TypeOK
  <1>6. /\ WithDeposit(k, r) \in [Ranks -> Slot]
        /\ WithDeposit(k, r)[r] = [shape |-> call[r].shape, count |-> used[r][k] + 1]
        /\ WithDeposit(k, r)[r] # NoValue
        /\ \A q \in Ranks \ {r} : WithDeposit(k, r)[q] = slots[k][q]
    BY <1>1, <1>2 DEF WithDeposit, TypeOK, Slot, Contribution, NoValue
  <1>7. /\ Deposited(k)' = Deposited(k) \cup {r}
        /\ \A j \in Kinds \ {k} : Deposited(j)' = Deposited(j)
    <2>1. \A q \in Ranks : slots'[k][q] # NoValue <=> (q = r \/ slots[k][q] # NoValue)
      BY <1>5, <1>6
    <2> QED
      BY <1>5, <2>1 DEF Deposited
  <1>8. /\ Cardinality(Deposited(k)') = Cardinality(Deposited(k)) + 1
        /\ arrived[k] + 1 \in 0..World
    <2>1. Deposited(k) \in SUBSET Ranks /\ Deposited(k)' \in SUBSET Ranks
      BY <1>7 DEF Deposited
    <2> QED
      BY <1>3, <1>7, <2>1, WorldSize, FS_AddElement
  <1>9. TypeOK'
    <2>1. slots' \in [Kinds -> [Ranks -> Slot]] /\ arrived' \in [Kinds -> 0..World]
      BY <1>1, <1>2, <1>4, <1>6, <1>8 DEF TypeOK
    <2>2. used' \in [Ranks -> [Kinds -> Nat]]
         /\ pc' \in [Ranks -> {"idle", "opening", "deposit", "waiting", "leaving"}]
      BY <1>1, <1>2, <1>4 DEF TypeOK
    <2> QED
      BY <1>1, <1>4, <2>1, <2>2 DEF TypeOK, counters
  <1>10. \A j \in Kinds : Open(j)' <=> Open(j)
    BY <1>2 DEF Open
  <1>11. LockDiscipline'
    BY <1>1, <1>2, <1>4, <1>5, <1>7, <1>10 DEF LockDiscipline, Kind
  <1>12. OpenRound'
    <2> SUFFICES ASSUME NEW j \in Kinds, Open(j)'
                 PROVE  /\ departed'[j] = 0
                        /\ ~broken'[j] => /\ arrived'[j] = Cardinality(Deposited(j)')
                                          /\ \A q \in Ranks : At(q, "waiting", j)' => q \in Deposited(j)'
                        /\ \A q \in Ranks : ~At(q, "leaving", j)'
      BY DEF OpenRound
    <2>1. Open(j) /\ departed'[j] = departed[j] /\ broken'[j] = broken[j]
      BY <1>4, <1>10
    <2>2. \A q \in Ranks : /\ At(q, "leaving", j)' => At(q, "leaving", j)
                           /\ At(q, "waiting", j)' => At(q, "waiting", j) \/ (q = r /\ j = k)
      BY <1>2, <1>5 DEF At, Kind
    <2> QED
      BY <1>3, <1>5, <1>7, <1>8, <2>1, <2>2 DEF IInv, OpenRound
  <1>13. \A j \in Kinds : ~Open(j) => j # k /\ Inside(j)' = Inside(j)
    BY <1>2, <1>4, <1>5 DEF Inside, At, Kind
  <1>14. DrainingRound'
    BY <1>2, <1>4, <1>5, <1>7, <1>10, <1>13 DEF IInv, DrainingRound, At, Kind
  <1>15. Leftovers'
    <2> SUFFICES ASSUME NEW j \in Kinds, NEW q \in Ranks, q \in Deposited(j)', ~At(q, "waiting", j)'
                 PROVE  poison' # "none" /\ \A p \in Ranks : ~At(p, "deposit", j)'
      BY DEF Leftovers, Deposited
    <2>1. q \in Deposited(j) /\ ~At(q, "waiting", j)
      BY <1>2, <1>4, <1>5, <1>7 DEF At, Kind
    <2> QED
      BY <1>2, <1>4, <1>5, <2>1 DEF IInv, Leftovers, At, Kind
  <1>16. History'
    <2> SUFFICES ASSUME NEW j \in Kinds, NEW q \in Ranks
                 PROVE  /\ used'[q][j] = Len(decided'[j])
                             + (IF q \in Deposited(j)' \/ broken'[j] THEN 1 ELSE 0)
                        /\ q \in Deposited(j)' => slots'[j][q].count = used'[q][j]
                        /\ q \in Deposited(j)' /\ At(q, "waiting", j)'
                             => slots'[j][q].shape = call'[q].shape
                        /\ seen'[q][j] = Len(decided'[j])
                             - (IF ~Open(j)' /\ q \in Inside(j)' THEN 1 ELSE 0)
      BY DEF History
    <2>0. /\ ~Open(j)' /\ q \in Inside(j)' <=> ~Open(j) /\ q \in Inside(j)
          /\ broken' = broken /\ decided' = decided /\ seen' = seen /\ call' = call
      BY <1>4, <1>10, <1>13
    <2>1. CASE j = k /\ q = r
      BY <1>2, <1>3, <1>5, <1>6, <1>7, <2>0, <2>1 DEF IInv, TypeOK, History
    <2>2. CASE ~(j = k /\ q = r)
      <3>1. /\ used'[q][j] = used[q][j] /\ slots'[j][q] = slots[j][q]
            /\ q \in Deposited(j)' <=> q \in Deposited(j)
        BY <1>5, <1>6, <1>7, <2>2
      <3>2. At(q, "waiting", j)' => At(q, "waiting", j)
        BY <1>2, <1>5, <2>2 DEF At, Kind
      <3> QED
        BY <2>0, <3>1, <3>2 DEF IInv, History
    <2> QED
      BY <2>1, <2>2
  <1>17. Latest'
    BY <1>4, <1>10 DEF IInv, Latest, Combined
  <1>18. DeadWorldLacksARank'
    BY <1>2, <1>4, <1>5, <1>7 DEF IInv, DeadWorldLacksARank, At, Kind
  <1>19. NoLostWakeup'
    <2>1. r \notin parked
      BY <1>1, <1>2 DEF LockDiscipline
    <2>2. \A q \in parked : pc'[q] = pc[q] /\ Kind(q)' = Kind(q) /\ Kind(q) \in Kinds
      BY <1>1, <1>2, <1>5, <2>1 DEF TypeOK, Kind
    <2>3. parked' = parked
      BY <1>4
    <2> QED
      BY <1>1, <1>10, <2>2, <2>3 DEF NoLostWakeup
  <1>20. OneContributionPerRound'
    BY <1>4 DEF IInv, OneContributionPerRound
  <1> QED
    BY <1>9, <1>11, <1>12, <1>14, <1>15, <1>16, <1>17, <1>18, <1>19, <1>20 DEF IInv

\* The last arrival finds everybody else waiting in its round, and so a world
\* that nobody has killed.
LEMMA LastArrival ==
  ASSUME IInv, NEW r \in Ranks, NEW k \in Kinds, At(r, "deposit", k), LastIn(k)
  PROVE  /\ Open(k) /\ lock[k] = r /\ r # NoRank /\ r \notin Deposited(k)
         /\ \A q \in Ranks \ {r} : q \in Deposited(k) /\ At(q, "waiting", k)
         /\ \A q \in Ranks : Kind(q) = k
         /\ poison = "none"
         /\ \A j \in Kinds : ~broken[j]
         /\ departed[k] = 0 /\ arrived[k] + 1 = World
         /\ \A q \in Ranks : used[q][k] = Len(decided[k]) + (IF q = r THEN 0 ELSE 1)
         /\ \A q \in Ranks : seen[q][k] = Len(decided[k])
PROOF
  <1>1. lock[k] = r /\ r # NoRank /\ Open(k) /\ ~broken[k]
    BY WorldAssumption DEF IInv, LockDiscipline, DrainingRound, At
  <1>2. r \notin Deposited(k)
    BY DEF IInv, Leftovers, At
  <1>3. arrived[k] = Cardinality(Deposited(k)) /\ departed[k] = 0
    BY <1>1 DEF IInv, OpenRound
  <1>4. Deposited(k) \cup {r} = Ranks
    <2>1. Deposited(k) \in SUBSET Ranks /\ Deposited(k) \cup {r} \in SUBSET Ranks
      BY DEF Deposited
    <2>2. Cardinality(Deposited(k) \cup {r}) = World
      BY <1>2, <1>3, <2>1, FS_AddElement, WorldSize DEF LastIn
    <2> QED
      BY <2>1, <2>2, WorldSize
  <1>5. \A q \in Ranks \ {r} : q \in Deposited(k) /\ At(q, "waiting", k)
    BY <1>4 DEF IInv, Leftovers
  <1>6. \A q \in Ranks : Kind(q) = k
    BY <1>5 DEF At
  <1>7. poison = "none"
    BY <1>4 DEF IInv, DeadWorldLacksARank
  <1>8. \A j \in Kinds : ~broken[j]
    BY <1>1, <1>6, <1>7 DEF IInv, DeadWorldLacksARank, At
  <1>9. \A q \in Ranks : used[q][k] = Len(decided[k]) + (IF q = r THEN 0 ELSE 1)
    BY <1>2, <1>5, <1>8 DEF IInv, History
  <1>10. \A q \in Ranks : seen[q][k] = Len(decided[k])
    BY <1>1 DEF IInv, History, TypeOK
  <1>11. arrived[k] + 1 = World
    BY DEF LastIn
  <1> QED
    BY <1>1, <1>2, <1>3, <1>5, <1>6, <1>7, <1>8, <1>9, <1>10, <1>11

\* The contributions of the round that the last arrival completes.
LEMMA FullTable ==
  ASSUME IInv, NEW r \in Ranks, NEW k \in Kinds, At(r, "deposit", k), LastIn(k)
  PROVE  /\ WithDeposit(k, r) \in [Ranks -> Slot]
         /\ Combined(k, WithDeposit(k, r)) \in Outcomes
         /\ Combined(k, WithDeposit(k, r)).status # "none"
         /\ Combined(k, WithDeposit(k, r)).vals = WithDeposit(k, r)
         /\ \A q \in Ranks : /\ WithDeposit(k, r)[q].count = Len(decided[k]) + 1
                             /\ WithDeposit(k, r)[q].shape = call[q].shape
PROOF
  <1>1. TypeOK /\ History
    BY DEF IInv
  <1>2. WithDeposit(k, r) \in [Ranks -> Slot]
    BY <1>1 DEF WithDeposit, TypeOK, Slot, Contribution
  <1>3. \A q \in Ranks : /\ WithDeposit(k, r)[q].count = Len(decided[k]) + 1
                         /\ WithDeposit(k, r)[q].shape = call[q].shape
    <2>0. /\ \A q \in Ranks \ {r} : q \in Deposited(k) /\ At(q, "waiting", k)
          /\ used[r][k] = Len(decided[k])
          /\ \A q \in Ranks \ {r} : used[q][k] = Len(decided[k]) + 1
      BY LastArrival, <1>1 DEF TypeOK
    <2> TAKE q \in Ranks
    <2>1. CASE q = r
      <3>1. WithDeposit(k, r)[r] = [shape |-> call[r].shape, count |-> used[r][k] + 1]
        BY <1>1 DEF WithDeposit, TypeOK
      <3> QED
        BY <2>0, <2>1, <3>1
    <2>2. CASE q # r
      <3>1. WithDeposit(k, r)[q] = slots[k][q]
        BY <1>1, <2>2 DEF WithDeposit, TypeOK
      <3>2. q \in Deposited(k) /\ At(q, "waiting", k) /\ used[q][k] = Len(decided[k]) + 1
        BY <2>0, <2>2
      <3> QED
        BY <1>1, <3>1, <3>2 DEF History
    <2> QED
      BY <2>1, <2>2
  <1> QED
    BY <1>2, <1>3 DEF Combined, Outcomes

LEMMA DepositAndCombineKeepsIInv ==
  ASSUME IInv, NEW r \in Ranks, DepositAndCombine(r) PROVE IInv'
PROOF
  <1>1. TypeOK /\ LockDiscipline
    BY DEF IInv
  <1>0. PICK k \in Kinds : k = Kind(r)
    BY <1>1 DEF TypeOK, Kind
  <1> DEFINE out == Combined(k, WithDeposit(k, r))
  <1>2. At(r, "deposit", k) /\ LastIn(k)
    BY <1>0 DEF DepositAndCombine, At
  <1>3. /\ slots' = [slots EXCEPT ![k] = EmptySlots]
        /\ arrived' = [arrived EXCEPT ![k] = @ + 1]
        /\ outcome' = [outcome EXCEPT ![k] = out]
        /\ poison' \in {"none", "mismatch"}
        /\ parked' = {q \in parked : Kind(q) # k}
        /\ used' = [used EXCEPT ![r][k] = @ + 1]
        /\ decided' = [decided EXCEPT ![k] = Append(@, out)]
        /\ pc' = [pc EXCEPT ![r] = "leaving"]
        /\ UNCHANGED <<departed, lock, broken, expired, call, result, counters, seen>>
    BY <1>0, <1>2, LastArrival DEF DepositAndCombine, SetPoison, NotifyAll
  <1>4. /\ Open(k) /\ lock[k] = r /\ r # NoRank
        /\ \A q \in Ranks \ {r} : At(q, "waiting", k)
        /\ \A q \in Ranks : Kind(q) = k /\ Kind(q)' = k
        /\ \A j \in Kinds : ~broken[j]
        /\ departed[k] = 0 /\ arrived[k] + 1 = World
        /\ \A q \in Ranks : used[q][k] = Len(decided[k]) + (IF q = r THEN 0 ELSE 1)
        /\ \A q \in Ranks : seen[q][k] = Len(decided[k])
    BY <1>2, <1>3, LastArrival DEF Kind
  <1>5. /\ out \in Outcomes /\ out.status # "none" /\ out.vals = WithDeposit(k, r)
        /\ \A q \in Ranks : out.vals[q].count = Len(decided[k]) + 1
    BY <1>2, FullTable
  <1> HIDE DEF out
  <1>6. /\ slots'[k] = EmptySlots /\ arrived'[k] = World /\ outcome'[k] = out
        /\ decided'[k] = Append(decided[k], out)
        /\ pc'[r] = "leaving" /\ used'[r][k] = used[r][k] + 1
        /\ \A q \in Ranks \ {r} : pc'[q] = "waiting" /\ used'[q] = used[q]
        /\ \A j \in Kinds \ {k} : /\ slots'[j] = slots[j] /\ arrived'[j] = arrived[j]
                                  /\ outcome'[j] = outcome[j] /\ decided'[j] = decided[j]
                                  /\ \A q \in Ranks : used'[q][j] = used[q][j]
    BY <1>1, <1>2, <1>3, <1>4 DEF TypeOK, At
  <1>7. parked' = {}
    BY <1>1, <1>3, <1>4 DEF TypeOK
  <1>8. TypeOK'
    <2>1. EmptySlots \in [Ranks -> Slot]
      BY DEF EmptySlots, Slot
    <2>2. slots' \in [Kinds -> [Ranks -> Slot]] /\ arrived' \in [Kinds -> 0..World]
      <3>1. slots' \in [Kinds -> [Ranks -> Slot]]
        BY <1>1, <1>3, <2>1 DEF TypeOK
      <3>2. World \in Nat
        BY WorldSize
      <3>3. World \in 0..World
        BY <3>2
      <3>4. \A j \in Kinds : arrived'[j] \in 0..World
        BY <1>1, <1>6, <3>3 DEF TypeOK
      <3>5. arrived' \in [Kinds -> 0..World]
        BY <1>1, <1>3, <3>4 DEF TypeOK
      <3> QED
        BY <3>1, <3>5
    <2>3. outcome' \in [Kinds -> Outcomes] /\ decided' \in [Kinds -> Seq(Outcomes)]
      BY <1>1, <1>3, <1>5 DEF TypeOK
    <2>4. used' \in [Ranks -> [Kinds -> Nat]]
         /\ pc' \in [Ranks -> {"idle", "opening", "deposit", "waiting", "leaving"}]
      BY <1>1, <1>3 DEF TypeOK
    <2> QED
      BY <1>1, <1>3, <1>7, <2>2, <2>3, <2>4 DEF TypeOK, counters
  <1>9. /\ \A j \in Kinds \ {k} : (Open(j)' <=> Open(j)) /\ Deposited(j)' = Deposited(j)
        /\ ~Open(k)' /\ Deposited(k)' = {} /\ Inside(k)' = Ranks
        /\ \A j \in Kinds \ {k} : Inside(j)' = {} /\ Inside(j) = {}
    BY <1>2, <1>4, <1>5, <1>6 DEF Open, Deposited, EmptySlots, Inside, At
  <1>20. /\ Len(decided'[k]) = Len(decided[k]) + 1 /\ Len(decided[k]) \in Nat
         /\ decided'[k][Len(decided[k]) + 1] = out
         /\ \A i \in 1..Len(decided[k]) : decided'[k][i] = decided[k][i]
         /\ \A i \in 1..Len(decided'[k]) : i \in 1..Len(decided[k]) \/ i = Len(decided[k]) + 1
    <2>1. decided[k] \in Seq(Outcomes) /\ out \in Outcomes
      BY <1>1, <1>5 DEF TypeOK
    <2> QED
      BY <1>6, <2>1
  <1>10. LockDiscipline'
    BY <1>1, <1>3, <1>4, <1>6, <1>7 DEF LockDiscipline
  <1>11. \A j \in Kinds, q \in Ranks : ~At(q, "deposit", j)' /\ (At(q, "leaving", j)' => j = k)
    BY <1>4, <1>6 DEF At
  <1>12. OpenRound'
    <2> SUFFICES ASSUME NEW j \in Kinds, j # k, Open(j)'
                 PROVE  /\ departed'[j] = 0
                        /\ ~broken'[j] => /\ arrived'[j] = Cardinality(Deposited(j)')
                                          /\ \A q \in Ranks : At(q, "waiting", j)' => q \in Deposited(j)'
                        /\ \A q \in Ranks : ~At(q, "leaving", j)'
      BY <1>9 DEF OpenRound
    <2>1. \A q \in Ranks : ~At(q, "waiting", j)'
      BY <1>4 DEF At
    <2> QED
      BY <1>3, <1>6, <1>9, <1>11, <2>1 DEF IInv, OpenRound
  <1>13. DrainingRound'
    <2> SUFFICES ASSUME NEW j \in Kinds, ~Open(j)'
                 PROVE  /\ Deposited(j)' = {} /\ arrived'[j] = World /\ Inside(j)' # {}
                        /\ departed'[j] = World - Cardinality(Inside(j)')
                        /\ \A q \in Ranks : ~At(q, "deposit", j)'
      BY DEF DrainingRound
    <2>1. CASE j = k
      BY <1>3, <1>4, <1>6, <1>9, <1>11, <2>1, WorldAssumption, WorldSize DEF World
    <2>2. CASE j # k
      BY <1>9, <2>2 DEF IInv, DrainingRound
    <2> QED
      BY <2>1, <2>2
  <1>14. Leftovers'
    <2> SUFFICES ASSUME NEW j \in Kinds, NEW q \in Deposited(j)' PROVE FALSE
      BY DEF Leftovers
    <2>1. j # k /\ q \in Ranks /\ q \in Deposited(j)
      BY <1>9 DEF Deposited
    <2>2. ~At(q, "waiting", j) /\ poison = "none"
      BY <1>2, <1>4, <2>1, LastArrival DEF At
    <2> QED
      BY <2>1, <2>2 DEF IInv, Leftovers
  <1>15. History'
    <2> SUFFICES ASSUME NEW j \in Kinds, NEW q \in Ranks
                 PROVE  /\ used'[q][j] = Len(decided'[j])
                             + (IF q \in Deposited(j)' \/ broken'[j] THEN 1 ELSE 0)
                        /\ q \in Deposited(j)' => slots'[j][q].count = used'[q][j]
                        /\ q \in Deposited(j)' /\ At(q, "waiting", j)'
                             => slots'[j][q].shape = call'[q].shape
                        /\ seen'[q][j] = Len(decided'[j])
                             - (IF ~Open(j)' /\ q \in Inside(j)' THEN 1 ELSE 0)
      BY DEF History
    <2>1. CASE j = k
      <3>1. used'[q][k] = Len(decided[k]) + 1
        <4>1. CASE q = r
          <5>1. used[r][k] = Len(decided[k]) + 0
            BY <1>4
          <5> QED
            BY <1>6, <1>20, <4>1, <5>1
        <4>2. CASE q # r
          <5>1. used[q][k] = Len(decided[k]) + 1
            BY <1>4, <4>2
          <5> QED
            BY <1>6, <4>2, <5>1
        <4> QED
          BY <4>1, <4>2
      <3>2. seen'[q][k] = Len(decided[k]) /\ broken'[k] = FALSE
        BY <1>1, <1>3, <1>4 DEF TypeOK
      <3>3. q \notin Deposited(k)' /\ ~Open(k)' /\ q \in Inside(k)'
        BY <1>9
      <3> QED
        <4>1. used'[q][k] = Len(decided'[k]) + 0 /\ seen'[q][k] = Len(decided'[k]) - 1
          BY <1>20, <3>1, <3>2
        <4> QED
          BY <2>1, <3>2, <3>3, <4>1
    <2>2. CASE j # k
      <3>1. used'[q][j] = used[q][j] /\ decided'[j] = decided[j] /\ slots'[j] = slots[j]
            /\ seen' = seen /\ broken' = broken /\ call' = call /\ ~At(q, "waiting", j)'
        BY <1>3, <1>4, <1>6, <2>2 DEF At
      <3>2. (q \in Deposited(j)' <=> q \in Deposited(j)) /\ q \notin Inside(j)' /\ q \notin Inside(j)
        BY <1>9, <2>2
      <3> QED
        BY <3>1, <3>2 DEF IInv, History
    <2> QED
      BY <2>1, <2>2
  <1>16. Latest'
    <2> SUFFICES ASSUME NEW j \in Kinds
                 PROVE  /\ ~Open(j)' => Len(decided'[j]) > 0 /\ outcome'[j] = decided'[j][Len(decided'[j])]
                        /\ \A i \in 1..Len(decided'[j]) :
                             decided'[j][i] = Combined(j, decided'[j][i].vals)
      BY DEF Latest, Combined
    <2>1. CASE j = k
      <3>1. out = Combined(k, out.vals)
        BY <1>5 DEF out
      <3>2. \A i \in 1..Len(decided[k]) : decided[k][i] = Combined(k, decided[k][i].vals)
        BY DEF IInv, Latest
      <3>3. outcome'[k] = decided'[k][Len(decided'[k])] /\ Len(decided'[k]) > 0
        BY <1>6, <1>20
      <3>4. \A i \in 1..Len(decided'[k]) : decided'[k][i] = Combined(k, decided'[k][i].vals)
        BY <1>20, <3>1, <3>2
      <3> QED
        BY <2>1, <3>3, <3>4
    <2>2. CASE j # k
      BY <1>6, <1>9, <2>2 DEF IInv, Latest
    <2> QED
      BY <2>1, <2>2
  <1>17. DeadWorldLacksARank'
    BY <1>3, <1>4, <1>11 DEF DeadWorldLacksARank
  <1>18. NoLostWakeup'
    BY <1>7 DEF NoLostWakeup
  <1>19. OneContributionPerRound'
    <2> SUFFICES ASSUME NEW j \in Kinds, NEW i \in 1..Len(decided'[j]), NEW q \in Ranks
                 PROVE  decided'[j][i].vals[q].count = i
      BY DEF OneContributionPerRound
    <2>1. CASE j # k
      BY <1>6, <2>1 DEF IInv, OneContributionPerRound
    <2>2. CASE j = k
      <3>2. i \in 1..Len(decided[k]) \/ i = Len(decided[k]) + 1
        BY <1>20, <2>2
      <3>3. \A n \in 1..Len(decided[k]) : decided[k][n].vals[q].count = n
        BY DEF IInv, OneContributionPerRound
      <3> QED
        BY <1>5, <1>20, <2>2, <3>2, <3>3
    <2> QED
      BY <2>1, <2>2
  <1> QED
    BY <1>8, <1>10, <1>12, <1>13, <1>14, <1>15, <1>16, <1>17, <1>18, <1>19 DEF IInv

\* A panic inside the combine leaves the mutex poisoned, and the cell is set by
\* whoever takes the mutex next: somebody is waiting to do so.
LEMMA DepositAndPanicKeepsIInv ==
  ASSUME IInv, NEW r \in Ranks, DepositAndPanic(r) PROVE IInv'
PROOF
  <1>1. TypeOK /\ LockDiscipline /\ NoLostWakeup
    BY DEF IInv
  <1>2. PICK k \in Kinds : k = Kind(r)
    BY <1>1 DEF TypeOK, Kind
  <1>3. At(r, "deposit", k) /\ LastIn(k) /\ World > 1
    BY <1>2 DEF DepositAndPanic, At
  <1>4. /\ slots' = [slots EXCEPT ![k] = EmptySlots]
        /\ arrived' = [arrived EXCEPT ![k] = @ + 1]
        /\ broken' = [broken EXCEPT ![k] = TRUE]
        /\ used' = [used EXCEPT ![r][k] = @ + 1]
        /\ lock' = [lock EXCEPT ![k] = NoRank]
        /\ FailWith(r, "panic")
        /\ UNCHANGED <<poison, departed, outcome, parked, expired, call, counters, decided, seen>>
    BY <1>2 DEF DepositAndPanic, Unlock
  <1>5. /\ Open(k) /\ lock[k] = r /\ r # NoRank
        /\ \A q \in Ranks \ {r} : At(q, "waiting", k)
        /\ \A q \in Ranks : Kind(q) = k /\ Kind(q)' = k
        /\ poison = "none"
        /\ \A j \in Kinds : ~broken[j]
        /\ departed[k] = 0 /\ arrived[k] + 1 = World
        /\ \A q \in Ranks : seen[q][k] = Len(decided[k])
    BY <1>3, <1>4, LastArrival DEF Kind
  <1>6. /\ used[r][k] = Len(decided[k]) + 0
        /\ \A q \in Ranks \ {r} : used[q][k] = Len(decided[k]) + 1
    <2>1. \A q \in Ranks : used[q][k] = Len(decided[k]) + (IF q = r THEN 0 ELSE 1)
      BY <1>3, LastArrival
    <2> QED
      BY <2>1
  <1>7. /\ pc' \in [Ranks -> {"idle", "opening", "deposit", "waiting", "leaving"}]
        /\ result' \in [Ranks -> Results]
        /\ pc'[r] = "idle"
        /\ \A q \in Ranks \ {r} : pc'[q] = pc[q]
    BY <1>1, <1>4, FailWithType
  <1>8. /\ slots'[k] = EmptySlots /\ arrived'[k] = World /\ broken'[k] /\ lock'[k] = NoRank
        /\ used'[r][k] = used[r][k] + 1
        /\ \A q \in Ranks \ {r} : used'[q] = used[q]
        /\ \A j \in Kinds \ {k} : /\ slots'[j] = slots[j] /\ arrived'[j] = arrived[j]
                                  /\ broken'[j] = broken[j] /\ lock'[j] = lock[j]
                                  /\ \A q \in Ranks : used'[q][j] = used[q][j]
    BY <1>1, <1>4, <1>5 DEF TypeOK
  <1>9. TypeOK'
    <2>1. EmptySlots \in [Ranks -> Slot] /\ World \in Nat
      BY WorldSize DEF EmptySlots, Slot
    <2>2. slots' \in [Kinds -> [Ranks -> Slot]] /\ broken' \in [Kinds -> BOOLEAN]
      BY <1>1, <1>4, <2>1 DEF TypeOK
    <2>3. \A j \in Kinds : arrived'[j] \in 0..World
      <3>1. World \in 0..World
        BY <2>1
      <3> QED
        BY <1>1, <1>8, <3>1 DEF TypeOK
    <2>4. arrived' \in [Kinds -> 0..World]
      BY <1>1, <1>4, <2>3 DEF TypeOK
    <2>5. lock' \in [Kinds -> Ranks \cup {NoRank}] /\ used' \in [Ranks -> [Kinds -> Nat]]
      BY <1>1, <1>4 DEF TypeOK
    <2> QED
      BY <1>1, <1>4, <1>7, <2>2, <2>4, <2>5 DEF TypeOK, counters
  <1>10. /\ \A j \in Kinds : Open(j)' <=> Open(j)
         /\ Deposited(k)' = {}
         /\ \A j \in Kinds \ {k} : Deposited(j)' = Deposited(j) /\ Inside(j)' = {} /\ Inside(j) = {}
         /\ \A j \in Kinds, q \in Ranks : ~At(q, "deposit", j)' /\ ~At(q, "leaving", j)'
    BY <1>3, <1>4, <1>5, <1>7, <1>8 DEF Open, Deposited, EmptySlots, Inside, At
  <1>11. LockDiscipline'
    <2>1. \A q \in Ranks : pc'[q] \notin {"deposit", "leaving"}
      BY <1>5, <1>7 DEF At
    <2>2. \A j \in Kinds, q \in Ranks : lock'[j] # q
      BY <1>1, <1>5, <1>8, WorldAssumption DEF LockDiscipline
    <2>3. \A j \in Kinds : broken'[j] => j = k
      BY <1>5, <1>8
    <2> QED
      BY <1>5, <1>8, <1>10, <2>1, <2>2, <2>3 DEF LockDiscipline
  <1>12. OpenRound'
    <2> SUFFICES ASSUME NEW j \in Kinds, Open(j)'
                 PROVE  /\ departed'[j] = 0
                        /\ ~broken'[j] => /\ arrived'[j] = Cardinality(Deposited(j)')
                                          /\ \A q \in Ranks : At(q, "waiting", j)' => q \in Deposited(j)'
                        /\ \A q \in Ranks : ~At(q, "leaving", j)'
      BY DEF OpenRound
    <2>1. \A q \in Ranks : j # k => ~At(q, "waiting", j)'
      BY <1>5 DEF At
    <2> QED
      BY <1>4, <1>5, <1>8, <1>10, <2>1 DEF IInv, OpenRound
  <1>13. DrainingRound'
    <2> SUFFICES ASSUME NEW j \in Kinds, ~Open(j)' PROVE FALSE
      BY DEF DrainingRound
    <2> QED
      BY <1>5, <1>10 DEF IInv, DrainingRound
  <1>14. Leftovers'
    <2> SUFFICES ASSUME NEW j \in Kinds, NEW q \in Deposited(j)' PROVE FALSE
      BY DEF Leftovers
    <2>1. j # k /\ q \in Ranks /\ q \in Deposited(j)
      BY <1>10 DEF Deposited
    <2> QED
      BY <1>5, <2>1, <1>3 DEF IInv, Leftovers, At
  <1>15. History'
    <2> SUFFICES ASSUME NEW j \in Kinds, NEW q \in Ranks
                 PROVE  /\ used'[q][j] = Len(decided'[j])
                             + (IF q \in Deposited(j)' \/ broken'[j] THEN 1 ELSE 0)
                        /\ q \in Deposited(j)' => slots'[j][q].count = used'[q][j]
                        /\ q \in Deposited(j)' /\ At(q, "waiting", j)'
                             => slots'[j][q].shape = call'[q].shape
                        /\ seen'[q][j] = Len(decided'[j])
                             - (IF ~Open(j)' /\ q \in Inside(j)' THEN 1 ELSE 0)
      BY DEF History
    <2>1. CASE j = k
      <3>1. Len(decided[k]) \in Nat
        BY <1>1 DEF TypeOK
      <3>2. used'[q][k] = Len(decided[k]) + 1
        BY <1>6, <1>8, <3>1
      <3>3. seen'[q][k] = Len(decided[k]) /\ decided' = decided
        BY <1>4, <1>5
      <3>4. q \notin Deposited(k)' /\ Open(k)' /\ broken'[k]
        BY <1>5, <1>8, <1>10
      <3> QED
        BY <2>1, <3>1, <3>2, <3>3, <3>4
    <2>2. CASE j # k
      <3>1. used'[q][j] = used[q][j] /\ decided' = decided /\ slots'[j] = slots[j]
            /\ seen' = seen /\ broken'[j] = broken[j] /\ call' = call /\ ~At(q, "waiting", j)'
        BY <1>4, <1>5, <1>8, <2>2 DEF At
      <3>2. (q \in Deposited(j)' <=> q \in Deposited(j)) /\ q \notin Inside(j)' /\ q \notin Inside(j)
        BY <1>10, <2>2
      <3> QED
        BY <3>1, <3>2 DEF IInv, History
    <2> QED
      BY <2>1, <2>2
  <1>16. Latest'
    BY <1>4, <1>10 DEF IInv, Latest, Combined
  <1>17. DeadWorldLacksARank'
    <2>1. \E q \in Ranks : q # r
      <3>1. CASE Ranks = {r}
        BY <1>3, <3>1, FS_Singleton DEF World
      <3> QED
        BY <3>1
    <2>2. \E q \in Ranks : At(q, "waiting", k)'
      BY <1>5, <1>7, <2>1 DEF At
    <2> QED
      BY <1>4, <1>5, <1>8, <1>10, <2>2 DEF DeadWorldLacksARank
  <1>18. NoLostWakeup'
    <2>1. \A q \in parked : q \in Ranks \ {r}
      BY <1>1, <1>5 DEF LockDiscipline, TypeOK
    <2> QED
      BY <1>1, <1>4, <1>7, <2>1 DEF NoLostWakeup, Open, Kind
  <1>19. OneContributionPerRound'
    BY <1>4 DEF IInv, OneContributionPerRound
  <1> QED
    BY <1>9, <1>11, <1>12, <1>13, <1>14, <1>15, <1>16, <1>17, <1>18, <1>19 DEF IInv

\* A rank collects the outcome; the last one out opens the next round.
LEMMA LeaveKeepsIInv ==
  ASSUME IInv, NEW r \in Ranks, Leave(r) PROVE IInv'
PROOF
  <1>1. TypeOK /\ LockDiscipline /\ NoLostWakeup
    BY DEF IInv
  <1>2. PICK k \in Kinds : k = Kind(r)
    BY <1>1 DEF TypeOK, Kind
  <1>3. /\ result' = [result EXCEPT ![r] = outcome[k]]
        /\ seen' = [seen EXCEPT ![r][k] = @ + 1]
        /\ lock' = [lock EXCEPT ![k] = NoRank]
        /\ pc' = [pc EXCEPT ![r] = "idle"]
        /\ UNCHANGED <<poison, slots, broken, expired, call, counters, decided, used>>
    BY <1>2 DEF Leave, Unlock
  <1>4. At(r, "leaving", k) /\ lock[k] = r /\ r # NoRank /\ ~Open(k) /\ ~broken[k]
    BY <1>1, <1>2, WorldAssumption DEF Leave, LockDiscipline, IInv, OpenRound, At
  <1>5. /\ Deposited(k) = {} /\ arrived[k] = World /\ departed[k] = World - Cardinality(Inside(k))
        /\ \A q \in Ranks : ~At(q, "deposit", k) /\ (q # r => ~At(q, "leaving", k))
        /\ r \in Inside(k)
    BY <1>1, <1>4 DEF IInv, DrainingRound, LockDiscipline, At, Inside
  <1>6. \A q \in Ranks : Kind(q) \in Kinds /\ Kind(q)' = Kind(q)
    BY <1>1, <1>3 DEF TypeOK, Kind
  <1>7. /\ pc'[r] = "idle" /\ \A q \in Ranks \ {r} : pc'[q] = pc[q]
        /\ lock'[k] = NoRank /\ \A j \in Kinds \ {k} : lock'[j] = lock[j]
        /\ seen'[r][k] = seen[r][k] + 1 /\ \A q \in Ranks \ {r} : seen'[q] = seen[q]
        /\ \A j \in Kinds \ {k} : seen'[r][j] = seen[r][j]
    BY <1>1, <1>3 DEF TypeOK
  <1>8. /\ Inside(k)' = Inside(k) \ {r}
        /\ \A j \in Kinds \ {k} : Inside(j)' = Inside(j)
    BY <1>4, <1>6, <1>7 DEF Inside, At
  <1>9. \A j \in Kinds : Deposited(j)' = Deposited(j)
    BY <1>3 DEF Deposited
  <1>21. \A q \in Ranks, j \in Kinds : At(q, "leaving", j)' => At(q, "leaving", j) /\ q # r
    BY <1>6, <1>7 DEF At
  <1>22. \A q \in Ranks, j \in Kinds : At(q, "waiting", j)' => At(q, "waiting", j)
    BY <1>6, <1>7 DEF At
  <1>23. \A q \in Ranks, j \in Kinds : At(q, "waiting", j) => At(q, "waiting", j)'
    BY <1>4, <1>6, <1>7 DEF At
  <1>24. \A q \in Ranks, j \in Kinds : At(q, "deposit", j)' => At(q, "deposit", j)
    BY <1>6, <1>7 DEF At
  <1>10. /\ World \in Nat \ {0} /\ Cardinality(Inside(k)) \in 1..World
         /\ Cardinality(Inside(k) \ {r}) = Cardinality(Inside(k)) - 1
    <2>1. Inside(k) \in SUBSET Ranks
      BY DEF Inside
    <2>2. IsFiniteSet(Inside(k)) /\ Cardinality(Inside(k)) \in 0..World /\ Cardinality(Inside(k)) # 0
      BY <1>5, <2>1, WorldSize
    <2>3. World \in Nat \ {0}
      BY WorldSize
    <2>4. Cardinality(Inside(k) \ {r}) = Cardinality(Inside(k)) - 1
      BY <1>5, <2>2, FS_RemoveElement
    <2> QED
      BY <2>2, <2>3, <2>4
  <1>11. seen[r][k] = Len(decided[k]) - 1 /\ Len(decided[k]) \in Nat
    BY <1>1, <1>4, <1>5 DEF IInv, History, TypeOK
  <1>12. /\ outcome[k] \in Results
         /\ seen' \in [Ranks -> [Kinds -> Nat]]
         /\ pc' \in [Ranks -> {"idle", "opening", "deposit", "waiting", "leaving"}]
         /\ lock' \in [Kinds -> Ranks \cup {NoRank}]
    BY <1>1, <1>3 DEF TypeOK, Outcomes, Results
  <1>13. result' \in [Ranks -> Results]
    BY <1>1, <1>3, <1>12 DEF TypeOK
  <1>14. LockDiscipline' /\ OneContributionPerRound' /\ Leftovers'
    <2>1. \A j \in Kinds : broken[j] => j # k
      BY <1>4
    <2>2. \A j \in Kinds \ {k} : Open(j) => Open(j)'
      BY <1>2 DEF Leave, Open, NoOutcome
    <2>3. \A q \in Ranks : pc'[q] \in {"deposit", "leaving"} => Kind(q) # k /\ pc[q] = pc'[q]
      BY <1>5, <1>7 DEF At
    <2>4. parked' \in SUBSET parked
      BY <1>2 DEF Leave, NotifyAll
    <2>5. LockDiscipline'
      BY <1>1, <1>3, <1>4, <1>6, <1>7, <1>9, <2>1, <2>2, <2>3, <2>4, WorldAssumption DEF LockDiscipline
    <2>6. OneContributionPerRound'
      BY <1>3 DEF IInv, OneContributionPerRound
    <2>7. Leftovers'
      <3> SUFFICES ASSUME NEW j \in Kinds, NEW q \in Deposited(j)', ~At(q, "waiting", j)'
                   PROVE  poison' # "none" /\ \A p \in Ranks : ~At(p, "deposit", j)'
        BY DEF Leftovers
      <3>1. q \in Ranks /\ q \in Deposited(j)
        BY <1>9 DEF Deposited
      <3>2. poison # "none" /\ \A p \in Ranks : ~At(p, "deposit", j)
        BY <1>23, <3>1 DEF IInv, Leftovers
      <3> QED
        BY <1>3, <1>24, <3>2
    <2> QED
      BY <2>5, <2>6, <2>7
  <1>15. DeadWorldLacksARank'
    BY <1>3, <1>4, <1>9, <1>21, <1>22, <1>23, <1>24 DEF IInv, DeadWorldLacksARank
  <1>16. CASE ~LastOut(k)
    <2>1. departed' = [departed EXCEPT ![k] = @ + 1] /\ UNCHANGED <<arrived, outcome, parked>>
      BY <1>1, <1>2, <1>16 DEF Leave, TypeOK
    <2>2. departed[k] + 1 # World /\ departed'[k] = departed[k] + 1
          /\ \A j \in Kinds \ {k} : departed'[j] = departed[j]
      BY <1>1, <1>16, <2>1 DEF LastOut, TypeOK
    <2>3. \A j \in Kinds : Open(j)' <=> Open(j)
      BY <2>1 DEF Open
    <2>4. Cardinality(Inside(k)) # 1 /\ departed[k] \in Nat
      BY <1>1, <1>5, <1>10, <2>2 DEF TypeOK
    <2>5. \A j \in Kinds : departed'[j] \in 0..World - 1
      <3>1. departed'[k] \in 0..World - 1
        BY <1>5, <1>10, <2>2, <2>4
      <3> QED
        BY <1>1, <2>2, <3>1 DEF TypeOK
    <2>6. TypeOK'
      BY <1>1, <1>3, <1>12, <1>13, <2>1, <2>5 DEF TypeOK, counters
    <2>7. Inside(k)' # {}
      BY <1>8, <1>10, <2>4, FS_EmptySet
    <2>8. OpenRound'
      <3> SUFFICES ASSUME NEW j \in Kinds, Open(j), j # k
                   PROVE  /\ departed'[j] = 0
                          /\ ~broken'[j] => /\ arrived'[j] = Cardinality(Deposited(j)')
                                            /\ \A q \in Ranks : At(q, "waiting", j)' => q \in Deposited(j)'
                          /\ \A q \in Ranks : ~At(q, "leaving", j)'
        BY <1>4, <2>3 DEF OpenRound
      <3> QED
        BY <1>3, <1>9, <1>21, <1>22, <1>23, <1>24, <2>1, <2>2 DEF IInv, OpenRound
    <2>9. DrainingRound'
      <3> SUFFICES ASSUME NEW j \in Kinds, ~Open(j)
                   PROVE  /\ Deposited(j)' = {} /\ arrived'[j] = World /\ Inside(j)' # {}
                          /\ departed'[j] = World - Cardinality(Inside(j)')
                          /\ \A q \in Ranks : ~At(q, "deposit", j)'
        BY <2>3 DEF DrainingRound
      <3>1. CASE j = k
        BY <1>5, <1>8, <1>9, <1>21, <1>22, <1>23, <1>24, <1>10, <2>1, <2>2, <2>7, <3>1
      <3>2. CASE j # k
        BY <1>8, <1>9, <1>21, <1>22, <1>23, <1>24, <2>1, <2>2, <3>2 DEF IInv, DrainingRound
      <3> QED
        BY <3>1, <3>2
    <2>10. History'
      <3> SUFFICES ASSUME NEW j \in Kinds, NEW q \in Ranks
                   PROVE  /\ used'[q][j] = Len(decided'[j])
                               + (IF q \in Deposited(j)' \/ broken'[j] THEN 1 ELSE 0)
                          /\ q \in Deposited(j)' => slots'[j][q].count = used'[q][j]
                          /\ q \in Deposited(j)' /\ At(q, "waiting", j)'
                               => slots'[j][q].shape = call'[q].shape
                          /\ seen'[q][j] = Len(decided'[j])
                               - (IF ~Open(j)' /\ q \in Inside(j)' THEN 1 ELSE 0)
        BY DEF History
      <3>1. CASE j = k /\ q = r
        <4>1. seen'[q][j] = Len(decided[j]) - 0 /\ q \notin Inside(j)'
          BY <1>7, <1>8, <1>11, <3>1
        <4>2. used'[q][j] = Len(decided[j]) + 0 /\ Len(decided[j]) \in Nat
          BY <1>3, <1>4, <1>5, <1>11, <3>1 DEF IInv, History
        <4>3. q \notin Deposited(j)' /\ ~broken'[j] /\ decided' = decided
          BY <1>3, <1>4, <1>5, <1>9, <3>1
        <4> QED
          BY <4>1, <4>2, <4>3
      <3>2. CASE ~(j = k /\ q = r)
        <4>1. seen'[q][j] = seen[q][j] /\ (q \in Inside(j)' <=> q \in Inside(j))
          BY <1>7, <1>8, <3>2
        <4> QED
          BY <1>3, <1>9, <1>21, <1>22, <1>23, <1>24, <2>3, <4>1 DEF IInv, History
      <3> QED
        BY <3>1, <3>2
    <2>11. Latest'
      BY <1>3, <2>1, <2>3 DEF IInv, Latest, Combined
    <2>12. NoLostWakeup'
      <3>1. \A q \in parked : q \in Ranks \ {r}
        BY <1>1, <1>4 DEF LockDiscipline, TypeOK
      <3> QED
        BY <1>1, <1>3, <1>7, <2>1, <3>1 DEF NoLostWakeup, Open, Kind
    <2> QED
      BY <1>14, <1>15, <2>6, <2>8, <2>9, <2>10, <2>11, <2>12 DEF IInv
  <1>17. CASE LastOut(k)
    <2>1. /\ departed' = [departed EXCEPT ![k] = 0] /\ arrived' = [arrived EXCEPT ![k] = 0]
          /\ outcome' = [outcome EXCEPT ![k] = NoOutcome]
          /\ parked' = {q \in parked : Kind(q) # k}
      BY <1>2, <1>17 DEF Leave, NotifyAll
    <2>2. departed[k] + 1 = World
      BY <1>17 DEF LastOut
    <2>3. /\ departed'[k] = 0 /\ arrived'[k] = 0 /\ outcome'[k] = NoOutcome
          /\ \A j \in Kinds \ {k} : /\ departed'[j] = departed[j] /\ arrived'[j] = arrived[j]
                                    /\ outcome'[j] = outcome[j]
      BY <1>1, <2>1 DEF TypeOK
    <2>4. Open(k)' /\ \A j \in Kinds \ {k} : Open(j)' <=> Open(j)
      BY <2>3 DEF Open, NoOutcome
    <2>5. Cardinality(Inside(k) \ {r}) = 0
      BY <1>5, <1>10, <2>2
    <2>6. Inside(k)' = {}
      <3>1. Inside(k) \ {r} \in SUBSET Ranks
        BY DEF Inside
      <3> QED
        BY <1>8, <2>5, <3>1, WorldSize
    <2>7. TypeOK'
      <3>1. NoOutcome \in Outcomes
        BY DEF NoOutcome, Outcomes, EmptySlots, Slot
      <3>2. 0 \in 0..World /\ 0 \in 0..World - 1
        BY <1>10
      <3>3. /\ outcome' \in [Kinds -> Outcomes] /\ arrived' \in [Kinds -> 0..World]
            /\ departed' \in [Kinds -> 0..World - 1] /\ parked' \in SUBSET Ranks
        BY <1>1, <2>1, <3>1, <3>2 DEF TypeOK
      <3> QED
        BY <1>1, <1>3, <1>12, <1>13, <3>3 DEF TypeOK, counters
    <2>8. OpenRound'
      <3> SUFFICES ASSUME NEW j \in Kinds, Open(j)'
                   PROVE  /\ departed'[j] = 0
                          /\ ~broken'[j] => /\ arrived'[j] = Cardinality(Deposited(j)')
                                            /\ \A q \in Ranks : At(q, "waiting", j)' => q \in Deposited(j)'
                          /\ \A q \in Ranks : ~At(q, "leaving", j)'
        BY DEF OpenRound
      <3>1. CASE j = k
        <4>1. \A q \in Ranks : ~At(q, "waiting", k)' /\ ~At(q, "leaving", k)'
          BY <2>6 DEF Inside
        <4> QED
          BY <1>5, <1>9, <1>21, <1>22, <1>23, <1>24, <2>3, <3>1, <4>1, FS_EmptySet
      <3>2. CASE j # k
        BY <1>3, <1>9, <1>21, <1>22, <1>23, <1>24, <2>3, <2>4, <3>2 DEF IInv, OpenRound
      <3> QED
        BY <3>1, <3>2
    <2>9. DrainingRound'
      <3> SUFFICES ASSUME NEW j \in Kinds, ~Open(j), j # k
                   PROVE  /\ Deposited(j)' = {} /\ arrived'[j] = World /\ Inside(j)' # {}
                          /\ departed'[j] = World - Cardinality(Inside(j)')
                          /\ \A q \in Ranks : ~At(q, "deposit", j)'
        BY <2>4 DEF DrainingRound
      <3> QED
        BY <1>8, <1>9, <1>21, <1>22, <1>23, <1>24, <2>3 DEF IInv, DrainingRound
    <2>10. History'
      <3> SUFFICES ASSUME NEW j \in Kinds, NEW q \in Ranks
                   PROVE  /\ used'[q][j] = Len(decided'[j])
                               + (IF q \in Deposited(j)' \/ broken'[j] THEN 1 ELSE 0)
                          /\ q \in Deposited(j)' => slots'[j][q].count = used'[q][j]
                          /\ q \in Deposited(j)' /\ At(q, "waiting", j)'
                               => slots'[j][q].shape = call'[q].shape
                          /\ seen'[q][j] = Len(decided'[j])
                               - (IF ~Open(j)' /\ q \in Inside(j)' THEN 1 ELSE 0)
        BY DEF History
      <3>1. CASE j = k /\ q = r
        <4>1. seen'[q][j] = Len(decided[j]) - 0 /\ q \notin Inside(j)'
          BY <1>7, <1>8, <1>11, <3>1
        <4>2. used'[q][j] = Len(decided[j]) + 0 /\ Len(decided[j]) \in Nat
          BY <1>3, <1>4, <1>5, <1>11, <3>1 DEF IInv, History
        <4>3. q \notin Deposited(j)' /\ ~broken'[j] /\ decided' = decided
          BY <1>3, <1>4, <1>5, <1>9, <3>1
        <4> QED
          BY <4>1, <4>2, <4>3
      <3>2. CASE j = k /\ q # r
        <4>1. q \notin Inside(k) /\ q \notin Inside(k)'
          BY <1>8, <2>6, <3>2
        <4>2. seen'[q][k] = Len(decided[k]) - 0
          <5>1. seen[q][k] = Len(decided[k]) - 0
            BY <4>1 DEF IInv, History
          <5> QED
            BY <1>7, <3>2, <5>1
        <4>3. used'[q][k] = Len(decided[k]) + 0
          BY <1>3, <1>4, <1>5 DEF IInv, History
        <4>4. q \notin Deposited(k)' /\ ~broken'[k] /\ decided' = decided
          BY <1>3, <1>4, <1>5, <1>9
        <4> QED
          BY <3>2, <4>1, <4>2, <4>3, <4>4
      <3>3. CASE j # k
        <4>1. seen'[q][j] = seen[q][j] /\ (q \in Inside(j)' <=> q \in Inside(j))
          BY <1>7, <1>8, <3>3
        <4> QED
          BY <1>3, <1>9, <1>21, <1>22, <1>23, <1>24, <2>4, <3>3, <4>1 DEF IInv, History
      <3> QED
        BY <3>1, <3>2, <3>3
    <2>11. Latest'
      BY <1>3, <2>3, <2>4 DEF IInv, Latest, Combined
    <2>12. NoLostWakeup'
      <3> SUFFICES ASSUME NEW q \in parked'
                   PROVE  /\ pc'[q] \in {"opening", "waiting"}
                          /\ pc'[q] = "waiting" => outcome'[call'[q].kind].status = "none"
                          /\ pc'[q] = "opening" => outcome'[call'[q].kind].status # "none"
        BY DEF NoLostWakeup, Open, Kind
      <3>1. q \in parked /\ q \in Ranks \ {r} /\ Kind(q) \in Kinds \ {k}
        BY <1>1, <1>2, <1>6, <2>1 DEF TypeOK
      <3> QED
        BY <1>1, <1>3, <1>7, <2>3, <3>1 DEF NoLostWakeup, Open, Kind
    <2> QED
      BY <1>14, <1>15, <2>7, <2>8, <2>9, <2>10, <2>11, <2>12 DEF IInv
  <1> QED
    BY <1>16, <1>17

(***************************************************************************)
(* Every step keeps the invariant, and what follows from it.               *)
(***************************************************************************)
LEMMA NextKeepsIInv == IInv /\ [Next]_vars => IInv'
PROOF
  <1> SUFFICES ASSUME IInv, [Next]_vars PROVE IInv'
    OBVIOUS
  <1>1. ASSUME NEW r \in Ranks, Enter(r) PROVE IInv'
    BY <1>1, EnterKeepsIInv
  <1>2. ASSUME NEW r \in Ranks, Acquire(r) PROVE IInv'
    BY <1>2, AcquireKeepsIInv
  <1>3. ASSUME NEW r \in Ranks, TryOpen(r) PROVE IInv'
    BY <1>3, TryOpenKeepsIInv
  <1>4. ASSUME NEW r \in Ranks, DepositAndWait(r) PROVE IInv'
    BY <1>4, DepositAndWaitKeepsIInv
  <1>5. ASSUME NEW r \in Ranks, DepositAndCombine(r) PROVE IInv'
    BY <1>5, DepositAndCombineKeepsIInv
  <1>6. ASSUME NEW r \in Ranks, DepositAndPanic(r) PROVE IInv'
    BY <1>6, DepositAndPanicKeepsIInv
  <1>7. ASSUME NEW r \in Ranks, AwaitOutcome(r) PROVE IInv'
    BY <1>7, AwaitOutcomeKeepsIInv
  <1>8. ASSUME NEW r \in Ranks, Leave(r) PROVE IInv'
    BY <1>8, LeaveKeepsIInv
  <1>9. ASSUME NEW r \in Ranks, Expire(r) \/ WakeSpuriously(r) PROVE IInv'
    BY <1>9, WakeKeepsIInv
  <1>10. CASE UNCHANGED vars
    <2>1. UNCHANGED <<poison, round, lock, broken, pc, parked, call, history>>
      BY <1>10 DEF vars
    <2>2. TypeOK'
      BY <1>10 DEF vars, round, counters, history, IInv, TypeOK
    <2>3. LockDiscipline' /\ NoLostWakeup'
      BY <2>1 DEF round, IInv, LockDiscipline, NoLostWakeup, Kind, Open, Deposited
    <2>4. \A r \in Ranks : QuietStep(r)
      BY <2>1 DEF QuietStep
    <2> QED
      BY <2>2, <2>3, <2>4, QuietStepKeeps, WorldAssumption DEF IInv
  <1> QED
    BY <1>1, <1>2, <1>3, <1>4, <1>5, <1>6, <1>7, <1>8, <1>9, <1>10 DEF Next, Step, Finished

\* The invariant holds in every reachable state.
THEOREM Invariance == Spec => []IInv
PROOF
  <1>1. Init => IInv
    BY InitIInv
  <1>2. IInv /\ [Next]_vars => IInv'
    BY NextKeepsIInv
  <1> QED
    BY <1>1, <1>2, PTL DEF Spec

\* Every variable keeps its type, and the two counters of a round their ranges.
THEOREM TypeCorrect == Spec => []TypeOK
PROOF
  <1>1. IInv => TypeOK
    BY DEF IInv
  <1> QED
    BY <1>1, Invariance, PTL

\* The i-th reduction of a kind combines exactly the i-th contribution of every
\* rank, for every number of ranks.
THEOREM RoundsNeverMix == Spec => []OneContributionPerRound
PROOF
  <1>1. IInv => OneContributionPerRound
    BY DEF IInv
  <1> QED
    BY <1>1, Invariance, PTL

\* No rank sleeps through the event that it waits for.
THEOREM WakeupsAreNotLost == Spec => []NoLostWakeup
PROOF
  <1>1. IInv => NoLostWakeup
    BY DEF IInv
  <1> QED
    BY <1>1, Invariance, PTL

\* A combined round reaches every rank, whatever the deadlines and the poison say.
THEOREM RoundsReachEverybody == Spec => []NobodyMissesARound
PROOF
  <1>1. IInv => NobodyMissesARound
    <2> SUFFICES ASSUME IInv, NEW k \in Kinds, NEW r \in Ranks, seen[r][k] # Len(decided[k])
                 PROVE  /\ seen[r][k] = Len(decided[k]) - 1
                        /\ pc[r] \in {"waiting", "leaving"} /\ Kind(r) = k
      BY DEF NobodyMissesARound
    <2>1. Len(decided[k]) \in Nat
      BY DEF IInv, TypeOK
    <2>2. ~Open(k) /\ r \in Inside(k)
      <3>1. seen[r][k] = Len(decided[k]) - (IF ~Open(k) /\ r \in Inside(k) THEN 1 ELSE 0)
        BY DEF IInv, History
      <3>2. ~(~Open(k) /\ r \in Inside(k)) => seen[r][k] = Len(decided[k]) - 0
        BY <3>1, Zenon
      <3> QED
        BY <2>1, <3>2
    <2>3. seen[r][k] = Len(decided[k]) - 1
      BY <2>2 DEF IInv, History
    <2> QED
      BY <2>2, <2>3 DEF Inside, At
  <1> QED
    BY <1>1, Invariance, PTL

\* Only the last arrival of a live world combines a round.
LEMMA OnlyALiveWorldDecides ==
  ASSUME IInv, [Next]_vars, Dead PROVE decided' = decided
PROOF
  <1>1. ASSUME NEW r \in Ranks, DepositAndCombine(r) PROVE FALSE
    <2>1. Kind(r) \in Kinds /\ At(r, "deposit", Kind(r)) /\ LastIn(Kind(r))
      BY <1>1 DEF DepositAndCombine, IInv, TypeOK, Kind, At
    <2>2. poison = "none" /\ \A j \in Kinds : ~broken[j]
      BY <2>1, LastArrival
    <2> QED
      BY <2>2 DEF Dead
  <1> QED
    BY <1>1 DEF Next, Step, vars, history, Enter, Acquire, TryOpen, DepositAndWait,
       DepositAndPanic, AwaitOutcome, Leave, Expire, WakeSpuriously, Finished

\* After the first failure of any kind, in any rendezvous of the world, nothing
\* is combined any more.
THEOREM DeadWorldsStayDead == Spec => DeadWorldDecidesNothing
PROOF
  <1>1. IInv /\ [Next]_vars => [Dead => decided' = decided]_vars
    BY OnlyALiveWorldDecides
  <1> QED
    BY <1>1, Invariance, PTL DEF Spec, DeadWorldDecidesNothing

(***************************************************************************)
(* The rendezvous implements the abstract all-reduce.                      *)
(***************************************************************************)
LEMMA AppendRound ==
  ASSUME NEW s \in Seq(Outcomes), NEW out \in Outcomes
  PROVE  /\ ShapesOfRounds(s) \in Seq([Ranks -> Shapes \cup {"f64", "none"}])
         /\ Len(ShapesOfRounds(s)) = Len(s)
         /\ ShapesOfRounds(Append(s, out)) =
              Append(ShapesOfRounds(s), [r \in Ranks |-> out.vals[r].shape])
PROOF
  <1>1. ASSUME NEW v \in Outcomes
        PROVE  [r \in Ranks |-> v.vals[r].shape] \in [Ranks -> Shapes \cup {"f64", "none"}]
    BY DEF Outcomes, Slot, Contribution, NoValue
  <1>2. ShapesOfRounds(s) \in Seq([Ranks -> Shapes \cup {"f64", "none"}])
    BY <1>1 DEF ShapesOfRounds
  <1>3. Len(ShapesOfRounds(s)) = Len(s)
    BY <1>2 DEF ShapesOfRounds
  <1>4. ShapesOfRounds(Append(s, out)) =
          Append(ShapesOfRounds(s), [r \in Ranks |-> out.vals[r].shape])
    <2> DEFINE new == [r \in Ranks |-> out.vals[r].shape]
               t == Append(ShapesOfRounds(s), new)
    <2>1. \A i \in 1..Len(s) + 1 : ShapesOfRounds(Append(s, out))[i] = t[i]
      <3> SUFFICES ASSUME NEW i \in 1..Len(s) + 1
                   PROVE  ShapesOfRounds(Append(s, out))[i] = t[i]
        OBVIOUS
      <3>1. ShapesOfRounds(Append(s, out))[i] = [r \in Ranks |-> Append(s, out)[i].vals[r].shape]
        BY DEF ShapesOfRounds
      <3>2. CASE i = Len(s) + 1
        <4>1. Append(s, out)[i] = out
          BY <3>2
        <4>2. t[i] = new
          BY <1>2, <1>3, <3>2
        <4> QED
          BY <3>1, <4>1, <4>2
      <3>3. CASE i \in 1..Len(s)
        <4>1. Append(s, out)[i] = s[i]
          BY <3>3
        <4>2. t[i] = ShapesOfRounds(s)[i]
          BY <1>2, <1>3, <3>3
        <4>3. ShapesOfRounds(s)[i] = [r \in Ranks |-> s[i].vals[r].shape]
          BY <3>3 DEF ShapesOfRounds
        <4> QED
          BY <3>1, <4>1, <4>2, <4>3
      <3>4. Len(s) \in Nat
        OBVIOUS
      <3>5. i = Len(s) + 1 \/ i \in 1..Len(s)
        BY <3>4
      <3> HIDE DEF t
      <3> QED
        BY <3>2, <3>3, <3>5
    <2>2. ShapesOfRounds(Append(s, out)) = [i \in 1..Len(s) + 1 |-> ShapesOfRounds(Append(s, out))[i]]
      BY DEF ShapesOfRounds
    <2>3. t \in Seq([Ranks -> Shapes \cup {"f64", "none"}]) /\ Len(t) = Len(s) + 1
      BY <1>1, <1>2, <1>3
    <2> HIDE DEF t
    <2>4. t = [i \in 1..Len(s) + 1 |-> t[i]]
      BY <2>3
    <2> QED
      BY <2>1, <2>2, <2>4 DEF t
  <1> QED
    BY <1>2, <1>3, <1>4

LEMMA InitRefines == Init => Abstract!Init
PROOF
  <1> SUFFICES ASSUME Init PROVE Abstract!Init
    OBVIOUS
  <1>1. \A k \in Kinds : ShapesOfRounds(decided[k]) = <<>>
    BY DEF Init, ShapesOfRounds
  <1>2. call \in [Ranks -> [kind : Kinds, shape : Shapes \cup {"f64"}]]
    BY DEF Init, Kinds
  <1>3. Dead = FALSE
    BY DEF Init, Dead
  <1>4. [k \in Kinds |-> ShapesOfRounds(decided[k])] = [k \in Kinds |-> <<>>]
    BY <1>1
  <1>5. [q \in Ranks |-> pc[q] # "idle"] = [q \in Ranks |-> FALSE]
    BY DEF Init
  <1>6. [q \in Ranks |-> IF result[q].status \in {"timeout", "poisoned", "panic"}
                         THEN "failed" ELSE result[q].status] = [q \in Ranks |-> "none"]
    BY DEF Init
  <1>7. seen = [q \in Ranks |-> [k \in Kinds |-> 0]]
    BY DEF Init
  <1> QED
    BY <1>2, <1>3, <1>4, <1>5, <1>6, <1>7 DEF Abstract!Init

\* Steps that no caller can see.
LEMMA HiddenStep ==
  ASSUME UNCHANGED <<call, result, decided, seen>>, Dead' <=> Dead,
         \A q \in Ranks : pc'[q] = "idle" <=> pc[q] = "idle"
  PROVE  UNCHANGED Abstract!vars
PROOF
  <1>1. [q \in Ranks |-> pc[q] # "idle"]' = [q \in Ranks |-> pc[q] # "idle"]
    OBVIOUS
  <1>2. Dead' = Dead
    BY DEF Dead
  <1> QED
    BY <1>1, <1>2 DEF Abstract!vars, ShapesOfRounds

\* A call that returns an error.
LEMMA FailedStep ==
  ASSUME TypeOK, NEW r \in Ranks, pc[r] # "idle",
         NEW status \in {"timeout", "poisoned", "panic"}, FailWith(r, status),
         seen[r][Kind(r)] = Len(decided[Kind(r)]), Dead',
         UNCHANGED <<call, decided, seen>>
  PROVE  Abstract!Fail(r)
PROOF
  <1>1. Kind(r) \in Kinds /\ decided[Kind(r)] \in Seq(Outcomes)
    BY DEF TypeOK, Kind
  <1>2. Len(ShapesOfRounds(decided[Kind(r)])) = Len(decided[Kind(r)])
    BY <1>1 DEF ShapesOfRounds
  <1>3. [q \in Ranks |-> pc[q] # "idle"]' = [[q \in Ranks |-> pc[q] # "idle"] EXCEPT ![r] = FALSE]
    BY DEF FailWith, TypeOK
  <1>4. result' = [result EXCEPT ![r] = [status |-> status, vals |-> EmptySlots]]
    BY DEF FailWith
  <1> DEFINE Answer(res) == IF res.status \in {"timeout", "poisoned", "panic"}
                            THEN "failed" ELSE res.status
  <1>5. [q \in Ranks |-> Answer(result'[q])]
          = [[q \in Ranks |-> Answer(result[q])] EXCEPT ![r] = "failed"]
    BY <1>4 DEF TypeOK
  <1>6. Dead' = TRUE
    BY DEF Dead
  <1>7. [q \in Ranks |-> pc[q] # "idle"][r]
    OBVIOUS
  <1>8. seen[r][call[r].kind] = Len([k \in Kinds |-> ShapesOfRounds(decided[k])][call[r].kind])
    BY <1>1, <1>2 DEF Kind
  <1>9. [k \in Kinds |-> ShapesOfRounds(decided[k])]' = [k \in Kinds |-> ShapesOfRounds(decided[k])]
    BY DEF ShapesOfRounds
  <1> QED
    BY <1>3, <1>5, <1>6, <1>7, <1>8, <1>9 DEF Abstract!Fail

LEMMA EnterRefines ==
  ASSUME IInv, NEW r \in Ranks, Enter(r) PROVE Abstract!Request(r) \/ Abstract!Refuse(r)
PROOF
  <1>1. TypeOK
    BY DEF IInv
  <1>2. \E k \in Kinds, s \in Shapes \cup {"f64"} :
          call' = [call EXCEPT ![r] = [kind |-> k, shape |-> s]]
    BY DEF Enter, ShapesOf
  <1>3. Dead' = Dead /\ UNCHANGED <<decided, seen, poison>> /\ pc[r] = "idle"
    BY DEF Enter, history, Dead
  <1>4. [k \in Kinds |-> ShapesOfRounds(decided[k])]' = [k \in Kinds |-> ShapesOfRounds(decided[k])]
    BY <1>3 DEF ShapesOfRounds
  <1>5. ~[q \in Ranks |-> pc[q] # "idle"][r]
    BY <1>3
  <1> DEFINE Answer(res) == IF res.status \in {"timeout", "poisoned", "panic"}
                            THEN "failed" ELSE res.status
  <1>6. CASE poison = "none"
    <2>1. pc' = [pc EXCEPT ![r] = "opening"] /\ result' = result
      BY <1>6 DEF Enter
    <2>2. [q \in Ranks |-> pc[q] # "idle"]' = [[q \in Ranks |-> pc[q] # "idle"] EXCEPT ![r] = TRUE]
      BY <1>1, <2>1 DEF TypeOK
    <2>3. [q \in Ranks |-> Answer(result[q])]' = [q \in Ranks |-> Answer(result[q])]
      BY <2>1
    <2> QED
      BY <1>2, <1>3, <1>4, <1>5, <2>2, <2>3 DEF Abstract!Request
  <1>7. CASE poison # "none"
    <2>1. /\ pc' = [pc EXCEPT ![r] = "idle"]
          /\ result' = [result EXCEPT ![r] = [status |-> "poisoned", vals |-> EmptySlots]]
      BY <1>7 DEF Enter, FailWith
    <2>2. [q \in Ranks |-> pc[q] # "idle"]' = [q \in Ranks |-> pc[q] # "idle"]
      BY <1>1, <1>3, <2>1 DEF TypeOK
    <2>3. [q \in Ranks |-> Answer(result'[q])]
            = [[q \in Ranks |-> Answer(result[q])] EXCEPT ![r] = "failed"]
      BY <1>1, <2>1 DEF TypeOK
    <2>4. Dead
      BY <1>7 DEF Dead
    <2> QED
      BY <1>2, <1>3, <1>4, <1>5, <2>2, <2>3, <2>4 DEF Abstract!Refuse
  <1> QED
    BY <1>6, <1>7

\* The last arrival is the instant of the reduction.
LEMMA DepositAndCombineRefines ==
  ASSUME IInv, NEW r \in Ranks, DepositAndCombine(r) PROVE Abstract!Next
PROOF
  <1>1. TypeOK
    BY DEF IInv
  <1>2. PICK k \in Kinds : k = Kind(r)
    BY <1>1 DEF TypeOK, Kind
  <1> DEFINE table == WithDeposit(k, r)
             out == Combined(k, table)
  <1>3. At(r, "deposit", k) /\ LastIn(k)
    BY <1>2 DEF DepositAndCombine, At
  <1>4. /\ decided' = [decided EXCEPT ![k] = Append(@, out)]
        /\ IF out.status = "mismatch" THEN poison' = "mismatch" ELSE poison' = "none"
        /\ pc' = [pc EXCEPT ![r] = "leaving"]
        /\ UNCHANGED <<broken, call, result, seen>>
    BY <1>2, <1>3, LastArrival DEF DepositAndCombine, SetPoison
  <1>5. /\ \A q \in Ranks : call[q].kind = k /\ pc[q] # "idle" /\ seen[q][k] = Len(decided[k])
        /\ poison = "none" /\ \A j \in Kinds : ~broken[j]
    <2>1. /\ \A q \in Ranks : Kind(q) = k /\ seen[q][k] = Len(decided[k])
          /\ poison = "none" /\ \A j \in Kinds : ~broken[j]
      BY <1>3, LastArrival
    <2>2. \A q \in Ranks : pc[q] # "idle"
      <3>1. \A q \in Ranks \ {r} : At(q, "waiting", k)
        BY <1>3, LastArrival
      <3> QED
        BY <1>3, <3>1 DEF At
    <2> QED
      BY <2>1, <2>2 DEF Kind
  <1>6. /\ out \in Outcomes /\ out.vals = table
        /\ \A q \in Ranks : table[q].shape = call[q].shape
    BY <1>3, FullTable
  <1>7. out.status = "mismatch" <=> (k = "tensor" /\ ~ \A p, q \in Ranks : call[p].shape = call[q].shape)
    BY <1>6 DEF Combined, Kinds
  <1> HIDE DEF table, out
  <1>8. decided[k] \in Seq(Outcomes)
    BY <1>1 DEF TypeOK
  <1>9. /\ Len(ShapesOfRounds(decided[k])) = Len(decided[k])
        /\ ShapesOfRounds(Append(decided[k], out)) =
             Append(ShapesOfRounds(decided[k]), [q \in Ranks |-> call[q].shape])
    <2>1. [q \in Ranks |-> out.vals[q].shape] = [q \in Ranks |-> call[q].shape]
      BY <1>6
    <2> QED
      BY <1>6, <1>8, <2>1, AppendRound
  <1>10. ~Dead /\ Dead' = (k = "tensor" /\ ~ \A p, q \in Ranks : call[p].shape = call[q].shape)
    <2>1. Dead' <=> poison' # "none"
      BY <1>4, <1>5 DEF Dead
    <2> QED
      BY <1>4, <1>5, <1>7, <2>1 DEF Dead
  <1>11. [q \in Ranks |-> pc[q] # "idle"]' = [q \in Ranks |-> pc[q] # "idle"]
    BY <1>1, <1>4, <1>5 DEF TypeOK
  <1>12. [j \in Kinds |-> ShapesOfRounds(decided[j])]' =
           [[j \in Kinds |-> ShapesOfRounds(decided[j])] EXCEPT
              ![k] = Append(@, [q \in Ranks |-> call[q].shape])]
    <2>1. \A j \in Kinds : decided'[j] = IF j = k THEN Append(decided[k], out) ELSE decided[j]
      BY <1>1, <1>4 DEF TypeOK
    <2>2. \A j \in Kinds : ShapesOfRounds(decided'[j]) =
            IF j = k THEN Append(ShapesOfRounds(decided[k]), [q \in Ranks |-> call[q].shape])
            ELSE ShapesOfRounds(decided[j])
      BY <1>9, <2>1
    <2>3. [j \in Kinds |-> ShapesOfRounds(decided[j])]' = [j \in Kinds |-> ShapesOfRounds(decided'[j])]
      BY DEF ShapesOfRounds
    <2> QED
      BY <2>2, <2>3
  <1>13. Abstract!Decide(k)
    <2>1. \A q \in Ranks : /\ [p \in Ranks |-> pc[p] # "idle"][q]
                           /\ call[q].kind = k
                           /\ seen[q][k] = Len([j \in Kinds |-> ShapesOfRounds(decided[j])][k])
      BY <1>5, <1>9
    <2> QED
      BY <1>4, <1>10, <1>11, <1>12, <2>1 DEF Abstract!Decide, Abstract!Agree
  <1> QED
    BY <1>13 DEF Abstract!Next

\* Collecting the outcome is the return of the call.
LEMMA LeaveRefines ==
  ASSUME IInv, NEW r \in Ranks, Leave(r) PROVE Abstract!Return(r)
PROOF
  <1>1. TypeOK
    BY DEF IInv
  <1>2. PICK k \in Kinds : k = Kind(r)
    BY <1>1 DEF TypeOK, Kind
  <1>3. /\ result' = [result EXCEPT ![r] = outcome[k]]
        /\ seen' = [seen EXCEPT ![r][k] = @ + 1]
        /\ pc' = [pc EXCEPT ![r] = "idle"]
        /\ UNCHANGED <<poison, broken, call, decided>>
        /\ pc[r] = "leaving" /\ call[r].kind = k
    BY <1>2 DEF Leave, Kind
  <1>4. ~Open(k) /\ r \in Inside(k)
    BY <1>2, <1>3 DEF IInv, OpenRound, At, Inside
  <1>5. /\ Len(decided[k]) \in Nat /\ decided[k] \in Seq(Outcomes)
        /\ seen[r][k] = Len(decided[k]) - 1
        /\ Len(decided[k]) > 0 /\ outcome[k] = decided[k][Len(decided[k])]
        /\ outcome[k] = Combined(k, outcome[k].vals)
    <2>1. decided[k] \in Seq(Outcomes) /\ Len(decided[k]) \in Nat
      BY <1>1 DEF TypeOK
    <2>2. seen[r][k] = Len(decided[k]) - 1
      BY <1>4 DEF IInv, History
    <2>3. Len(decided[k]) > 0 /\ outcome[k] = decided[k][Len(decided[k])]
      BY <1>4 DEF IInv, Latest
    <2>4. Len(decided[k]) \in 1..Len(decided[k])
      BY <2>1, <2>3
    <2>5. outcome[k] = Combined(k, outcome[k].vals)
      BY <2>3, <2>4 DEF IInv, Latest
    <2> QED
      BY <2>1, <2>2, <2>3, <2>5
  <1> DEFINE n == Len(decided[k])
             rounds == [j \in Kinds |-> ShapesOfRounds(decided[j])]
             Answer(res) == IF res.status \in {"timeout", "poisoned", "panic"}
                            THEN "failed" ELSE res.status
  <1>6. Len(rounds[k]) = n /\ rounds[k][n] = [q \in Ranks |-> outcome[k].vals[q].shape]
    BY <1>5 DEF ShapesOfRounds
  <1>7. rounds' = rounds
    BY <1>3 DEF ShapesOfRounds
  <1>8. Dead' = Dead
    BY <1>3 DEF Dead
  <1>9. [q \in Ranks |-> pc[q] # "idle"]' = [[q \in Ranks |-> pc[q] # "idle"] EXCEPT ![r] = FALSE]
    BY <1>1, <1>3 DEF TypeOK
  <1>10. Answer(outcome[k]) = IF k = "scalar" \/ Abstract!Uniform(rounds[k][n])
                              THEN "sum" ELSE "mismatch"
    BY <1>5, <1>6 DEF Combined, Abstract!Uniform
  <1>11. [q \in Ranks |-> Answer(result[q])]'
           = [[q \in Ranks |-> Answer(result[q])] EXCEPT ![r] = Answer(outcome[k])]
    BY <1>1, <1>3 DEF TypeOK
  <1>12. seen[r][k] + 1 = n /\ seen[r][k] < Len(rounds[k])
    BY <1>5, <1>6
  <1> HIDE DEF n
  <1> QED
    BY <1>3, <1>7, <1>8, <1>9, <1>10, <1>11, <1>12 DEF Abstract!Return

\* Steps in which a rank only moves on, waits, wakes or fails.
LEMMA OtherStepsRefine ==
  ASSUME IInv, NEW r \in Ranks,
         \/ Acquire(r) \/ TryOpen(r) \/ DepositAndWait(r) \/ DepositAndPanic(r)
         \/ AwaitOutcome(r) \/ Expire(r) \/ WakeSpuriously(r)
  PROVE  Abstract!Next \/ UNCHANGED Abstract!vars
PROOF
  <1>1. TypeOK
    BY DEF IInv
  <1>2. Kind(r) \in Kinds
    BY <1>1 DEF TypeOK, Kind
  <1>3. Open(Kind(r)) \/ pc[r] = "opening" => seen[r][Kind(r)] = Len(decided[Kind(r)])
    <2>1. seen[r][Kind(r)] = Len(decided[Kind(r)])
                             - (IF ~Open(Kind(r)) /\ r \in Inside(Kind(r)) THEN 1 ELSE 0)
      BY <1>2 DEF IInv, History
    <2>2. Open(Kind(r)) \/ pc[r] = "opening" => ~(~Open(Kind(r)) /\ r \in Inside(Kind(r)))
      BY DEF Inside, At
    <2>3. Len(decided[Kind(r)]) \in Nat
      BY <1>1, <1>2 DEF TypeOK
    <2>4. ~(~Open(Kind(r)) /\ r \in Inside(Kind(r)))
            => seen[r][Kind(r)] = Len(decided[Kind(r)]) - 0
      BY <2>1, Zenon
    <2> QED
      BY <2>2, <2>3, <2>4
  <1>4. ASSUME FailWith(r, "timeout") \/ FailWith(r, "poisoned") \/ FailWith(r, "panic"),
               pc[r] # "idle", Open(Kind(r)) \/ pc[r] = "opening", Dead',
               UNCHANGED <<call, decided, seen>>
        PROVE  Abstract!Next
    <2>1. Abstract!Fail(r)
      BY <1>1, <1>3, <1>4, FailedStep
    <2> QED
      BY <2>1 DEF Abstract!Next
  <1>5. ASSUME NEW place, pc[r] # "idle", place # "idle", pc' = [pc EXCEPT ![r] = place],
               UNCHANGED <<call, result, decided, seen, poison, broken>>
        PROVE  UNCHANGED Abstract!vars
    <2>1. \A q \in Ranks : pc'[q] = "idle" <=> pc[q] = "idle"
      BY <1>1, <1>5 DEF TypeOK
    <2>2. Dead' <=> Dead
      BY <1>5 DEF Dead
    <2> QED
      BY <1>5, <2>1, <2>2, HiddenStep
  <1>6. ASSUME UNCHANGED <<pc, call, result, decided, seen, poison, broken>>
        PROVE  UNCHANGED Abstract!vars
    <2>1. Dead' <=> Dead
      BY <1>6 DEF Dead
    <2> QED
      BY <1>6, <2>1, HiddenStep
  <1>7. ASSUME WaitOrPoison(r), pc[r] # "idle", Open(Kind(r)) \/ pc[r] = "opening",
               UNCHANGED <<call, decided, seen, broken>>
        PROVE  Abstract!Next \/ UNCHANGED Abstract!vars
    <2>1. CASE expired[r]
      <3>1. FailWith(r, "timeout") /\ Dead'
        BY <1>7, <2>1 DEF WaitOrPoison, SetPoison, Dead
      <3> QED
        BY <1>4, <1>7, <3>1
    <2>2. CASE ~expired[r]
      BY <1>6, <1>7, <2>2 DEF WaitOrPoison
    <2> QED
      BY <2>1, <2>2
  <1>8. CASE Acquire(r)
    <2>1. CASE broken[Kind(r)]
      <3>1. FailWith(r, "poisoned") /\ Dead' /\ pc[r] # "idle"
        BY <1>8, <2>1 DEF Acquire, SetPoison, Dead
      <3>2. Open(Kind(r))
        BY <1>2, <2>1 DEF IInv, LockDiscipline
      <3> QED
        BY <1>4, <1>8, <3>1, <3>2 DEF Acquire, history
    <2>2. CASE ~broken[Kind(r)]
      BY <1>6, <1>8, <2>2 DEF Acquire, history
    <2> QED
      BY <2>1, <2>2
  <1>9. CASE TryOpen(r)
    <2>1. CASE poison # "none"
      BY <1>4, <1>9, <2>1 DEF TryOpen, Dead, history
    <2>2. CASE poison = "none" /\ Open(Kind(r))
      BY <1>5, <1>9, <2>2 DEF TryOpen, history
    <2>3. CASE poison = "none" /\ ~Open(Kind(r))
      BY <1>7, <1>9, <2>3 DEF TryOpen, history
    <2> QED
      BY <2>1, <2>2, <2>3
  <1>10. CASE AwaitOutcome(r)
    <2>1. CASE ~Open(Kind(r))
      BY <1>5, <1>10, <2>1 DEF AwaitOutcome, history
    <2>2. CASE Open(Kind(r)) /\ poison # "none"
      BY <1>4, <1>10, <2>2 DEF AwaitOutcome, Dead, history
    <2>3. CASE Open(Kind(r)) /\ poison = "none"
      BY <1>7, <1>10, <2>3 DEF AwaitOutcome, history
    <2> QED
      BY <2>1, <2>2, <2>3
  <1>11. CASE DepositAndWait(r)
    BY <1>5, <1>11 DEF DepositAndWait
  <1>12. CASE DepositAndPanic(r)
    <2>1. Open(Kind(r)) /\ pc[r] # "idle"
      BY <1>2, <1>12 DEF DepositAndPanic, IInv, DrainingRound, At
    <2>2. Dead'
      BY <1>1, <1>2, <1>12 DEF DepositAndPanic, Dead, TypeOK
    <2> QED
      BY <1>4, <1>12, <2>1, <2>2 DEF DepositAndPanic
  <1>13. CASE Expire(r) \/ WakeSpuriously(r)
    BY <1>6, <1>13 DEF Expire, WakeSpuriously, history
  <1> QED
    BY <1>8, <1>9, <1>10, <1>11, <1>12, <1>13

\* The rendezvous, with its mutexes, condition variables, deadlines and panics,
\* implements the all-reduce whose every reduction is one instant.
THEOREM Refinement == Spec => ImplementsAllReduce
PROOF
  <1>1. Init => Abstract!Init
    BY InitRefines
  <1>2. IInv /\ [Next]_vars => [Abstract!Next]_(Abstract!vars)
    <2> SUFFICES ASSUME IInv, [Next]_vars PROVE Abstract!Next \/ UNCHANGED Abstract!vars
      OBVIOUS
    <2>1. ASSUME NEW r \in Ranks, Enter(r) PROVE Abstract!Next
      BY <2>1, EnterRefines DEF Abstract!Next
    <2>2. ASSUME NEW r \in Ranks, DepositAndCombine(r) PROVE Abstract!Next
      BY <2>2, DepositAndCombineRefines
    <2>3. ASSUME NEW r \in Ranks, Leave(r) PROVE Abstract!Next
      BY <2>3, LeaveRefines DEF Abstract!Next
    <2>4. ASSUME NEW r \in Ranks,
                 \/ Acquire(r) \/ TryOpen(r) \/ DepositAndWait(r) \/ DepositAndPanic(r)
                 \/ AwaitOutcome(r) \/ Expire(r) \/ WakeSpuriously(r)
          PROVE  Abstract!Next \/ UNCHANGED Abstract!vars
      BY <2>4, OtherStepsRefine
    <2>5. CASE UNCHANGED vars
      <3>1. Dead' <=> Dead
        BY <2>5 DEF Dead, vars
      <3> QED
        BY <2>5, <3>1, HiddenStep DEF vars, history
    <2> QED
      BY <2>1, <2>2, <2>3, <2>4, <2>5 DEF Next, Step, Finished
  <1> QED
    BY <1>1, <1>2, Invariance, PTL DEF Spec, ImplementsAllReduce, Abstract!Spec
=============================================================================
