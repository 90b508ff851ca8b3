------------------------ MODULE SeparatedTrainingProofs ------------------------
(***************************************************************************)
(* What holds of separated training for any number of ranks, jobs, steps,  *)
(* failures, kills and power failures.                                     *)
(*                                                                         *)
(* The inductive invariant TrainInv ties three kinds of logs together.     *)
(* SlotInv: what is visible below a continuation is a prefix of it.        *)
(* RankInv: the receipt of a rank ends at a visible continuation as long   *)
(* as the rank trains, and one entry above it while it saves; its policy,  *)
(* the window it has accepted and its metrics rows are those of that       *)
(* receipt.  JobInv: the living ranks of a job are in one part of a call   *)
(* with one receipt, and above the continuation the job started from there *)
(* is no gap, so that nothing is visible above the step it publishes next. *)
(* A power failure may open gaps, but only when no job is left.            *)
(***************************************************************************)
EXTENDS SeparatedTraining, SequenceTheorems, WellFoundedInduction, TLAPS

(***************************************************************************)
(* Logs, rows, and the latest continuation.                                *)
(***************************************************************************)
\* Some sequence, of whatever entries it has.
IsLog(log) == log \in Seq({log[i] : i \in DOMAIN log})

\* The rows of n steps from the a-th on.
Run(a, n) == [i \in 1..n |-> a + i - 1]

LEMMA LogOf == ASSUME NEW S, NEW log \in Seq(S) PROVE IsLog(log)
<1>1. Len(log) \in Nat /\ DOMAIN log = 1..Len(log) /\ log \in [1..Len(log) -> S]
  BY LenProperties
<1> DEFINE T == {log[i] : i \in DOMAIN log}
<1>2. log \in [1..Len(log) -> T]
  <2>1. \A i \in 1..Len(log) : log[i] \in T
    BY <1>1
  <2> HIDE DEF T
  <2> QED BY <1>1, <2>1
<1> HIDE DEF T
<1>3. log \in Seq(T)
  BY <1>1, <1>2
<1> QED BY <1>3 DEF IsLog, T

LEMMA EmptyLog == IsLog(<< >>) /\ Len(<< >>) = 0 /\ OwnWindows(<< >>)
<1>1. << >> \in Seq({})
  BY EmptySeq
<1>2. Len(<< >>) = 0 /\ DOMAIN << >> = {}
  BY <1>1, LenProperties
<1> QED BY <1>1, <1>2, LogOf DEF OwnWindows

LEMMA LogHas ==
  ASSUME NEW log, IsLog(log) PROVE Len(log) \in Nat /\ DOMAIN log = 1..Len(log)
BY LenProperties DEF IsLog

\* Two logs of one length with the same entries are the same.
LEMMA LogsEqual ==
  ASSUME NEW s, NEW t, IsLog(s), IsLog(t), Len(s) = Len(t), \A i \in 1..Len(s) : s[i] = t[i]
  PROVE  s = t
<1> DEFINE S == {s[i] : i \in DOMAIN s} \cup {t[i] : i \in DOMAIN t}
<1>1. s \in Seq(S)
  BY SeqMonotonic DEF IsLog
<1>2. t \in Seq(S)
  BY SeqMonotonic DEF IsLog
<1> HIDE DEF S
<1> QED BY <1>1, <1>2, SeqEqual

LEMMA PrefixIs ==
  ASSUME NEW log, IsLog(log), NEW n \in 0..Len(log)
  PROVE  /\ IsLog(SubSeq(log, 1, n)) /\ Len(SubSeq(log, 1, n)) = n
         /\ \A i \in 1..n : SubSeq(log, 1, n)[i] = log[i]
<1> DEFINE S == {log[i] : i \in DOMAIN log}
<1>1. log \in Seq(S) /\ Len(log) \in Nat /\ DOMAIN log = 1..Len(log)
  BY LenProperties DEF IsLog
<1>2. \A i \in 1..n : log[i] \in S
  BY <1>1
<1> HIDE DEF S
<1>3. /\ SubSeq(log, 1, n) \in Seq(S)
      /\ Len(SubSeq(log, 1, n)) = IF 1 <= n THEN n - 1 + 1 ELSE 0
      /\ \A i \in 1..(n - 1 + 1) : SubSeq(log, 1, n)[i] = log[1 + i - 1]
  BY <1>1, <1>2, SubSeqProperties
<1>4. IsLog(SubSeq(log, 1, n))
  BY <1>3, LogOf
<1> QED BY <1>1, <1>3, <1>4

LEMMA WholePrefix == ASSUME NEW log, IsLog(log) PROVE SubSeq(log, 1, Len(log)) = log
BY SubSeqFull DEF IsLog

LEMMA PrefixOfPrefix ==
  ASSUME NEW log, IsLog(log), NEW m \in 0..Len(log), NEW n \in 0..m
  PROVE  SubSeq(SubSeq(log, 1, m), 1, n) = SubSeq(log, 1, n)
<1>1. Len(log) \in Nat /\ n \in 0..Len(log)
  BY LogHas
<1>2. IsLog(SubSeq(log, 1, m)) /\ Len(SubSeq(log, 1, m)) = m
      /\ \A i \in 1..m : SubSeq(log, 1, m)[i] = log[i]
  BY PrefixIs
<1>3. IsLog(SubSeq(log, 1, n)) /\ Len(SubSeq(log, 1, n)) = n
      /\ \A i \in 1..n : SubSeq(log, 1, n)[i] = log[i]
  BY <1>1, PrefixIs
<1> DEFINE p == SubSeq(log, 1, m)
<1>4. n \in 0..Len(p)
  BY <1>2
<1> HIDE DEF p
<1>5. IsLog(SubSeq(p, 1, n)) /\ Len(SubSeq(p, 1, n)) = n
      /\ \A i \in 1..n : SubSeq(p, 1, n)[i] = p[i]
  BY <1>2, <1>4, PrefixIs DEF p
<1>6. \A i \in 1..n : SubSeq(p, 1, n)[i] = SubSeq(log, 1, n)[i]
  BY <1>2, <1>3, <1>5 DEF p
<1>7. SubSeq(p, 1, n) = SubSeq(log, 1, n)
  BY <1>3, <1>5, <1>6, LogsEqual
<1> QED BY <1>7 DEF p

LEMMA LogGrows ==
  ASSUME NEW log, IsLog(log), NEW e
  PROVE  /\ IsLog(Append(log, e)) /\ Len(Append(log, e)) = Len(log) + 1
         /\ \A i \in 1..Len(log) : Append(log, e)[i] = log[i]
         /\ Append(log, e)[Len(log) + 1] = e /\ Last(Append(log, e)) = e
         /\ SubSeq(Append(log, e), 1, Len(log)) = log
<1> DEFINE S == {log[i] : i \in DOMAIN log} \cup {e}
<1>1. log \in Seq(S)
  BY SeqMonotonic DEF IsLog
<1>2. e \in S /\ Len(log) \in Nat
  BY LogHas
<1> HIDE DEF S
<1>3. /\ Append(log, e) \in Seq(S) /\ Len(Append(log, e)) = Len(log) + 1
      /\ \A i \in 1..Len(log) : Append(log, e)[i] = log[i]
      /\ Append(log, e)[Len(log) + 1] = e
  BY <1>1, <1>2, AppendProperties
<1>4. IsLog(Append(log, e))
  BY <1>3, LogOf
<1>5. Last(Append(log, e)) = e
  BY <1>3 DEF Last
<1> DEFINE a == Append(log, e)
<1>6. Len(log) \in 0..Len(a)
  BY <1>2, <1>3
<1> HIDE DEF a
<1>7. IsLog(SubSeq(a, 1, Len(log))) /\ Len(SubSeq(a, 1, Len(log))) = Len(log)
      /\ \A i \in 1..Len(log) : SubSeq(a, 1, Len(log))[i] = a[i]
  BY <1>4, <1>6, PrefixIs DEF a
<1>8. \A i \in 1..Len(log) : SubSeq(a, 1, Len(log))[i] = log[i]
  BY <1>3, <1>7 DEF a
<1>9. SubSeq(a, 1, Len(log)) = log
  BY <1>7, <1>8, LogsEqual
<1> QED BY <1>3, <1>4, <1>5, <1>9 DEF a

\* A log goes on with a window that was collected from it.
LEMMA OwnGrows ==
  ASSUME NEW log, IsLog(log), OwnWindows(log), NEW e, e.window.base = log
  PROVE  OwnWindows(Append(log, e))
<1> DEFINE a == Append(log, e)
<1>1. /\ IsLog(a) /\ Len(a) = Len(log) + 1 /\ a[Len(log) + 1] = e
      /\ \A i \in 1..Len(log) : a[i] = log[i]
      /\ SubSeq(a, 1, Len(log)) = log /\ Len(log) \in Nat
  BY LogGrows, LogHas
<1>2. DOMAIN a = 1..(Len(log) + 1) /\ DOMAIN log = 1..Len(log)
  BY <1>1, LogHas
<1> HIDE DEF a
<1>3. ASSUME NEW i \in DOMAIN a PROVE a[i].window.base = SubSeq(a, 1, i - 1)
  <2>1. CASE i = Len(log) + 1
    BY <2>1, <1>1
  <2>2. CASE i \in 1..Len(log)
    <3>1. i - 1 \in 0..Len(log) /\ Len(log) \in 0..Len(a)
      BY <2>2, <1>1
    <3>2. SubSeq(SubSeq(a, 1, Len(log)), 1, i - 1) = SubSeq(a, 1, i - 1)
      BY <3>1, <1>1, PrefixOfPrefix
    <3>3. log[i].window.base = SubSeq(log, 1, i - 1)
      BY <2>2, <1>2 DEF OwnWindows
    <3> QED BY <3>2, <3>3, <1>1, <2>2
  <2> QED BY <2>1, <2>2, <1>1, <1>2
<1> QED BY <1>3 DEF OwnWindows, a

LEMMA RunIs ==
  ASSUME NEW a \in Nat, NEW n \in Int
  PROVE  /\ IsLog(Run(a, n)) /\ Len(Run(a, n)) = (IF n > 0 THEN n ELSE 0)
         /\ \A i \in 1..n : Run(a, n)[i] = a + i - 1
         /\ n <= 0 => Run(a, n) = << >>
<1>1. CASE n > 0
  <2>1. Run(a, n) \in [1..n -> Nat] /\ n \in Nat
    BY <1>1 DEF Run
  <2>2. Run(a, n) \in Seq(Nat) /\ Len(Run(a, n)) = n
    BY <2>1
  <2>3. \A i \in 1..n : Run(a, n)[i] = a + i - 1
    BY DEF Run
  <2> QED BY <1>1, <2>2, <2>3, LogOf
<1>2. CASE n <= 0
  <2>1. 1..n = {}
    BY <1>2
  <2>2. Run(a, n) = << >>
    BY <2>1 DEF Run
  <2> QED BY <1>2, <2>1, <2>2, EmptyLog
<1> QED BY <1>1, <1>2

LEMMA RunGrows ==
  ASSUME NEW a \in Nat, NEW n \in Nat
  PROVE  Append(Run(a, n), a + n) = Run(a, n + 1)
<1> DEFINE s == Append(Run(a, n), a + n)
<1>1. IsLog(Run(a, n)) /\ Len(Run(a, n)) = n /\ \A i \in 1..n : Run(a, n)[i] = a + i - 1
  BY RunIs
<1>2. IsLog(s) /\ Len(s) = n + 1 /\ s[n + 1] = a + n
      /\ \A i \in 1..n : s[i] = a + i - 1
  BY <1>1, LogGrows
<1>3. IsLog(Run(a, n + 1)) /\ Len(Run(a, n + 1)) = n + 1
      /\ \A i \in 1..(n + 1) : Run(a, n + 1)[i] = a + i - 1
  <2>1. n + 1 \in Int /\ n + 1 > 0
    OBVIOUS
  <2> QED BY <2>1, RunIs
<1> HIDE DEF s
<1>4. \A i \in 1..(n + 1) : s[i] = Run(a, n + 1)[i]
  BY <1>2, <1>3
<1> QED BY <1>2, <1>3, <1>4, LogsEqual DEF s

(***************************************************************************)
(* The least and the greatest.                                             *)
(***************************************************************************)
LEMMA LeastNatural == ASSUME NEW S, S \subseteq Nat, S # {} PROVE \E i \in S : \A j \in S : i <= j
<1> DEFINE R == OpToRel(<, Nat)
<1>1. IsWellFoundedOn(R, Nat)
  BY NatLessThanWellFounded
<1>2. R = {p \in Nat \X Nat : p[1] < p[2]}
  BY DEF OpToRel
<1> HIDE DEF R
<1>3. PICK i \in S : \A j \in S : ~ (<<j, i>> \in R)
  BY <1>1, WFMin
<1>4. ASSUME NEW j \in S PROVE i <= j
  <2>1. j \in Nat /\ i \in Nat
    OBVIOUS
  <2>2. ~ (<<j, i>> \in {p \in Nat \X Nat : p[1] < p[2]})
    BY <1>2, <1>3
  <2>3. <<j, i>> \in Nat \X Nat /\ <<j, i>>[1] = j /\ <<j, i>>[2] = i
    BY <2>1
  <2>4. ~ (j < i)
    BY <2>2, <2>3
  <2> QED BY <2>1, <2>4
<1> QED BY <1>3, <1>4

LEMMA MaxIs ==
  ASSUME NEW n \in Nat, NEW S \in SUBSET (0..n), S # {}
  PROVE  Max(S) \in S /\ \A k \in S : k <= Max(S)
<1> DEFINE D == {n - k : k \in S}
<1>1. D \subseteq Nat /\ D # {}
  <2>1. \A k \in S : n - k \in Nat
    OBVIOUS
  <2> QED BY <2>1
<1>2. PICK d \in D : \A e \in D : d <= e
  BY <1>1, LeastNatural
<1>3. PICK m \in S : d = n - m
  BY <1>2
<1>4. \A k \in S : m >= k
  BY <1>2, <1>3
<1> QED BY <1>4 DEF Max

LEMMA MinIs ==
  ASSUME NEW a \in Int, NEW b \in Int PROVE Min({a, b}) = IF a <= b THEN a ELSE b
<1>1. \A x \in {a, b} : (\A y \in {a, b} : x <= y) => x = IF a <= b THEN a ELSE b
  OBVIOUS
<1>2. \E x \in {a, b} : \A y \in {a, b} : x <= y
  <2>1. CASE a <= b
    BY <2>1
  <2>2. CASE b <= a
    BY <2>2
  <2> QED BY <2>1, <2>2
<1> QED BY <1>1, <1>2 DEF Min

(***************************************************************************)
(* The invariant.                                                          *)
(***************************************************************************)
Working == {"discover", "load", "unload", "read", "update", "append", "truncate", "rollback",
            "check", "save", "settle"}
Reading == {"read", "update", "append", "truncate", "rollback"}
Saving == {"check", "save", "settle"}

\* A table with a row per job and a cell per rank.
Table(f) == f = [j \in Jobs |-> [r \in Ranks |-> f[j][r]]]

TypeInv ==
  /\ windows = [k \in 0..(Steps - 1) |-> windows[k]]
  /\ slots = [k \in 1..Steps |-> slots[k]]
  /\ phase \in [Jobs -> [Ranks -> Working \cup Ended]]
  /\ entered \in [Jobs -> SUBSET Ranks] /\ failed \in [Jobs -> SUBSET Ranks]
  /\ unsure \in [Jobs -> BOOLEAN] /\ untidy \in [Jobs -> BOOLEAN]
  /\ resume \in [Jobs -> 0..Steps]
  /\ Table(policy) /\ Table(receipt)
  /\ rows \in [Jobs -> [Ranks -> Seq(0..Steps)]]

\* A visible continuation holds its own log, and those below it are its prefixes.
SlotInv ==
  /\ \A k \in 1..Steps : Visible(k) =>
       /\ IsLog(slots[k].state) /\ Len(slots[k].state) = k
       /\ OwnWindows(slots[k].state)
  /\ \A k \in 1..Steps, m \in 1..Steps : k < m /\ Visible(k) /\ Visible(m) =>
       slots[k].state = SubSeq(slots[m].state, 1, k)
  /\ settled \subseteq {k \in 1..Steps : Visible(k)}

\* A rank that has ended its part without a failure.
Fine(j, r) == r \in entered[j] \ failed[j]

Holds(j, r, log) == policy[j][r] = [adapter |-> log, sampler |-> log]
Kept(j, r) == Run(resume[j], Step(j, r) - resume[j])
StoredAt(k, log) == k = 0 \/ (Visible(k) /\ slots[k].state = log)

\* The reductions: an ended rank waits in none, and only rank 0 settles.
Waits(j, r) ==
  /\ IsLog(receipt[j][r]) /\ OwnWindows(receipt[j][r])
  /\ r \in entered[j] => ~Over(j, r)
  /\ r \in failed[j] => r \in entered[j]
  /\ phase[j][r] = "settle" => r = Primary
  /\ phase[j][r] = "save" /\ r = Primary => ~Fine(j, r)

\* The restore of a continuation.
Begins(j, r) ==
  /\ phase[j][r] = "discover" => receipt[j][r] = Genesis /\ policy[j][r] = Fresh
  /\ phase[j][r] \in {"discover", "load", "unload"} => rows[j][r] = << >>
  /\ phase[j][r] = "load" => resume[j] # 0
  /\ phase[j][r] = "load" /\ Fine(j, r) =>
       StoredAt(resume[j], receipt[j][r]) /\ Holds(j, r, receipt[j][r])
  /\ phase[j][r] = "unload" /\ Fine(j, r) => receipt[j][r] = Genesis /\ policy[j][r] = Fresh

\* The receipt of a rank and the continuations that are visible.
Stands(j, r) ==
  /\ phase[j][r] \in Reading =>
       /\ resume[j] <= Step(j, r) /\ Step(j, r) < Steps
       /\ StoredAt(Step(j, r), receipt[j][r])
  /\ phase[j][r] \in Saving =>
       /\ resume[j] < Step(j, r) /\ Step(j, r) <= Steps
       /\ StoredAt(Step(j, r) - 1, SubSeq(receipt[j][r], 1, Step(j, r) - 1))
       /\ Last(receipt[j][r]).by[1] = j
  /\ phase[j][r] = "settle" =>
       slots[Step(j, r)] = [what |-> "continuation", state |-> receipt[j][r]]

\* The window that a rank has accepted is of its own receipt.
Accepted(j, r) ==
  phase[j][r] \in {"update", "append"} \/ (phase[j][r] = "read" /\ Fine(j, r)) =>
    windows[Step(j, r)].what = "window" /\ windows[Step(j, r)].base = receipt[j][r]

\* The policy, and the receipt or the one to come.
Carries(j, r) ==
  /\ phase[j][r] \in {"read", "stop", "ambiguous", "done"} \cup Saving
       \/ (phase[j][r] = "rollback" /\ Fine(j, r)) => Holds(j, r, receipt[j][r])
  /\ phase[j][r] = "append" \/ (phase[j][r] = "update" /\ Fine(j, r)) => Holds(j, r, Next_(j, r))

\* The metrics rows; in between there may be one more, or a torn one.
Roughly(j, r) == rows[j][r] = Kept(j, r) \/ \E x \in 0..Steps : rows[j][r] = Append(Kept(j, r), x)
Writes(j, r) ==
  r \in Streams /\ ~untidy[j] =>
    /\ phase[j][r] \in {"read", "update", "rollback", "stop", "ambiguous", "done"} \cup Saving
         \/ (phase[j][r] = "append" /\ r \notin entered[j])
         \/ (phase[j][r] = "truncate" /\ Fine(j, r)) => rows[j][r] = Kept(j, r)
    /\ phase[j][r] \in {"append", "truncate"} => Roughly(j, r)
    /\ phase[j][r] = "append" /\ Fine(j, r) => rows[j][r] = Append(Kept(j, r), Step(j, r))

HasRow(j, r, k) == \E i \in DOMAIN rows[j][r] : rows[j][r][i] = k
Appended(j, r) ==
  r \in Streams /\ phase[j][r] = "append" /\ Fine(j, r) => HasRow(j, r, Step(j, r))

RankInv(j, r) ==
  /\ Waits(j, r) /\ Begins(j, r) /\ Stands(j, r) /\ Accepted(j, r) /\ Carries(j, r)
  /\ Writes(j, r) /\ Appended(j, r)

Part(j, r) == IF phase[j][r] = "settle" THEN "save" ELSE phase[j][r]

\* The ranks that live are in one part of a call, and hold one receipt.
Together(j) ==
  \A r, s \in Ranks : ~Over(j, r) /\ ~Over(j, s) =>
    /\ Part(j, r) = Part(j, s)
    /\ phase[j][r] \in Reading \cup Saving => receipt[j][r] = receipt[j][s]

NotBegun(j) ==
  phase[j][Primary] = "discover" => \A r \in Ranks : receipt[j][r] = Genesis /\ rows[j][r] = << >>

\* Above the continuation that a job has found there is no gap.
Anchored(j) == Fine(j, Primary) \/ \E r \in Ranks : ~Over(j, r) /\ phase[j][r] # "discover"
NoGap(n) == \A k \in 2..Steps : k > n /\ Visible(k) => Visible(k - 1)
NoGapAbove(j) == Anchored(j) => NoGap(resume[j])

\* The rows of a step come before its continuation.
RowsOfStep(j) ==
  phase[j][Primary] \in Saving => \A r \in Streams : HasRow(j, r, Step(j, Primary) - 1)

JobInv(j) == Together(j) /\ NotBegun(j) /\ NoGapAbove(j) /\ RowsOfStep(j)

TrainInv == TypeInv /\ SlotInv /\ \A j \in Jobs : JobInv(j) /\ \A r \in Ranks : RankInv(j, r)

(***************************************************************************)
(* What a step leaves alone.                                               *)
(***************************************************************************)
\* Nothing of rank r of job j.
Still(j, r) ==
  /\ phase'[j][r] = phase[j][r]
  /\ r \in entered'[j] <=> r \in entered[j]
  /\ r \in failed'[j] <=> r \in failed[j]
  /\ resume'[j] = resume[j] /\ untidy'[j] = untidy[j]
  /\ policy'[j][r] = policy[j][r] /\ receipt'[j][r] = receipt[j][r] /\ rows'[j][r] = rows[j][r]

\* No window and no continuation that is there; and a new one leaves no gap.
DiskStays ==
  /\ outages' = outages
  /\ \A k \in 1..Steps : Visible(k) => slots'[k] = slots[k]
  /\ \A k \in 0..(Steps - 1) : windows[k].what = "window" => windows'[k] = windows[k]
  /\ \A k \in 2..Steps : slots'[k].what = "continuation" /\ ~Visible(k) => Visible(k - 1)

LEMMA StoredStays ==
  ASSUME DiskStays, NEW k \in 0..Steps, NEW log, StoredAt(k, log)
  PROVE  k = 0 \/ (slots'[k].what = "continuation" /\ slots'[k].state = log)
BY DEF DiskStays, StoredAt, Visible

LEMMA NoGapStays ==
  ASSUME DiskStays, NEW n \in 0..Steps, NoGap(n)
  PROVE  \A k \in 2..Steps : k > n /\ slots'[k].what = "continuation" =>
           slots'[k - 1].what = "continuation"
<1>1. ASSUME NEW k \in 2..Steps, k > n, slots'[k].what = "continuation" PROVE Visible(k - 1)
  <2>1. CASE Visible(k)
    BY <1>1, <2>1 DEF NoGap
  <2>2. CASE ~Visible(k)
    BY <1>1, <2>2 DEF DiskStays
  <2> QED BY <2>1, <2>2
<1>2. \A k \in 2..Steps : k - 1 \in 1..Steps
  BY TrainingAssumption
<1> QED BY <1>1, <1>2 DEF DiskStays, Visible

LEMMA StillRank ==
  ASSUME TypeInv, NEW j \in Jobs, NEW r \in Ranks, RankInv(j, r), Still(j, r), DiskStays
  PROVE  RankInv(j, r)'
<1>0. IsLog(receipt[j][r]) /\ Step(j, r) \in Nat /\ resume[j] \in 0..Steps /\ Steps \in Nat
  BY LogHas, TrainingAssumption DEF RankInv, Waits, Step, TypeInv
<1>1. Step(j, r)' = Step(j, r) /\ Kept(j, r)' = Kept(j, r) /\ (Fine(j, r)' <=> Fine(j, r))
      /\ (Over(j, r)' <=> Over(j, r))
  BY DEF Still, Step, Kept, Fine, Over
<1>2. Waits(j, r)'
  BY <1>1 DEF RankInv, Waits, Still
<1>3. Begins(j, r)'
  <2>1. StoredAt(resume[j], receipt[j][r]) => StoredAt(resume[j], receipt[j][r])'
    BY <1>0, StoredStays DEF Still, StoredAt, Visible
  <2> QED BY <1>1, <2>1 DEF RankInv, Begins, Still, Holds
<1>4. Stands(j, r)'
  <2>1. ASSUME phase[j][r] \in Reading
        PROVE  StoredAt(Step(j, r), receipt[j][r])'
    BY <2>1, <1>0, <1>1, StoredStays DEF Still, StoredAt, Visible, RankInv, Stands
  <2>2. ASSUME phase[j][r] \in Saving
        PROVE  StoredAt(Step(j, r) - 1, SubSeq(receipt[j][r], 1, Step(j, r) - 1))'
    <3>1. /\ Step(j, r) - 1 \in 0..Steps
          /\ StoredAt(Step(j, r) - 1, SubSeq(receipt[j][r], 1, Step(j, r) - 1))
      BY <2>2, <1>0 DEF RankInv, Stands
    <3> QED BY <3>1, <1>1, StoredStays DEF Still, StoredAt, Visible
  <2>3. ASSUME phase[j][r] = "settle" PROVE slots'[Step(j, r)] = slots[Step(j, r)]
    <3>1. slots[Step(j, r)].what = "continuation" /\ Step(j, r) \in 1..Steps
      BY <2>3, <1>0 DEF RankInv, Stands, Saving
    <3> QED BY <3>1 DEF DiskStays, Visible
  <2> QED BY <1>1, <2>1, <2>2, <2>3 DEF RankInv, Stands, Still
<1>5. ASSUME phase[j][r] \in {"update", "append"} \/ (phase[j][r] = "read" /\ Fine(j, r))
      PROVE  /\ windows[Step(j, r)].what = "window" /\ windows[Step(j, r)].base = receipt[j][r]
             /\ windows'[Step(j, r)] = windows[Step(j, r)]
  <2>1. Step(j, r) \in 0..(Steps - 1)
    BY <1>5, <1>0 DEF RankInv, Stands, Reading
  <2>2. windows[Step(j, r)].what = "window" /\ windows[Step(j, r)].base = receipt[j][r]
    BY <1>5 DEF RankInv, Accepted
  <2> QED BY <2>1, <2>2 DEF DiskStays
<1>6. Accepted(j, r)'
  BY <1>1, <1>5 DEF Accepted, Still
<1>7. Carries(j, r)'
  <2>1. ASSUME phase[j][r] = "append" \/ (phase[j][r] = "update" /\ Fine(j, r))
        PROVE  Next_(j, r)' = Next_(j, r)
    BY <2>1, <1>1, <1>5 DEF Next_, Still, DiskStays
  <2> QED BY <1>1, <2>1 DEF RankInv, Carries, Still, Holds
<1>8. Writes(j, r)'
  BY <1>1 DEF RankInv, Writes, Roughly, Still
<1>9. Appended(j, r)'
  BY <1>1 DEF RankInv, Appended, HasRow, Still
<1> QED BY <1>2, <1>3, <1>4, <1>6, <1>7, <1>8, <1>9 DEF RankInv

(***************************************************************************)
(* A step of one rank.                                                     *)
(***************************************************************************)
OthersStill(j, r) == \A i \in Jobs, s \in Ranks : i # j \/ s # r => Still(i, s)

\* The rank stays in its part of the call, with its receipt, or has ended.
Follows(j, r) ==
  /\ resume'[j] = resume[j]
  /\ \/ phase'[j][r] \in Ended
     \/ /\ phase'[j][r] = phase[j][r] \/ (phase[j][r] = "save" /\ phase'[j][r] = "settle")
        /\ phase[j][r] \in Reading \cup Saving => receipt'[j][r] = receipt[j][r]
  /\ phase[j][r] = "discover" => receipt'[j][r] \in {receipt[j][r], Genesis}
  /\ phase[j][r] \in {"append", "truncate"} \/ rows'[j][r] = rows[j][r]
  /\ r \in entered'[j] => r \in entered[j] \/ phase[j][r] # "discover" \/ r # Primary \/ r \in failed'[j]
  /\ r \in entered'[j] \ failed'[j] /\ r \in entered[j] => r \notin failed[j]

LEMMA StillJob ==
  ASSUME TypeInv, DiskStays, NEW j \in Jobs, JobInv(j), \A r \in Ranks : Still(j, r)
  PROVE  JobInv(j)'
<1>0. Primary \in Ranks /\ Streams \subseteq Ranks
  BY TrainingAssumption
<1>1. \A r \in Ranks : /\ Step(j, r)' = Step(j, r) /\ (Over(j, r)' <=> Over(j, r)) /\ Part(j, r)' = Part(j, r)
                       /\ (Fine(j, r)' <=> Fine(j, r))
  BY DEF Still, Step, Over, Part, Fine
<1>2. Together(j)'
  BY <1>1 DEF JobInv, Together, Still
<1>3. NotBegun(j)'
  BY <1>0 DEF JobInv, NotBegun, Still
<1>4. NoGapAbove(j)'
  <2>1. Anchored(j)' => Anchored(j)
    BY <1>0, <1>1 DEF Anchored, Still
  <2>2. resume'[j] = resume[j] /\ resume[j] \in 0..Steps
    BY <1>0 DEF Still, TypeInv
  <2> QED BY <2>1, <2>2, NoGapStays DEF JobInv, NoGapAbove, NoGap, Visible
<1>5. RowsOfStep(j)'
  BY <1>0, <1>1 DEF JobInv, RowsOfStep, HasRow, Still
<1> QED BY <1>2, <1>3, <1>4, <1>5 DEF JobInv

LEMMA JobFollows ==
  ASSUME TypeInv, DiskStays, NEW j \in Jobs, NEW r \in Ranks, JobInv(j), \A s \in Ranks : RankInv(j, s),
         ~Over(j, r), OthersStill(j, r), Follows(j, r)
  PROVE  JobInv(j)'
<1>0. Primary \in Ranks /\ Streams \subseteq Ranks
  BY TrainingAssumption
<1>1. \A s \in Ranks \ {r} :
        /\ Step(j, s)' = Step(j, s) /\ (Over(j, s)' <=> Over(j, s)) /\ Part(j, s)' = Part(j, s)
        /\ (Fine(j, s)' <=> Fine(j, s)) /\ phase'[j][s] = phase[j][s]
        /\ receipt'[j][s] = receipt[j][s] /\ rows'[j][s] = rows[j][s]
  BY DEF OthersStill, Still, Step, Over, Part, Fine
<1>2. ~Over(j, r)' => /\ Part(j, r)' = Part(j, r) /\ phase[j][r] \notin Ended
                      /\ phase'[j][r] \in Reading \cup Saving <=> phase[j][r] \in Reading \cup Saving
                      /\ phase[j][r] \in Reading \cup Saving => receipt'[j][r] = receipt[j][r]
  BY DEF Follows, Over, Part, Reading, Saving
<1>3. Together(j)'
  <2>1. ASSUME NEW s \in Ranks, NEW t \in Ranks, ~Over(j, s)', ~Over(j, t)'
        PROVE  Part(j, s)' = Part(j, t)' /\ (phase'[j][s] \in Reading \cup Saving => receipt'[j][s] = receipt'[j][t])
    <3>1. ~Over(j, s) /\ ~Over(j, t)
      BY <1>1, <2>1
    <3>2. /\ Part(j, s) = Part(j, t)
          /\ phase[j][s] \in Reading \cup Saving => receipt[j][s] = receipt[j][t]
          /\ phase[j][t] \in Reading \cup Saving => receipt[j][s] = receipt[j][t]
      BY <3>1 DEF JobInv, Together
    <3>3. phase[j][s] \in Reading \cup Saving <=> phase[j][t] \in Reading \cup Saving
      BY <3>2 DEF Part, Reading, Saving
    <3>4. Part(j, s)' = Part(j, s) /\ Part(j, t)' = Part(j, t)
      BY <1>1, <1>2, <2>1
    <3>5. phase'[j][s] \in Reading \cup Saving => /\ receipt'[j][s] = receipt[j][s] /\ receipt'[j][t] = receipt[j][t]
                                                  /\ phase[j][s] \in Reading \cup Saving
      BY <1>1, <1>2, <2>1, <3>3
    <3> QED BY <3>2, <3>4, <3>5
  <2> QED BY <2>1 DEF Together
<1>4. NotBegun(j)'
  <2>1. ASSUME phase'[j][Primary] = "discover"
        PROVE  \A s \in Ranks : receipt'[j][s] = Genesis /\ rows'[j][s] = << >>
    <3>1. phase[j][Primary] = "discover"
      BY <2>1, <1>0, <1>1 DEF Follows, Ended
    <3>2. phase[j][r] = "discover"
      BY <3>1, <1>0 DEF JobInv, Together, Part, Over, Ended
    <3>3. \A s \in Ranks : receipt[j][s] = Genesis /\ rows[j][s] = << >>
      BY <3>1 DEF JobInv, NotBegun
    <3>4. receipt'[j][r] = Genesis /\ rows'[j][r] = << >>
      BY <3>2, <3>3 DEF Follows
    <3> QED BY <3>3, <3>4, <1>1
  <2> QED BY <2>1 DEF NotBegun
<1>5. NoGapAbove(j)'
  <2>1. Anchored(j)' => Anchored(j)
    <3>1. ASSUME Fine(j, Primary)' PROVE Anchored(j)
      <4>1. CASE r = Primary
        <5>1. CASE phase[j][r] # "discover"
          BY <5>1 DEF Anchored
        <5>2. CASE phase[j][r] = "discover"
          BY <3>1, <4>1, <5>2 DEF Follows, Fine, Anchored
        <5> QED BY <5>1, <5>2
      <4>2. CASE r # Primary
        BY <4>2, <3>1, <1>0, <1>1 DEF Anchored
      <4> QED BY <4>1, <4>2
    <3>2. ASSUME NEW s \in Ranks, ~Over(j, s)', phase'[j][s] # "discover" PROVE Anchored(j)
      BY <3>2, <1>1, <1>2 DEF Anchored, Part, Over, Follows, Ended
    <3> QED BY <3>1, <3>2 DEF Anchored
  <2>2. resume'[j] = resume[j] /\ resume[j] \in 0..Steps
    BY DEF Follows, TypeInv
  <2> QED BY <2>1, <2>2, NoGapStays DEF JobInv, NoGapAbove, NoGap, Visible
<1>6. RowsOfStep(j)'
  <2>1. ASSUME phase'[j][Primary] \in Saving
        PROVE  \A s \in Streams : HasRow(j, s, Step(j, Primary) - 1)'
    <3>1. phase[j][Primary] \in Saving /\ Step(j, Primary)' = Step(j, Primary)
      BY <2>1, <1>0, <1>1 DEF Follows, Ended, Saving, Step
    <3>2. phase[j][r] \in Saving
      BY <3>1, <1>0 DEF JobInv, Together, Part, Over, Ended, Saving
    <3>3. rows'[j][r] = rows[j][r]
      BY <3>2 DEF Follows, Saving
    <3>4. \A s \in Streams : HasRow(j, s, Step(j, Primary) - 1) /\ rows'[j][s] = rows[j][s]
      BY <3>1, <3>3, <1>0, <1>1 DEF JobInv, RowsOfStep
    <3> QED BY <3>1, <3>4 DEF HasRow
  <2> QED BY <2>1 DEF RowsOfStep
<1> QED BY <1>3, <1>4, <1>5, <1>6 DEF JobInv

LEMMA RankSteps ==
  ASSUME TrainInv, NEW j \in Jobs, NEW r \in Ranks, ~Over(j, r), OthersStill(j, r), Follows(j, r), DiskStays,
         TypeInv', SlotInv', RankInv(j, r)'
  PROVE  TrainInv'
<1>1. ASSUME NEW i \in Jobs PROVE JobInv(i)'
  <2>1. CASE i = j
    BY <2>1, JobFollows DEF TrainInv
  <2>2. CASE i # j
    <3>1. \A s \in Ranks : Still(i, s)
      BY <2>2 DEF OthersStill
    <3> QED BY <3>1, StillJob DEF TrainInv
  <2> QED BY <2>1, <2>2
<1>2. ASSUME NEW i \in Jobs, NEW s \in Ranks PROVE RankInv(i, s)'
  <2>1. CASE i = j /\ s = r
    BY <2>1
  <2>2. CASE i # j \/ s # r
    BY <2>2, StillRank DEF TrainInv, OthersStill
  <2> QED BY <2>1, <2>2
<1> QED BY <1>1, <1>2 DEF TrainInv

LEMMA AllStill ==
  ASSUME TrainInv, \A j \in Jobs, r \in Ranks : Still(j, r), DiskStays, TypeInv', SlotInv'
  PROVE  TrainInv'
<1>1. ASSUME NEW j \in Jobs PROVE JobInv(j)'
  BY StillJob DEF TrainInv
<1>2. ASSUME NEW j \in Jobs, NEW r \in Ranks PROVE RankInv(j, r)'
  BY StillRank DEF TrainInv
<1> QED BY <1>1, <1>2 DEF TrainInv

(***************************************************************************)
(* The part of a rank in a call.                                           *)
(***************************************************************************)
\* A table changes in one cell at most.
Touches(f, g, j, r) ==
  Table(g) /\ \A i \in Jobs, s \in Ranks : i # j \/ s # r => g[i][s] = f[i][s]

LEMMA Untouched == ASSUME NEW f, Table(f), NEW j, NEW r PROVE Touches(f, f, j, r)
  BY DEF Touches

Put(f, j, r, v) == [f EXCEPT ![j][r] = v]

LEMMA PutCell ==
  ASSUME NEW f, Table(f), NEW j \in Jobs, NEW r \in Ranks, NEW v
  PROVE  Touches(f, Put(f, j, r, v), j, r) /\ Put(f, j, r, v)[j][r] = v
<1> DEFINE g == Put(f, j, r, v)
<1>1. f = [i \in Jobs |-> [s \in Ranks |-> f[i][s]]]
  BY DEF Table
<1>2. DOMAIN f = Jobs /\ DOMAIN f[j] = Ranks
  BY <1>1
<1>3. g = [i \in Jobs |-> IF i = j THEN [s \in Ranks |-> IF s = r THEN v ELSE f[j][s]] ELSE f[i]]
  BY <1>1, <1>2 DEF Put
<1>4. \A i \in Jobs : f[i] = [s \in Ranks |-> f[i][s]]
  BY <1>1
<1> HIDE DEF g
<1>5. \A i \in Jobs, s \in Ranks : g[i][s] = IF i = j /\ s = r THEN v ELSE f[i][s]
  BY <1>3
<1>6. \A i \in Jobs : g[i] = [s \in Ranks |-> g[i][s]]
  BY <1>3, <1>4, <1>5
<1>7. g = [i \in Jobs |-> g[i]]
  BY <1>3
<1>8. Table(g)
  BY <1>6, <1>7 DEF Table
<1> QED BY <1>5, <1>8 DEF Touches, g

LEMMA SetCell ==
  ASSUME TypeInv, NEW j \in Jobs, NEW r \in Ranks, NEW a, NEW s, Set(j, r, a, s)
  PROVE  Touches(policy, policy', j, r) /\ policy'[j][r] = [adapter |-> a, sampler |-> s]
<1> DEFINE v == [adapter |-> a, sampler |-> s]
<1>1. Table(policy) /\ policy' = Put(policy, j, r, v)
  BY DEF Set, TypeInv, Put
<1> HIDE DEF v
<1>2. Touches(policy, policy', j, r) /\ policy'[j][r] = v
  BY <1>1, PutCell
<1> QED BY <1>1, <1>2 DEF v

\* Nothing of the disk.
LEMMA DiskSame ==
  ASSUME SlotInv, UNCHANGED <<disk, outages>> PROVE DiskStays /\ SlotInv'
<1>1. slots' = slots /\ windows' = windows /\ settled' = settled /\ outages' = outages
  BY DEF disk
<1> QED BY <1>1 DEF DiskStays, SlotInv, Visible

\* A rank ends its part, with or without a failure.
Ends(j, r, well) ==
  /\ entered' = [entered EXCEPT ![j] = @ \cup {r}]
  /\ failed' = IF well THEN failed ELSE [failed EXCEPT ![j] = @ \cup {r}]

LEMMA LocalStep ==
  ASSUME TrainInv, NEW j \in Jobs, NEW r \in Ranks, NEW well \in BOOLEAN, r \notin entered[j],
         ~Over(j, r),
         LocalOnly, UNCHANGED resume, Ends(j, r, well),
         Touches(policy, policy', j, r), Touches(receipt, receipt', j, r), Touches(rows, rows', j, r),
         rows'[j][r] \in Seq(0..Steps)
  PROVE  /\ TypeInv' /\ OthersStill(j, r) /\ DiskStays /\ SlotInv'
         /\ r \in entered'[j] /\ (Fine(j, r)' <=> well)
         /\ phase' = phase /\ slots' = slots /\ windows' = windows /\ untidy' = untidy /\ outages' = outages
         /\ (r \in failed'[j] => r \in entered'[j]) /\ ~Over(j, r)'
<1> USE DEF TrainInv
<1>1. /\ phase' = phase /\ unsure' = unsure /\ untidy' = untidy /\ resume' = resume
      /\ slots' = slots /\ windows' = windows /\ outages' = outages /\ UNCHANGED <<disk, outages>>
  BY DEF LocalOnly, disk
<1>2. /\ entered' \in [Jobs -> SUBSET Ranks] /\ failed' \in [Jobs -> SUBSET Ranks]
      /\ \A i \in Jobs, s \in Ranks : i # j \/ s # r =>
           (s \in entered'[i] <=> s \in entered[i]) /\ (s \in failed'[i] <=> s \in failed[i])
      /\ r \in entered'[j] /\ (r \in failed'[j] <=> r \in failed[j] \/ ~well)
  BY DEF Ends, TypeInv
<1>3. r \notin failed[j]
  BY DEF RankInv, Waits
<1>4. rows' \in [Jobs -> [Ranks -> Seq(0..Steps)]]
  <2>1. \A i \in Jobs, s \in Ranks : rows'[i][s] \in Seq(0..Steps)
    BY DEF Touches, TypeInv
  <2>2. rows' = [i \in Jobs |-> [s \in Ranks |-> rows'[i][s]]]
    BY DEF Touches, Table
  <2> HIDE DEF TrainInv
  <2>3. [i \in Jobs |-> [s \in Ranks |-> rows'[i][s]]] \in [Jobs -> [Ranks -> Seq(0..Steps)]]
    BY <2>1
  <2> QED BY <2>2, <2>3
<1>5. TypeInv'
  BY <1>1, <1>2, <1>4 DEF TypeInv, Touches
<1>6. OthersStill(j, r)
  BY <1>1, <1>2 DEF OthersStill, Still, Touches
<1>7. DiskStays /\ SlotInv'
  BY <1>1, DiskSame
<1> QED BY <1>1, <1>2, <1>3, <1>5, <1>6, <1>7 DEF Fine, Over

LEMMA RowsAreTable ==
  ASSUME TypeInv PROVE Table(rows) /\ Table(policy) /\ Table(receipt)
<1>1. Table(rows)
  BY DEF TypeInv, Table
<1> QED BY <1>1 DEF TypeInv

LEMMA OutcomeOf ==
  ASSUME NEW j \in Jobs, NEW r \in Ranks
  PROVE  (Good(j, r) => Ends(j, r, TRUE)) /\ (Bad(j, r) => Ends(j, r, FALSE))
BY DEF Good, Bad, Ends

(***************************************************************************)
(* The calls, part by part.                                                *)
(***************************************************************************)
\* A rank ends part p: what it may touch, and how it waits then.
EndsPart(j, r, p, well) ==
  /\ Busy(j, r, p) /\ LocalOnly /\ UNCHANGED resume /\ Ends(j, r, well)
  /\ Touches(policy, policy', j, r) /\ Touches(receipt, receipt', j, r) /\ Touches(rows, rows', j, r)
  /\ rows'[j][r] \in Seq(0..Steps)
  /\ rows'[j][r] = rows[j][r] \/ p \in {"append", "truncate"}
  /\ receipt'[j][r] = receipt[j][r] \/ p \in {"load", "unload"}
  /\ p = "discover" => r # Primary \/ ~well

WaitsIn(j, r, p, well) ==
  /\ phase[j][r] = p /\ phase'[j][r] = p /\ r \notin entered[j] /\ r \in entered'[j]
  /\ (Fine(j, r)' <=> well) /\ (r \in failed'[j] => r \in entered'[j]) /\ ~Over(j, r)'
  /\ slots' = slots /\ windows' = windows /\ untidy'[j] = untidy[j] /\ outages' = outages
  /\ resume'[j] = resume[j]

\* What it leaves to be shown is the invariant of its own rank.
LEMMA PartEnds ==
  ASSUME TrainInv, NEW j \in Jobs, NEW r \in Ranks, NEW p \in Working, NEW well \in BOOLEAN,
         EndsPart(j, r, p, well), WaitsIn(j, r, p, well) => RankInv(j, r)'
  PROVE  TrainInv'
<1> USE DEF EndsPart
<1>1. phase[j][r] = p /\ r \notin entered[j] /\ ~Over(j, r)
  BY DEF Busy, Over, Working, Ended
<1>2. /\ TypeInv' /\ OthersStill(j, r) /\ DiskStays /\ SlotInv'
      /\ r \in entered'[j] /\ (Fine(j, r)' <=> well)
      /\ phase' = phase /\ slots' = slots /\ windows' = windows /\ untidy' = untidy /\ outages' = outages
      /\ (r \in failed'[j] => r \in entered'[j]) /\ ~Over(j, r)'
  BY <1>1, LocalStep
<1>3. RankInv(j, r)'
  BY <1>1, <1>2 DEF WaitsIn
<1>4. Follows(j, r)
  BY <1>1, <1>2 DEF Follows, Reading, Saving, Fine
<1> QED BY <1>1, <1>2, <1>3, <1>4, RankSteps

\* Nothing changes but who waits.
LEMMA OnlyWaits ==
  ASSUME TrainInv, NEW j \in Jobs, NEW r \in Ranks, NEW p \in Working, NEW well \in BOOLEAN,
         Busy(j, r, p), LocalOnly, Ends(j, r, well), UNCHANGED <<resume, policy, receipt, rows>>,
         p = "discover" => r # Primary \/ ~well
  PROVE  EndsPart(j, r, p, well)
<1>1. Table(rows) /\ Table(policy) /\ Table(receipt) /\ rows[j][r] \in Seq(0..Steps)
  BY RowsAreTable DEF TrainInv, TypeInv
<1> QED BY <1>1, Untouched DEF EndsPart

\* The receipt is on the continuation that it was on.
LEMMA StandsOn ==
  ASSUME TrainInv, NEW j \in Jobs, NEW r \in Ranks, NEW p \in Working, NEW well \in BOOLEAN,
         WaitsIn(j, r, p, well), receipt'[j][r] = receipt[j][r]
  PROVE  Stands(j, r)'
<1>1. Step(j, r)' = Step(j, r) /\ Stands(j, r)
  BY DEF Step, TrainInv, RankInv
<1>2. ASSUME NEW k, NEW log, StoredAt(k, log) PROVE k = 0 \/ (slots'[k].what = "continuation" /\ slots'[k].state = log)
  BY <1>2 DEF StoredAt, Visible, WaitsIn
<1>3. ASSUME phase[j][r] \in Reading PROVE StoredAt(Step(j, r), receipt[j][r])'
  <2>1. StoredAt(Step(j, r), receipt[j][r])
    BY <1>1, <1>3 DEF Stands
  <2> QED BY <2>1, <1>1, <1>2 DEF StoredAt, Visible
<1>4. ASSUME phase[j][r] \in Saving
      PROVE  StoredAt(Step(j, r) - 1, SubSeq(receipt[j][r], 1, Step(j, r) - 1))'
  <2>1. StoredAt(Step(j, r) - 1, SubSeq(receipt[j][r], 1, Step(j, r) - 1))
    BY <1>1, <1>4 DEF Stands
  <2> QED BY <2>1, <1>1, <1>2 DEF StoredAt, Visible
<1> QED BY <1>1, <1>3, <1>4 DEF Stands, WaitsIn

LEMMA UnloadHolds == ASSUME TrainInv, NEW j \in Jobs, NEW r \in Ranks, Unload(j, r) PROVE TrainInv'
<1>1. Busy(j, r, "unload") /\ LocalOnly /\ UNCHANGED <<resume, rows>> /\ "unload" \in Working
  BY DEF Unload, Working
<1>2. Table(rows) /\ Table(policy) /\ Table(receipt) /\ rows[j][r] \in Seq(0..Steps)
  BY RowsAreTable DEF TrainInv, TypeInv
<1>3. Touches(rows, rows', j, r)
  BY <1>1, <1>2, Untouched
<1>4. Touches(receipt, receipt', j, r) /\ receipt'[j][r] = Genesis
  <2>1. receipt' = Put(receipt, j, r, Genesis)
    BY DEF Unload, Put
  <2> QED BY <1>2, <2>1, PutCell
<1>5. PICK well \in BOOLEAN : /\ Ends(j, r, well) /\ Touches(policy, policy', j, r)
                              /\ well => policy'[j][r] = Fresh
  <2>1. CASE Good(j, r) /\ Set(j, r, Genesis, Genesis)
    <3>1. Touches(policy, policy', j, r) /\ policy'[j][r] = Fresh
      BY <2>1, SetCell DEF Fresh, TrainInv
    <3> QED BY <2>1, <3>1, OutcomeOf
  <2>2. CASE Bad(j, r) /\ UNCHANGED policy
    BY <2>2, <1>2, Untouched, OutcomeOf
  <2> QED BY <2>1, <2>2 DEF Unload
<1>6. EndsPart(j, r, "unload", well)
  BY <1>1, <1>2, <1>3, <1>4, <1>5 DEF EndsPart
<1>7. ASSUME WaitsIn(j, r, "unload", well) PROVE RankInv(j, r)'
  <2> USE DEF WaitsIn
  <2>1. Waits(j, r)'
    BY <1>7, <1>4, EmptyLog DEF Waits, Genesis
  <2>2. Begins(j, r)' /\ Stands(j, r)' /\ Accepted(j, r)' /\ Carries(j, r)' /\ Writes(j, r)' /\ Appended(j, r)'
    BY <1>7, <1>4, <1>5, <1>1 DEF Begins, Stands, Accepted, Carries, Writes, Appended, Reading, Saving,
       TrainInv, RankInv
  <2> QED BY <2>1, <2>2 DEF RankInv
<1> QED BY <1>1, <1>6, <1>7, PartEnds

LEMMA DiscoverWaits ==
  ASSUME TrainInv, NEW j \in Jobs, NEW r \in Ranks, Discover(j, r), resume' = resume,
         r # Primary \/ Bad(j, r)
  PROVE  TrainInv'
<1>1. PICK well \in BOOLEAN : Ends(j, r, well) /\ (r # Primary \/ ~well)
  BY OutcomeOf DEF Discover
<1>2. EndsPart(j, r, "discover", well)
  BY <1>1, OnlyWaits DEF Discover, Working
<1>3. ASSUME WaitsIn(j, r, "discover", well) PROVE RankInv(j, r)'
  <2>1. receipt'[j][r] = receipt[j][r] /\ policy'[j][r] = policy[j][r] /\ rows'[j][r] = rows[j][r]
    BY DEF Discover
  <2> QED BY <2>1, <1>3 DEF WaitsIn, Waits, Begins, Stands, Accepted, Carries, Writes, Appended, Reading, Saving,
       TrainInv, RankInv
<1> QED BY <1>2, <1>3, PartEnds DEF Working

LEMMA ReadHolds == ASSUME TrainInv, NEW j \in Jobs, NEW r \in Ranks, Read(j, r) PROVE TrainInv'
<1>1. PICK well \in BOOLEAN : Ends(j, r, well) /\ (well => Accepts(j, r))
  BY OutcomeOf DEF Read
<1>2. EndsPart(j, r, "read", well)
  BY <1>1, OnlyWaits DEF Read, Working
<1>3. ASSUME WaitsIn(j, r, "read", well) PROVE RankInv(j, r)'
  <2>1. /\ receipt'[j][r] = receipt[j][r] /\ policy'[j][r] = policy[j][r] /\ rows'[j][r] = rows[j][r]
        /\ resume' = resume
    BY DEF Read
  <2>2. Step(j, r)' = Step(j, r) /\ Kept(j, r)' = Kept(j, r)
    BY <2>1 DEF Step, Kept
  <2>3. Waits(j, r)' /\ Begins(j, r)' /\ Carries(j, r)' /\ Writes(j, r)' /\ Appended(j, r)'
    BY <2>1, <2>2, <1>3 DEF WaitsIn, Waits, Begins, Carries, Writes, Appended, Saving, Holds, TrainInv, RankInv
  <2>4. Stands(j, r)'
    BY <2>1, <1>3, StandsOn DEF Working
  <2>5. Accepted(j, r)'
    BY <2>1, <2>2, <1>1, <1>3 DEF WaitsIn, Accepted, Accepts
  <2> QED BY <2>3, <2>4, <2>5 DEF RankInv
<1> QED BY <1>2, <1>3, PartEnds DEF Working

LEMMA LoadHolds == ASSUME TrainInv, NEW j \in Jobs, NEW r \in Ranks, Load(j, r) PROVE TrainInv'
<1> DEFINE k == resume[j]
           state == slots[k].state
<1>1. Busy(j, r, "load") /\ LocalOnly /\ UNCHANGED <<resume, rows>> /\ "load" \in Working /\ phase[j][r] = "load"
  BY DEF Load, Working, Busy
<1>2. Table(rows) /\ Table(policy) /\ Table(receipt) /\ rows[j][r] \in Seq(0..Steps)
  BY RowsAreTable DEF TrainInv, TypeInv
<1>3. Touches(rows, rows', j, r)
  BY <1>1, <1>2, Untouched
<1>4. k \in 1..Steps
  BY <1>1, TrainingAssumption DEF TrainInv, TypeInv, RankInv, Begins
<1>5. PICK well \in BOOLEAN :
        /\ Ends(j, r, well) /\ Touches(policy, policy', j, r) /\ Touches(receipt, receipt', j, r)
        /\ IF well THEN Visible(k) /\ receipt'[j][r] = state /\ policy'[j][r] = [adapter |-> state, sampler |-> state]
                   ELSE receipt' = receipt
  <2>1. CASE Visible(k) /\ Good(j, r) /\ Set(j, r, state, state) /\ receipt' = [receipt EXCEPT ![j][r] = state]
    <3>1. Touches(policy, policy', j, r) /\ policy'[j][r] = [adapter |-> state, sampler |-> state]
      BY <2>1, SetCell DEF TrainInv
    <3>2. receipt' = Put(receipt, j, r, state)
      BY <2>1 DEF Put
    <3>3. Touches(receipt, receipt', j, r) /\ receipt'[j][r] = state
      BY <3>2, <1>2, PutCell
    <3>4. Ends(j, r, TRUE)
      BY <2>1, OutcomeOf
    <3> HIDE DEF k, state
    <3> QED BY <2>1, <3>1, <3>3, <3>4
  <2>2. CASE Bad(j, r) /\ receipt' = receipt /\ (UNCHANGED policy \/ \E a, s \in {state, Genesis} : Set(j, r, a, s))
    <3>1. Touches(policy, policy', j, r)
      <4>1. CASE UNCHANGED policy
        BY <4>1, <1>2, Untouched
      <4>2. CASE \E a, s \in {state, Genesis} : Set(j, r, a, s)
        BY <4>2, SetCell DEF TrainInv
      <4> QED BY <2>2, <4>1, <4>2
    <3>2. Touches(receipt, receipt', j, r)
      BY <2>2, <1>2, Untouched
    <3>3. Ends(j, r, FALSE)
      BY <2>2, OutcomeOf
    <3> HIDE DEF k, state
    <3> QED BY <2>2, <3>1, <3>2, <3>3
  <2> QED BY <2>1, <2>2 DEF Load
<1>6. EndsPart(j, r, "load", well)
  BY <1>1, <1>2, <1>3, <1>5 DEF EndsPart
<1>7. ASSUME WaitsIn(j, r, "load", well) PROVE RankInv(j, r)'
  <2> USE DEF WaitsIn
  <2>1. Visible(k) => IsLog(state) /\ OwnWindows(state)
    BY <1>4 DEF TrainInv, SlotInv
  <2>2. Waits(j, r)'
    BY <1>7, <1>5, <2>1 DEF Waits, TrainInv, RankInv
  <2>3. Begins(j, r)'
    BY <1>7, <1>5, <1>1 DEF Begins, Holds, StoredAt, Visible, TrainInv, RankInv
  <2>4. Stands(j, r)' /\ Accepted(j, r)' /\ Carries(j, r)' /\ Writes(j, r)' /\ Appended(j, r)'
    BY <1>7 DEF Stands, Accepted, Carries, Writes, Appended, Reading, Saving
  <2> QED BY <2>2, <2>3, <2>4 DEF RankInv
<1> QED BY <1>1, <1>6, <1>7, PartEnds

\* The next receipt is of a longer log.
LEMMA UpdateHolds == ASSUME TrainInv, NEW j \in Jobs, NEW r \in Ranks, Update(j, r) PROVE TrainInv'
<1> DEFINE new == Next_(j, r)
           old == receipt[j][r]
<1>1. Busy(j, r, "update") /\ LocalOnly /\ UNCHANGED <<resume, receipt, rows>> /\ "update" \in Working
  BY DEF Update, Working
<1>2. Table(rows) /\ Table(policy) /\ Table(receipt) /\ rows[j][r] \in Seq(0..Steps)
  BY RowsAreTable DEF TrainInv, TypeInv
<1>3. Touches(rows, rows', j, r) /\ Touches(receipt, receipt', j, r)
  BY <1>1, <1>2, Untouched
<1>4. PICK well \in BOOLEAN :
        /\ Ends(j, r, well) /\ Touches(policy, policy', j, r)
        /\ well => policy'[j][r] = [adapter |-> new, sampler |-> new]
  <2>1. CASE Good(j, r) /\ Set(j, r, new, new)
    <3>1. Touches(policy, policy', j, r) /\ policy'[j][r] = [adapter |-> new, sampler |-> new]
      BY <2>1, SetCell DEF TrainInv
    <3>2. Ends(j, r, TRUE)
      BY <2>1, OutcomeOf
    <3> HIDE DEF new, old
    <3> QED BY <3>1, <3>2
  <2>2. CASE Bad(j, r) /\ (UNCHANGED policy \/ Set(j, r, new, old) \/ Set(j, r, new, new))
    <3>1. Touches(policy, policy', j, r)
      BY <2>2, <1>2, SetCell, Untouched DEF TrainInv
    <3>2. Ends(j, r, FALSE)
      BY <2>2, OutcomeOf
    <3> HIDE DEF new, old
    <3> QED BY <3>1, <3>2
  <2> QED BY <2>1, <2>2 DEF Update
<1>5. EndsPart(j, r, "update", well)
  BY <1>1, <1>2, <1>3, <1>4 DEF EndsPart
<1>6. ASSUME WaitsIn(j, r, "update", well) PROVE RankInv(j, r)'
  <2>1. receipt'[j][r] = receipt[j][r] /\ rows'[j][r] = rows[j][r] /\ resume'[j] = resume[j]
    BY <1>1
  <2>2. Step(j, r)' = Step(j, r) /\ Kept(j, r)' = Kept(j, r) /\ Next_(j, r)' = Next_(j, r)
    BY <2>1, <1>6 DEF Step, Kept, Next_, WaitsIn
  <2>3. Waits(j, r)' /\ Begins(j, r)' /\ Writes(j, r)' /\ Appended(j, r)' /\ Accepted(j, r)'
    BY <2>1, <2>2, <1>6 DEF WaitsIn, Waits, Begins, Writes, Appended, Accepted, Saving, TrainInv, RankInv
  <2>4. Stands(j, r)'
    BY <2>1, <1>6, StandsOn DEF Working
  <2>5. Carries(j, r)'
    BY <2>2, <1>4, <1>6 DEF WaitsIn, Carries, Holds, Saving
  <2> QED BY <2>3, <2>4, <2>5 DEF RankInv
<1> QED BY <1>1, <1>5, <1>6, PartEnds

LEMMA RollbackHolds == ASSUME TrainInv, NEW j \in Jobs, NEW r \in Ranks, Rollback(j, r) PROVE TrainInv'
<1> DEFINE old == receipt[j][r]
<1>1. Busy(j, r, "rollback") /\ LocalOnly /\ UNCHANGED <<resume, receipt, rows>> /\ "rollback" \in Working
  BY DEF Rollback, Working
<1>2. Table(rows) /\ Table(policy) /\ Table(receipt) /\ rows[j][r] \in Seq(0..Steps)
  BY RowsAreTable DEF TrainInv, TypeInv
<1>3. Touches(rows, rows', j, r) /\ Touches(receipt, receipt', j, r)
  BY <1>1, <1>2, Untouched
<1>4. PICK well \in BOOLEAN :
        /\ Ends(j, r, well) /\ Touches(policy, policy', j, r)
        /\ well => policy'[j][r] = [adapter |-> old, sampler |-> old]
  <2>1. CASE Good(j, r) /\ Set(j, r, old, old)
    <3>1. Touches(policy, policy', j, r) /\ policy'[j][r] = [adapter |-> old, sampler |-> old]
      BY <2>1, SetCell DEF TrainInv
    <3>2. Ends(j, r, TRUE)
      BY <2>1, OutcomeOf
    <3> HIDE DEF old
    <3> QED BY <3>1, <3>2
  <2>2. CASE Bad(j, r) /\ (Set(j, r, old, policy[j][r].sampler) \/ Set(j, r, policy[j][r].adapter, old))
    <3>1. Touches(policy, policy', j, r)
      BY <2>2, SetCell DEF TrainInv
    <3>2. Ends(j, r, FALSE)
      BY <2>2, OutcomeOf
    <3> HIDE DEF old
    <3> QED BY <3>1, <3>2
  <2> QED BY <2>1, <2>2 DEF Rollback
<1>5. EndsPart(j, r, "rollback", well)
  BY <1>1, <1>2, <1>3, <1>4 DEF EndsPart
<1>6. ASSUME WaitsIn(j, r, "rollback", well) PROVE RankInv(j, r)'
  <2>1. receipt'[j][r] = receipt[j][r] /\ rows'[j][r] = rows[j][r] /\ resume'[j] = resume[j]
    BY <1>1
  <2>2. Step(j, r)' = Step(j, r) /\ Kept(j, r)' = Kept(j, r)
    BY <2>1, <1>6 DEF Step, Kept, WaitsIn
  <2>3. Waits(j, r)' /\ Begins(j, r)' /\ Writes(j, r)' /\ Appended(j, r)' /\ Accepted(j, r)'
    BY <2>1, <2>2, <1>6 DEF WaitsIn, Waits, Begins, Writes, Appended, Accepted, Saving, TrainInv, RankInv
  <2>4. Stands(j, r)'
    BY <2>1, <1>6, StandsOn DEF Working
  <2>5. Carries(j, r)'
    BY <2>1, <1>4, <1>6 DEF WaitsIn, Carries, Holds, Saving
  <2> QED BY <2>3, <2>4, <2>5 DEF RankInv
<1> QED BY <1>1, <1>5, <1>6, PartEnds

\* The two parts of a save in which a rank only compares or waits.
LEMMA SaveWaits ==
  ASSUME TrainInv, NEW j \in Jobs, NEW r \in Ranks, CheckReceipt(j, r) \/ AwaitSave(j, r) PROVE TrainInv'
<1>1. PICK well \in BOOLEAN, p \in {"check", "save"} :
        Ends(j, r, well) /\ Busy(j, r, p) /\ (p = "save" => r # Primary)
  BY OutcomeOf DEF CheckReceipt, AwaitSave
<1>2. EndsPart(j, r, p, well) /\ p \in Working
  <2>1. p \in Working
    BY DEF Working
  <2> QED BY <2>1, <1>1, OnlyWaits DEF CheckReceipt, AwaitSave
<1>3. ASSUME WaitsIn(j, r, p, well) PROVE RankInv(j, r)'
  <2>1. /\ receipt'[j][r] = receipt[j][r] /\ rows'[j][r] = rows[j][r]
        /\ resume'[j] = resume[j] /\ policy'[j][r] = policy[j][r]
    BY DEF CheckReceipt, AwaitSave
  <2>2. Step(j, r)' = Step(j, r) /\ Kept(j, r)' = Kept(j, r)
    BY <2>1, <1>3 DEF Step, Kept, WaitsIn
  <2>3. RankInv(j, r) /\ ~Over(j, r)
    BY <1>1 DEF TrainInv, Busy, Over, Ended
  <2>4. Waits(j, r)'
    BY <2>1, <2>3, <1>1, <1>3 DEF WaitsIn, RankInv, Waits
  <2>5. Begins(j, r)' /\ Accepted(j, r)' /\ Appended(j, r)'
    BY <1>1, <1>3 DEF WaitsIn, Begins, Accepted, Appended
  <2>6. Carries(j, r)'
    <3>1. Holds(j, r, receipt[j][r])
      BY <2>3, <1>3, <1>1 DEF WaitsIn, RankInv, Carries, Saving
    <3> QED BY <3>1, <2>1, <1>1, <1>3 DEF WaitsIn, Carries, Holds, Saving
  <2>7. Writes(j, r)'
    <3>1. r \in Streams /\ ~untidy[j] => rows[j][r] = Kept(j, r)
      BY <2>3, <1>3, <1>1 DEF WaitsIn, RankInv, Writes, Saving
    <3> QED BY <3>1, <2>1, <2>2, <1>1, <1>3 DEF WaitsIn, Writes, Saving
  <2>8. Stands(j, r)'
    BY <2>1, <1>2, <1>3, StandsOn
  <2> QED BY <2>4, <2>5, <2>6, <2>7, <2>8 DEF RankInv
<1> QED BY <1>2, <1>3, PartEnds

(***************************************************************************)
(* The metrics rows.                                                       *)
(***************************************************************************)
LEMMA RowGrows ==
  ASSUME NEW s \in Seq(0..Steps), NEW x \in 0..Steps
  PROVE  /\ Append(s, x) \in Seq(0..Steps)
         /\ \E i \in DOMAIN Append(s, x) : Append(s, x)[i] = x
<1>1. /\ Append(s, x) \in Seq(0..Steps) /\ Len(Append(s, x)) = Len(s) + 1
      /\ Append(s, x)[Len(s) + 1] = x
  BY AppendProperties
<1>2. Len(s) \in Nat /\ DOMAIN Append(s, x) = 1..(Len(s) + 1)
  BY <1>1, LenProperties
<1> QED BY <1>1, <1>2

LEMMA AppendRowHolds == ASSUME TrainInv, NEW j \in Jobs, NEW r \in Ranks, AppendRow(j, r) PROVE TrainInv'
<1> DEFINE n == Step(j, r)
           row(x) == rows' = Put(rows, j, r, Append(rows[j][r], x))
<1>1. Busy(j, r, "append") /\ LocalOnly /\ UNCHANGED <<resume, policy, receipt>> /\ "append" \in Working
      /\ phase[j][r] = "append" /\ r \notin entered[j]
  BY DEF AppendRow, Working, Busy
<1>2. Table(rows) /\ Table(policy) /\ Table(receipt) /\ rows[j][r] \in Seq(0..Steps)
  BY RowsAreTable DEF TrainInv, TypeInv
<1>3. Touches(policy, policy', j, r) /\ Touches(receipt, receipt', j, r)
  BY <1>1, <1>2, Untouched
<1>4. n \in 0..(Steps - 1) /\ Steps \in Nat /\ Torn \in 0..Steps /\ n \in 0..Steps
  <2>1. IsLog(receipt[j][r]) /\ Step(j, r) < Steps
    BY <1>1 DEF TrainInv, RankInv, Waits, Stands, Reading
  <2> QED BY <2>1, LogHas, TrainingAssumption DEF Step, Torn
<1> HIDE DEF n
<1>5. \A x \in 0..Steps : row(x) =>
        /\ Touches(rows, rows', j, r) /\ rows'[j][r] = Append(rows[j][r], x)
        /\ rows'[j][r] \in Seq(0..Steps)
        /\ \E i \in DOMAIN rows'[j][r] : rows'[j][r][i] = x
  <2>1. TAKE x \in 0..Steps
  <2>2. HAVE row(x)
  <2>3. Touches(rows, rows', j, r) /\ rows'[j][r] = Append(rows[j][r], x)
    <3> DEFINE v == Append(rows[j][r], x)
    <3>1. rows' = Put(rows, j, r, v)
      BY <2>2
    <3> HIDE DEF v
    <3>2. Touches(rows, rows', j, r) /\ rows'[j][r] = v
      BY <3>1, <1>2, PutCell
    <3> QED BY <3>2 DEF v
  <2> QED BY <2>3, <1>2, RowGrows
<1>6. PICK well \in BOOLEAN :
        /\ Ends(j, r, well)
        /\ \/ r \in Streams /\ row(n)
           \/ r \notin Streams /\ rows' = rows
           \/ ~well /\ (rows' = rows \/ row(Torn))
        /\ well /\ r \in Streams => row(n)
  <2>1. CASE Good(j, r) /\ rows' = IF r \in Streams THEN [rows EXCEPT ![j][r] = Append(@, Step(j, r))] ELSE rows
    <3>1. IF r \in Streams THEN row(n) ELSE rows' = rows
      BY <2>1 DEF Put, n
    <3>2. Ends(j, r, TRUE)
      BY <2>1, OutcomeOf
    <3> HIDE DEF row
    <3> QED BY <3>1, <3>2
  <2>2. CASE Bad(j, r) /\ (rows' = rows \/ rows' = [rows EXCEPT ![j][r] = Append(@, Torn)])
    <3>1. rows' = rows \/ row(Torn)
      BY <2>2 DEF Put
    <3>2. Ends(j, r, FALSE)
      BY <2>2, OutcomeOf
    <3> HIDE DEF row
    <3> QED BY <3>1, <3>2
  <2> QED BY <2>1, <2>2 DEF AppendRow
<1>7. /\ Touches(rows, rows', j, r) /\ rows'[j][r] \in Seq(0..Steps)
      /\ rows'[j][r] = rows[j][r] \/ \E x \in 0..Steps : rows'[j][r] = Append(rows[j][r], x)
      /\ well /\ r \in Streams => /\ rows'[j][r] = Append(rows[j][r], n)
                                  /\ \E i \in DOMAIN rows'[j][r] : rows'[j][r][i] = n
  <2>1. CASE rows' = rows /\ ~(well /\ r \in Streams)
    BY <2>1, <1>2, Untouched
  <2>2. CASE row(n)
    BY <2>2, <1>4, <1>5
  <2>3. CASE ~well /\ row(Torn)
    BY <2>3, <1>4, <1>5
  <2> QED BY <2>1, <2>2, <2>3, <1>6
<1>8. EndsPart(j, r, "append", well)
  BY <1>1, <1>3, <1>6, <1>7 DEF EndsPart
<1>9. ASSUME WaitsIn(j, r, "append", well) PROVE RankInv(j, r)'
  <2>1. receipt'[j][r] = receipt[j][r] /\ policy'[j][r] = policy[j][r] /\ resume'[j] = resume[j]
    BY <1>1
  <2>2. Step(j, r)' = n /\ Kept(j, r)' = Kept(j, r) /\ Next_(j, r)' = Next_(j, r)
    BY <2>1, <1>9 DEF Step, Kept, Next_, WaitsIn, n
  <2>3. Waits(j, r)' /\ Begins(j, r)' /\ Accepted(j, r)' /\ Carries(j, r)'
    <3>1. Waits(j, r)
      BY DEF TrainInv, RankInv
    <3>2. Waits(j, r)' /\ Begins(j, r)'
      BY <3>1, <2>1, <1>9 DEF WaitsIn, Waits, Begins
    <3>3. Accepted(j, r) /\ phase[j][r] = "append"
      BY <1>9 DEF TrainInv, RankInv, WaitsIn
    <3>4. Accepted(j, r)'
      BY <3>3, <2>1, <2>2, <1>9 DEF WaitsIn, Accepted, n
    <3>5. Carries(j, r)
      BY DEF TrainInv, RankInv
    <3>6. Holds(j, r, Next_(j, r))
      BY <3>3, <3>5 DEF Carries
    <3>7. Carries(j, r)'
      BY <3>3, <3>6, <2>1, <2>2, <1>9 DEF WaitsIn, Carries, Holds, Saving
    <3> QED BY <3>2, <3>4, <3>7
  <2>4. Stands(j, r)'
    BY <2>1, <1>9, StandsOn DEF Working
  <2>5. ASSUME r \in Streams, ~untidy[j] PROVE rows[j][r] = Kept(j, r)
    BY <2>5, <1>1 DEF TrainInv, RankInv, Writes
  <2>6. Writes(j, r)'
    BY <2>2, <2>5, <1>7, <1>9 DEF WaitsIn, Writes, Roughly, Saving
  <2>7. Appended(j, r)'
    BY <2>2, <1>7, <1>9 DEF WaitsIn, Appended, HasRow
  <2> QED BY <2>3, <2>4, <2>6, <2>7 DEF RankInv
<1> QED BY <1>1, <1>8, <1>9, PartEnds

\* What is cut off is at most what came after the boundary.
LEMMA CutIs ==
  ASSUME TrainInv, NEW j \in Jobs, NEW r \in Ranks, rows' = CutRows(j, r), phase[j][r] \in {"append", "truncate"}
  PROVE  /\ Touches(rows, rows', j, r) /\ rows'[j][r] \in Seq(0..Steps)
         /\ Roughly(j, r) => rows'[j][r] = Kept(j, r)
<1> DEFINE s == rows[j][r]
           b == Boundary(j, r)
           m == Min({Len(s), b})
<1>1. b \in Nat /\ resume[j] \in Nat /\ b = Step(j, r) - resume[j]
  <2>1. IsLog(receipt[j][r]) /\ resume[j] <= Step(j, r) /\ resume[j] \in 0..Steps
    BY DEF TrainInv, TypeInv, RankInv, Waits, Stands, Reading
  <2> QED BY <2>1, LogHas, TrainingAssumption DEF Step, Boundary
<1>2. s \in Seq(0..Steps) /\ Len(s) \in Nat /\ Table(rows)
  BY RowsAreTable, LenProperties DEF TrainInv, TypeInv
<1>3. m = (IF Len(s) <= b THEN Len(s) ELSE b) /\ m \in 0..Len(s)
  <2> HIDE DEF b
  <2> QED BY <1>1, <1>2, MinIs
<1>4. rows' = Put(rows, j, r, SubSeq(s, 1, m))
  BY DEF CutRows, Put
<1> HIDE DEF m, b
<1>5. Touches(rows, rows', j, r) /\ rows'[j][r] = SubSeq(s, 1, m)
  <2> DEFINE v == SubSeq(s, 1, m)
  <2>1. rows' = Put(rows, j, r, v)
    BY <1>4
  <2> HIDE DEF v
  <2>2. Touches(rows, rows', j, r) /\ rows'[j][r] = v
    BY <2>1, <1>2, PutCell
  <2> QED BY <2>2 DEF v
<1>6. SubSeq(s, 1, m) \in Seq(0..Steps)
  <2> HIDE DEF s
  <2>1. \A i \in 1..m : s[i] \in 0..Steps
    <3>1. \A i \in 1..m : i \in 1..Len(s)
      BY <1>2, <1>3
    <3> QED BY <3>1, <1>2, ElementOfSeq
  <2> QED BY <2>1, <1>3, SubSeqProperties
<1>7. ASSUME Roughly(j, r) PROVE SubSeq(s, 1, m) = Kept(j, r)
  <2> DEFINE k == Kept(j, r)
  <2>1. IsLog(k) /\ Len(k) = b
    <3>1. k = Run(resume[j], b)
      BY <1>1 DEF Kept
    <3>2. IsLog(Run(resume[j], b)) /\ Len(Run(resume[j], b)) = (IF b > 0 THEN b ELSE 0)
      BY <1>1, RunIs
    <3> QED BY <3>1, <3>2, <1>1
  <2> HIDE DEF k
  <2>2. CASE s = k
    <3>1. m = Len(k)
      BY <1>1, <1>3, <2>1, <2>2
    <3> QED BY <2>1, <2>2, <3>1, WholePrefix DEF k
  <2>3. ASSUME NEW x \in 0..Steps, s = Append(k, x) PROVE SubSeq(s, 1, m) = k
    <3>1. Len(s) = Len(k) + 1 /\ SubSeq(s, 1, Len(k)) = k
      BY <2>1, <2>3, LogGrows
    <3>2. m = Len(k)
      BY <1>1, <1>3, <2>1, <3>1
    <3> QED BY <3>1, <3>2
  <2> QED BY <1>7, <2>2, <2>3 DEF Roughly, k
<1> QED BY <1>5, <1>6, <1>7

LEMMA TruncateRowHolds == ASSUME TrainInv, NEW j \in Jobs, NEW r \in Ranks, TruncateRow(j, r) PROVE TrainInv'
<1>1. Busy(j, r, "truncate") /\ LocalOnly /\ UNCHANGED <<resume, policy, receipt>> /\ "truncate" \in Working
      /\ phase[j][r] = "truncate" /\ r \notin entered[j]
  BY DEF TruncateRow, Working, Busy
<1>2. Table(rows) /\ Table(policy) /\ Table(receipt) /\ rows[j][r] \in Seq(0..Steps)
  BY RowsAreTable DEF TrainInv, TypeInv
<1>3. Touches(policy, policy', j, r) /\ Touches(receipt, receipt', j, r)
  BY <1>1, <1>2, Untouched
<1>4. PICK well \in BOOLEAN :
        /\ Ends(j, r, well) /\ Touches(rows, rows', j, r) /\ rows'[j][r] \in Seq(0..Steps)
        /\ Roughly(j, r) => IF well THEN rows'[j][r] = Kept(j, r) ELSE rows' = rows
  <2>1. CASE Good(j, r) /\ rows' = CutRows(j, r)
    <3>1. /\ Touches(rows, rows', j, r) /\ rows'[j][r] \in Seq(0..Steps)
          /\ Roughly(j, r) => rows'[j][r] = Kept(j, r)
      BY <1>1, <2>1, CutIs
    <3>2. Ends(j, r, TRUE)
      BY <2>1, OutcomeOf
    <3> QED BY <3>1, <3>2
  <2>2. CASE Bad(j, r) /\ UNCHANGED rows
    <3>1. Touches(rows, rows', j, r)
      BY <2>2, <1>2, Untouched
    <3>2. Ends(j, r, FALSE)
      BY <2>2, OutcomeOf
    <3> QED BY <2>2, <1>2, <3>1, <3>2
  <2> QED BY <2>1, <2>2 DEF TruncateRow
<1>5. EndsPart(j, r, "truncate", well)
  BY <1>1, <1>3, <1>4 DEF EndsPart
<1>6. ASSUME WaitsIn(j, r, "truncate", well) PROVE RankInv(j, r)'
  <2>1. receipt'[j][r] = receipt[j][r] /\ policy'[j][r] = policy[j][r] /\ resume'[j] = resume[j]
    BY <1>1
  <2>2. Step(j, r)' = Step(j, r) /\ Kept(j, r)' = Kept(j, r)
    BY <2>1, <1>6 DEF Step, Kept, WaitsIn
  <2>3. Waits(j, r)' /\ Begins(j, r)' /\ Accepted(j, r)' /\ Carries(j, r)' /\ Appended(j, r)'
    BY <2>1, <2>2, <1>6 DEF WaitsIn, Waits, Begins, Accepted, Carries, Holds, Saving, Appended, TrainInv, RankInv
  <2>4. Stands(j, r)'
    BY <2>1, <1>6, StandsOn DEF Working
  <2>5. ASSUME r \in Streams, ~untidy[j] PROVE Roughly(j, r)
    BY <2>5, <1>1 DEF TrainInv, RankInv, Writes
  <2>6. Writes(j, r)'
    BY <2>2, <2>5, <1>4, <1>6 DEF WaitsIn, Writes, Roughly, Saving
  <2> QED BY <2>3, <2>4, <2>6 DEF RankInv
<1> QED BY <1>1, <1>5, <1>6, PartEnds

(***************************************************************************)
(* How a rank ends.                                                        *)
(***************************************************************************)
\* A rank leaves the call for q, and the reduction if it waited in one.
Leaves(j, r, q) ==
  /\ phase' = Put(phase, j, r, q) /\ q \in Ended
  /\ entered' = [entered EXCEPT ![j] = @ \ {r}] /\ failed' = [failed EXCEPT ![j] = @ \ {r}]
  /\ UNCHANGED <<unsure, resume, untidy>>
  /\ Touches(policy, policy', j, r) /\ Touches(receipt, receipt', j, r) /\ Touches(rows, rows', j, r)
  /\ receipt'[j][r] \in {receipt[j][r], Genesis}
  /\ rows'[j][r] \in Seq(0..Steps)
  /\ rows'[j][r] = rows[j][r] \/ phase[j][r] \in {"append", "truncate"}

\* The disk is a disk as before, and what was visible is.
DiskHolds ==
  /\ DiskStays /\ SlotInv'
  /\ windows' = [k \in 0..(Steps - 1) |-> windows'[k]] /\ slots' = [k \in 1..Steps |-> slots'[k]]

LEMMA RankLeaves ==
  ASSUME TrainInv, NEW j \in Jobs, NEW r \in Ranks, ~Over(j, r), NEW q, Leaves(j, r, q), DiskHolds,
         q \in {"stop", "ambiguous", "done"} =>
           /\ Holds(j, r, receipt[j][r])'
           /\ r \in Streams /\ ~untidy[j] => rows'[j][r] = Kept(j, r)'
  PROVE  TrainInv'
<1>1. /\ phase' \in [Jobs -> [Ranks -> Working \cup Ended]] /\ phase'[j][r] = q
      /\ \A i \in Jobs, s \in Ranks : i # j \/ s # r => phase'[i][s] = phase[i][s]
  <2>1. Table(phase)
    BY DEF TrainInv, TypeInv, Table
  <2>2. Touches(phase, phase', j, r) /\ phase'[j][r] = q
    BY <2>1, PutCell DEF Leaves
  <2>3. \A i \in Jobs, s \in Ranks : phase'[i][s] \in Working \cup Ended
    <3>1. phase \in [Jobs -> [Ranks -> Working \cup Ended]] /\ q \in Ended
      BY DEF Leaves, TrainInv, TypeInv
    <3>2. \A i \in Jobs, s \in Ranks : phase[i][s] \in Working \cup Ended
      BY <3>1
    <3> QED BY <3>1, <3>2, <2>2 DEF Touches
  <2>4. phase' = [i \in Jobs |-> [s \in Ranks |-> phase'[i][s]]]
    BY <2>2 DEF Touches, Table
  <2>5. [i \in Jobs |-> [s \in Ranks |-> phase'[i][s]]] \in [Jobs -> [Ranks -> Working \cup Ended]]
    BY <2>3
  <2>6. phase' \in [Jobs -> [Ranks -> Working \cup Ended]]
    BY <2>4, <2>5
  <2> QED BY <2>2, <2>6 DEF Touches
<1>2. /\ entered' \in [Jobs -> SUBSET Ranks] /\ failed' \in [Jobs -> SUBSET Ranks]
      /\ \A i \in Jobs, s \in Ranks : i # j \/ s # r =>
           (s \in entered'[i] <=> s \in entered[i]) /\ (s \in failed'[i] <=> s \in failed[i])
      /\ r \notin entered'[j] /\ r \notin failed'[j]
  BY DEF Leaves, TrainInv, TypeInv
<1>3. rows' \in [Jobs -> [Ranks -> Seq(0..Steps)]]
  <2>1. \A i \in Jobs, s \in Ranks : rows'[i][s] \in Seq(0..Steps)
    BY DEF Leaves, Touches, TrainInv, TypeInv
  <2>2. rows' = [i \in Jobs |-> [s \in Ranks |-> rows'[i][s]]]
    BY DEF Leaves, Touches, Table
  <2>3. [i \in Jobs |-> [s \in Ranks |-> rows'[i][s]]] \in [Jobs -> [Ranks -> Seq(0..Steps)]]
    BY <2>1
  <2> QED BY <2>2, <2>3
<1>4. TypeInv'
  BY <1>1, <1>2, <1>3 DEF Leaves, Touches, TrainInv, TypeInv, DiskHolds
<1>5. OthersStill(j, r)
  BY <1>1, <1>2 DEF OthersStill, Still, Leaves, Touches
<1>6. Follows(j, r)
  BY <1>1, <1>2 DEF Follows, Leaves
<1>7. RankInv(j, r)'
  <2>1. IsLog(receipt'[j][r]) /\ OwnWindows(receipt'[j][r])
    BY EmptyLog DEF Leaves, Genesis, TrainInv, RankInv, Waits
  <2>2. Waits(j, r)' /\ Begins(j, r)' /\ Stands(j, r)' /\ Accepted(j, r)' /\ Appended(j, r)'
    BY <1>1, <1>2, <2>1 DEF Leaves, Waits, Begins, Stands, Accepted, Appended, Ended, Reading, Saving, Fine
  <2>3. Carries(j, r)' /\ Writes(j, r)'
    BY <1>1, <1>2 DEF Leaves, Carries, Writes, Ended, Saving, Fine
  <2> QED BY <2>1, <2>2, <2>3 DEF RankInv
<1> QED BY <1>4, <1>5, <1>6, <1>7, RankSteps DEF DiskHolds

LEMMA DiskSameHolds == ASSUME TrainInv, UNCHANGED <<disk, outages>> PROVE DiskHolds
<1>1. DiskStays /\ SlotInv' /\ slots' = slots /\ windows' = windows
  BY DiskSame DEF TrainInv, disk
<1> QED BY <1>1 DEF DiskHolds, TrainInv, TypeInv

\* A claim without content is put where nothing was.
LEMMA ClaimHolds ==
  ASSUME TrainInv, NEW k \in 1..Steps, slots[k] = Empty, slots' = [slots EXCEPT ![k] = Claim],
         UNCHANGED <<windows, settled, outages>>
  PROVE  DiskHolds
<1>0. slots = [i \in 1..Steps |-> slots[i]] /\ windows = [i \in 0..(Steps - 1) |-> windows[i]]
  BY DEF TrainInv, TypeInv
<1>1. slots' = [i \in 1..Steps |-> IF i = k THEN Claim ELSE slots[i]]
  BY <1>0
<1>2. ~Visible(k) /\ Claim.what # "continuation"
  BY DEF Visible, Empty, Claim
<1>3. \A i \in 1..Steps : slots'[i] = (IF i = k THEN Claim ELSE slots[i])
  BY <1>1
<1>4. slots' = [i \in 1..Steps |-> slots'[i]]
  BY <1>1
<1>5. \A i \in 1..Steps : /\ Visible(i)' <=> Visible(i)
                          /\ Visible(i) => slots'[i] = slots[i]
  BY <1>2, <1>3 DEF Visible
<1>6. DiskStays
  <2>1. \A i \in 2..Steps : i \in 1..Steps
    BY TrainingAssumption
  <2> QED BY <1>5, <2>1 DEF DiskStays, Visible
<1>7. SlotInv'
  BY <1>5 DEF SlotInv, TrainInv
<1> QED BY <1>0, <1>4, <1>6, <1>7 DEF DiskHolds

LEMMA CommErrorHolds == ASSUME TrainInv, NEW j \in Jobs, NEW r \in Ranks, CommError(j, r) PROVE TrainInv'
<1> DEFINE p == phase[j][r]
           q == AfterComm(p)
           old == receipt[j][r]
<1>1. ~Over(j, r) /\ p \in Working /\ UNCHANGED <<disk, unsure, resume, receipt, untidy, outages>>
      /\ r \in entered[j]
  BY DEF CommError, TrainInv, TypeInv, Over
<1>2. Table(rows) /\ Table(policy) /\ Table(receipt) /\ rows[j][r] \in Seq(0..Steps)
  BY RowsAreTable DEF TrainInv, TypeInv
<1>3. Touches(receipt, receipt', j, r)
  BY <1>1, <1>2, Untouched
<1>4. /\ Touches(rows, rows', j, r) /\ rows'[j][r] \in Seq(0..Steps)
      /\ p # "append" => rows' = rows
  <2>1. CASE p = "append"
    BY <2>1, CutIs DEF CommError
  <2>2. CASE p # "append"
    BY <2>2, <1>2, Untouched DEF CommError
  <2> QED BY <2>1, <2>2
<1>5. /\ Touches(policy, policy', j, r)
      /\ p \notin {"load", "unload"} => policy'[j][r] = [adapter |-> old, sampler |-> old]
  <2>1. CASE p \in {"load", "unload"}
    <3>1. policy' = Put(policy, j, r, Fresh)
      BY <2>1 DEF CommError, Put
    <3> QED BY <2>1, <3>1, <1>2, PutCell
  <2>2. CASE p \notin {"load", "unload"}
    <3>1. Set(j, r, old, old)
      BY <2>2 DEF CommError, Set
    <3> QED BY <2>2, <3>1, SetCell DEF TrainInv
  <2> QED BY <2>1, <2>2
<1>6. q \in Ended /\ q \in {"stop", "ambiguous", "discard"}
  BY DEF AfterComm, Ended
<1>7. Leaves(j, r, q)
  <2>1. phase' = Put(phase, j, r, q)
    BY DEF CommError, Put
  <2>2. entered' = [entered EXCEPT ![j] = @ \ {r}] /\ failed' = [failed EXCEPT ![j] = @ \ {r}]
    BY DEF CommError
  <2> HIDE DEF q
  <2> QED BY <1>1, <1>3, <1>4, <1>5, <1>6, <2>1, <2>2 DEF Leaves
<1>8. ASSUME q \in {"stop", "ambiguous", "done"}
      PROVE  /\ Holds(j, r, receipt[j][r])'
             /\ r \in Streams /\ ~untidy[j] => rows'[j][r] = Kept(j, r)'
  <2>1. p \in {"discover", "read", "check", "save", "settle"}
    BY <1>1, <1>8 DEF AfterComm, Working
  <2>2. Holds(j, r, receipt[j][r])'
    BY <2>1, <1>1, <1>5 DEF Holds
  <2>3. Kept(j, r)' = Kept(j, r) /\ rows'[j][r] = rows[j][r]
    BY <2>1, <1>1, <1>4 DEF Kept, Step
  <2>4. CASE p = "discover"
    <3>1. rows[j][r] = << >> /\ receipt[j][r] = Genesis
      BY <2>4 DEF TrainInv, RankInv, Begins
    <3>2. Step(j, r) = 0 /\ resume[j] \in Nat
      BY <3>1, EmptyLog, TrainingAssumption DEF Step, Genesis, TrainInv, TypeInv
    <3>3. Kept(j, r) = << >>
      <4>1. Step(j, r) - resume[j] \in Int /\ Step(j, r) - resume[j] <= 0
        BY <3>2
      <4> QED BY <3>2, <4>1, RunIs DEF Kept
    <3> QED BY <2>2, <2>3, <3>1, <3>3
  <2>5. CASE p # "discover"
    BY <2>1, <2>2, <2>3, <2>5 DEF TrainInv, RankInv, Writes, Saving
  <2> QED BY <2>4, <2>5
<1>9. DiskHolds
  BY <1>1, DiskSameHolds
<1> HIDE DEF q
<1> QED BY <1>1, <1>7, <1>8, <1>9, RankLeaves

LEMMA KillHolds == ASSUME TrainInv, NEW j \in Jobs, NEW r \in Ranks, Kill(j, r) PROVE TrainInv'
<1>1. ~Over(j, r) /\ UNCHANGED <<windows, settled, unsure, resume, rows, untidy, outages>>
  BY DEF Kill
<1>2. Table(rows) /\ Table(policy) /\ Table(receipt) /\ rows[j][r] \in Seq(0..Steps)
  BY RowsAreTable DEF TrainInv, TypeInv
<1>3. Touches(rows, rows', j, r)
  BY <1>1, <1>2, Untouched
<1>4. Touches(receipt, receipt', j, r) /\ receipt'[j][r] = Genesis
  <2>1. receipt' = Put(receipt, j, r, Genesis)
    BY DEF Kill, Put
  <2> QED BY <1>2, <2>1, PutCell
<1>5. Touches(policy, policy', j, r)
  <2>1. policy' = Put(policy, j, r, Fresh)
    BY DEF Kill, Put
  <2> QED BY <1>2, <2>1, PutCell
<1>6. Leaves(j, r, "killed")
  <2>1. phase' = Put(phase, j, r, "killed") /\ "killed" \in Ended
    BY DEF Kill, Put, Ended
  <2>2. entered' = [entered EXCEPT ![j] = @ \ {r}] /\ failed' = [failed EXCEPT ![j] = @ \ {r}]
    BY DEF Kill
  <2> QED BY <1>1, <1>2, <1>3, <1>4, <1>5, <2>1, <2>2 DEF Leaves
<1>7. DiskHolds
  <2>1. CASE UNCHANGED slots
    BY <1>1, <2>1, DiskSameHolds DEF disk
  <2>2. CASE Busy(j, r, "save") /\ slots[Step(j, r)] = Empty /\ slots' = [slots EXCEPT ![Step(j, r)] = Claim]
    <3>1. Step(j, r) \in 1..Steps
      <4>1. resume[j] < Step(j, r) /\ Step(j, r) <= Steps /\ resume[j] \in 0..Steps /\ Step(j, r) \in Nat
        BY <2>2, LogHas DEF Busy, TrainInv, TypeInv, RankInv, Waits, Stands, Saving, Step
      <4> QED BY <4>1, TrainingAssumption
    <3> QED BY <1>1, <2>2, <3>1, ClaimHolds
  <2> QED BY <2>1, <2>2 DEF Kill
<1> QED BY <1>1, <1>6, <1>7, RankLeaves

(***************************************************************************)
(* The publication of a continuation.                                      *)
(***************************************************************************)
\* Where there is no gap, nothing is visible above what is not.
LEMMA NoneAbove ==
  ASSUME NEW n \in 0..Steps, NoGap(n), NEW k \in 1..Steps, n < k, ~Visible(k)
  PROVE  \A m \in k..Steps : ~Visible(m)
<1> DEFINE S == {m \in k..Steps : Visible(m)}
<1>1. ASSUME S # {} PROVE FALSE
  <2>1. S \subseteq Nat
    BY TrainingAssumption
  <2>2. PICK m \in S : \A i \in S : m <= i
    BY <1>1, <2>1, LeastNatural
  <2>3. m \in 2..Steps /\ m > n /\ m > k /\ Visible(m)
    BY TrainingAssumption
  <2>4. Visible(m - 1)
    BY <2>3 DEF NoGap
  <2>5. m - 1 \in S
    <3>1. m - 1 \in k..Steps
      BY <2>3, TrainingAssumption
    <3> QED BY <3>1, <2>4
  <2> QED BY <2>2, <2>3, <2>5
<1> QED BY <1>1

\* What rank 0 publishes goes on from what was the latest.
LEMMA NextSlot ==
  ASSUME TrainInv, NEW j \in Jobs, phase[j][Primary] = "save"
  PROVE  LET k == Step(j, Primary)
             log == receipt[j][Primary]
         IN /\ k \in 1..Steps /\ IsLog(log) /\ Len(log) = k /\ OwnWindows(log)
            /\ StoredAt(k - 1, SubSeq(log, 1, k - 1)) /\ Last(log).by[1] = j
            /\ ~Visible(k) => \A m \in k..Steps : ~Visible(m)
            /\ \A m \in 1..(k - 1) : Visible(m) => slots[m].state = SubSeq(log, 1, m)
<1> DEFINE k == Step(j, Primary)
           log == receipt[j][Primary]
<1>0. Primary \in Ranks /\ Steps \in Nat
  BY TrainingAssumption
<1>1. IsLog(log) /\ Len(log) = k /\ OwnWindows(log) /\ k \in Nat
  BY <1>0, LogHas DEF TrainInv, RankInv, Waits, Step
<1>2. /\ resume[j] < k /\ k <= Steps /\ resume[j] \in 0..Steps
      /\ StoredAt(k - 1, SubSeq(log, 1, k - 1)) /\ Last(log).by[1] = j
  BY <1>0 DEF TrainInv, TypeInv, RankInv, Stands, Saving
<1> HIDE DEF k, log
<1>3. k \in 1..Steps
  BY <1>0, <1>1, <1>2
<1>4. NoGap(resume[j])
  <2>1. Anchored(j)
    BY <1>0 DEF Anchored, Over, Ended
  <2> QED BY <2>1 DEF TrainInv, JobInv, NoGapAbove
<1>5. ~Visible(k) => \A m \in k..Steps : ~Visible(m)
  BY <1>2, <1>3, <1>4, NoneAbove
<1>6. ASSUME NEW m \in 1..(k - 1), Visible(m) PROVE slots[m].state = SubSeq(log, 1, m)
  <2>1. k - 1 \in 1..Steps /\ m \in 1..Steps /\ k - 1 \in 0..Len(log) /\ m \in 0..(k - 1)
    BY <1>0, <1>1, <1>3
  <2>2. Visible(k - 1) /\ slots[k - 1].state = SubSeq(log, 1, k - 1)
    BY <1>2, <2>1 DEF StoredAt
  <2>3. CASE m = k - 1
    BY <2>2, <2>3
  <2>4. CASE m < k - 1
    <3>1. slots[m].state = SubSeq(slots[k - 1].state, 1, m)
      BY <2>1, <2>2, <2>4, <1>6 DEF TrainInv, SlotInv
    <3> QED BY <3>1, <2>1, <2>2, <1>1, PrefixOfPrefix
  <2> QED BY <2>1, <2>3, <2>4
<1> QED BY <1>1, <1>2, <1>3, <1>5, <1>6 DEF k, log

LEMMA SlotPublished ==
  ASSUME TrainInv, NEW j \in Jobs, phase[j][Primary] = "save", slots[Step(j, Primary)] = Empty,
         slots' = [slots EXCEPT ![Step(j, Primary)] = Shows(j)], UNCHANGED <<windows, settled, outages>>
  PROVE  DiskHolds /\ slots'[Step(j, Primary)] = Shows(j)
<1> DEFINE k == Step(j, Primary)
           log == receipt[j][Primary]
<1>0. /\ slots = [i \in 1..Steps |-> slots[i]] /\ windows = [i \in 0..(Steps - 1) |-> windows[i]]
      /\ Steps \in Nat
  BY TrainingAssumption DEF TrainInv, TypeInv
<1>1. /\ k \in 1..Steps /\ IsLog(log) /\ Len(log) = k /\ OwnWindows(log)
      /\ StoredAt(k - 1, SubSeq(log, 1, k - 1))
      /\ ~Visible(k) => \A m \in k..Steps : ~Visible(m)
      /\ \A m \in 1..(k - 1) : Visible(m) => slots[m].state = SubSeq(log, 1, m)
  BY NextSlot
<1>2. ~Visible(k) /\ \A m \in k..Steps : ~Visible(m)
  BY <1>1 DEF Visible, Empty
<1>3. Shows(j).what = "continuation" /\ Shows(j).state = log
  BY DEF Shows
<1>4. slots' = [i \in 1..Steps |-> IF i = k THEN Shows(j) ELSE slots[i]]
  BY <1>0
<1> HIDE DEF k, log
<1>5. /\ slots' = [i \in 1..Steps |-> slots'[i]]
      /\ \A i \in 1..Steps : slots'[i] = IF i = k THEN Shows(j) ELSE slots[i]
  BY <1>4
<1>6. \A i \in 1..Steps : Visible(i)' <=> Visible(i) \/ i = k
  BY <1>2, <1>3, <1>5 DEF Visible
<1>7. DiskStays
  <2>1. \A i \in 1..Steps : Visible(i) => slots'[i] = slots[i]
    BY <1>2, <1>5
  <2>2. \A i \in 2..Steps : slots'[i].what = "continuation" /\ ~Visible(i) => Visible(i - 1)
    <3>1. ASSUME NEW i \in 2..Steps, slots'[i].what = "continuation", ~Visible(i) PROVE Visible(i - 1)
      <4>1. i \in 1..Steps
        OBVIOUS
      <4>2. i = k
        BY <3>1, <4>1, <1>6 DEF Visible
      <4> QED BY <4>2, <1>0, <1>1 DEF StoredAt
    <3> QED BY <3>1
  <2> QED BY <2>1, <2>2 DEF DiskStays
<1>8. SlotInv'
  <2>1. ASSUME NEW i \in 1..Steps, Visible(i)'
        PROVE  IsLog(slots'[i].state) /\ Len(slots'[i].state) = i /\ OwnWindows(slots'[i].state)
    <3>1. CASE i = k
      BY <3>1, <1>1, <1>3, <1>5
    <3>2. CASE i # k
      BY <3>2, <2>1, <1>5, <1>6 DEF TrainInv, SlotInv
    <3> QED BY <3>1, <3>2
  <2>2. ASSUME NEW i \in 1..Steps, NEW m \in 1..Steps, i < m, Visible(i)', Visible(m)'
        PROVE  slots'[i].state = SubSeq(slots'[m].state, 1, i)
    <3>1. CASE m = k
      <4>1. i \in 1..(k - 1) /\ Visible(i)
        BY <3>1, <2>2, <1>0, <1>6
      <4> QED BY <4>1, <3>1, <1>1, <1>3, <1>5
    <3>2. CASE m # k /\ i # k
      BY <3>2, <2>2, <1>5, <1>6 DEF TrainInv, SlotInv
    <3>3. CASE m # k /\ i = k
      <4>1. Visible(m) /\ m \in k..Steps
        BY <3>3, <2>2, <1>0, <1>6
      <4> QED BY <4>1, <1>2
    <3> QED BY <3>1, <3>2, <3>3
  <2>3. settled' \subseteq {i \in 1..Steps : Visible(i)'}
    BY <1>6 DEF TrainInv, SlotInv
  <2> QED BY <2>1, <2>2, <2>3 DEF SlotInv
<1> QED BY <1>0, <1>1, <1>5, <1>7, <1>8 DEF DiskHolds, k

\* A step of rank 0 in the two phases of its save.
LEMMA PrimarySaves ==
  ASSUME TrainInv, NEW j \in Jobs, NEW q \in {"save", "settle"},
         phase[j][Primary] = "save" \/ (phase[j][Primary] = "settle" /\ q = "settle"),
         Primary \notin entered[j],
         phase' = Put(phase, j, Primary, q),
         \/ UNCHANGED <<entered, failed>>
         \/ q = "settle" /\ Ends(j, Primary, TRUE)
         \/ Ends(j, Primary, FALSE),
         unsure' \in [Jobs -> BOOLEAN], UNCHANGED <<resume, policy, receipt, rows, untidy>>, DiskHolds,
         q = "settle" => slots'[Step(j, Primary)] = Shows(j)
  PROVE  TrainInv'
<1> DEFINE r == Primary
<1>0. Primary \in Ranks /\ ~Over(j, r) /\ phase[j][r] \in Saving
  BY TrainingAssumption DEF Over, Ended, Saving
<1>1. /\ phase' \in [Jobs -> [Ranks -> Working \cup Ended]] /\ phase'[j][r] = q
      /\ \A i \in Jobs, s \in Ranks : i # j \/ s # r => phase'[i][s] = phase[i][s]
  <2>1. Table(phase)
    BY DEF TrainInv, TypeInv, Table
  <2>2. Touches(phase, phase', j, r) /\ phase'[j][r] = q
    BY <1>0, <2>1, PutCell
  <2>3. \A i \in Jobs, s \in Ranks : phase'[i][s] \in Working \cup Ended
    <3>1. phase \in [Jobs -> [Ranks -> Working \cup Ended]] /\ q \in Working
      BY DEF TrainInv, TypeInv, Working
    <3>2. \A i \in Jobs, s \in Ranks : phase[i][s] \in Working \cup Ended
      BY <3>1
    <3> QED BY <3>1, <3>2, <2>2 DEF Touches
  <2>4. phase' = [i \in Jobs |-> [s \in Ranks |-> phase'[i][s]]]
    BY <2>2 DEF Touches, Table
  <2>5. [i \in Jobs |-> [s \in Ranks |-> phase'[i][s]]] \in [Jobs -> [Ranks -> Working \cup Ended]]
    BY <2>3
  <2>6. phase' \in [Jobs -> [Ranks -> Working \cup Ended]]
    BY <2>4, <2>5
  <2> QED BY <2>2, <2>6 DEF Touches
<1>2. r \notin failed[j]
  BY <1>0 DEF TrainInv, RankInv, Waits
<1>3. /\ entered' \in [Jobs -> SUBSET Ranks] /\ failed' \in [Jobs -> SUBSET Ranks]
      /\ \A i \in Jobs, s \in Ranks : i # j \/ s # r =>
           (s \in entered'[i] <=> s \in entered[i]) /\ (s \in failed'[i] <=> s \in failed[i])
      /\ r \in failed'[j] => r \in entered'[j]
      /\ q = "save" /\ r \in entered'[j] => r \in failed'[j]
  <2>1. CASE UNCHANGED <<entered, failed>>
    BY <2>1, <1>0, <1>2 DEF TrainInv, TypeInv
  <2>2. CASE q = "settle" /\ Ends(j, Primary, TRUE)
    BY <2>2, <1>0, <1>2 DEF Ends, TrainInv, TypeInv
  <2>3. CASE Ends(j, Primary, FALSE)
    BY <2>3, <1>0, <1>2 DEF Ends, TrainInv, TypeInv
  <2> QED BY <2>1, <2>2, <2>3
<1>4. TypeInv'
  BY <1>1, <1>3 DEF TrainInv, TypeInv, DiskHolds
<1>5. OthersStill(j, r)
  BY <1>1, <1>3 DEF OthersStill, Still
<1>6. Follows(j, r)
  BY <1>0, <1>1, <1>2 DEF Follows, Saving
<1>7. RankInv(j, r)'
  <2>1. Step(j, r)' = Step(j, r) /\ Kept(j, r)' = Kept(j, r) /\ phase'[j][r] \in {"save", "settle"}
    BY <1>1 DEF Step, Kept
  <2>2. Waits(j, r)'
    BY <1>0, <1>1, <1>3 DEF Waits, Over, Ended, Fine, TrainInv, RankInv
  <2>3. Begins(j, r)' /\ Accepted(j, r)' /\ Appended(j, r)'
    BY <2>1 DEF Begins, Accepted, Appended
  <2>4. Carries(j, r)' /\ Writes(j, r)'
    BY <2>1, <1>0 DEF Carries, Writes, Saving, Holds, TrainInv, RankInv
  <2>5. Stands(j, r)'
    <3>1. /\ resume[j] < Step(j, r) /\ Step(j, r) <= Steps
          /\ StoredAt(Step(j, r) - 1, SubSeq(receipt[j][r], 1, Step(j, r) - 1))
          /\ Last(receipt[j][r]).by[1] = j
      BY <1>0 DEF TrainInv, RankInv, Stands
    <3>2. Step(j, r) - 1 \in 0..Steps
      <4>1. Step(j, r) \in Nat /\ resume[j] \in 0..Steps /\ Steps \in Nat
        BY <1>0, LogHas, TrainingAssumption DEF TrainInv, TypeInv, RankInv, Waits, Step
      <4> QED BY <3>1, <4>1
    <3>3. StoredAt(Step(j, r) - 1, SubSeq(receipt[j][r], 1, Step(j, r) - 1))'
      <4> DEFINE k == Step(j, r) - 1
                 log == SubSeq(receipt[j][r], 1, k)
      <4>1. k \in 0..Steps /\ StoredAt(k, log)
        BY <3>1, <3>2
      <4> HIDE DEF k, log
      <4>2. k = 0 \/ (slots'[k].what = "continuation" /\ slots'[k].state = log)
        BY <4>1, StoredStays DEF DiskHolds
      <4> QED BY <2>1, <4>2 DEF StoredAt, Visible, k, log
    <3> QED BY <2>1, <3>1, <3>3, <1>1 DEF Stands, Reading, Shows
  <2> QED BY <2>2, <2>3, <2>4, <2>5 DEF RankInv
<1> QED BY <1>0, <1>4, <1>5, <1>6, <1>7, RankSteps DEF DiskHolds

LEMMA PutSame == ASSUME TypeInv, NEW j \in Jobs, NEW r \in Ranks PROVE phase = Put(phase, j, r, phase[j][r])
  BY DEF TypeInv, Put

LEMMA PublishHolds == ASSUME TrainInv, NEW j \in Jobs, Publish(j) PROVE TrainInv'
<1> DEFINE k == Step(j, Primary)
<1>0. Primary \in Ranks /\ Steps \in Nat
  BY TrainingAssumption
<1>1. /\ phase[j][Primary] = "save" /\ Primary \notin entered[j]
      /\ UNCHANGED <<windows, settled, unsure, resume, policy, receipt, rows, untidy, outages>>
  <2>1. Publish(j) => outages' = outages
    BY DEF Publish
  <2> QED BY <2>1 DEF Publish, Busy
<1>2. k \in 1..Steps
  BY <1>1, NextSlot
<1>3. unsure' \in [Jobs -> BOOLEAN]
  BY <1>1 DEF TrainInv, TypeInv
<1>4. CASE slots[k] = Empty /\ slots' = [slots EXCEPT ![k] = Shows(j)]
           /\ phase' = [phase EXCEPT ![j][Primary] = "settle"] /\ UNCHANGED <<entered, failed>>
  <2>1. DiskHolds /\ slots'[k] = Shows(j)
    BY <1>1, <1>4, SlotPublished
  <2>2. phase' = Put(phase, j, Primary, "settle")
    BY <1>4 DEF Put
  <2> QED BY <1>1, <1>3, <1>4, <2>1, <2>2, PrimarySaves
<1>5. CASE Bad(j, Primary) /\ UNCHANGED phase
           /\ (slots' = slots \/ (slots[k] = Empty /\ slots' = [slots EXCEPT ![k] = Claim]))
  <2>1. DiskHolds
    BY <1>1, <1>2, <1>5, DiskSameHolds, ClaimHolds DEF disk
  <2>2. phase' = Put(phase, j, Primary, "save")
    BY <1>0, <1>1, <1>5, PutSame DEF TrainInv
  <2>3. Ends(j, Primary, FALSE)
    BY <1>0, <1>5, OutcomeOf
  <2> QED BY <1>1, <1>3, <2>1, <2>2, <2>3, PrimarySaves
<1> QED BY <1>4, <1>5 DEF Publish

LEMMA SettleSlotHolds == ASSUME TrainInv, NEW j \in Jobs, SettleSlot(j) PROVE TrainInv'
<1> DEFINE k == Step(j, Primary)
<1>0. Primary \in Ranks /\ Steps \in Nat
  BY TrainingAssumption
<1>1. /\ phase[j][Primary] = "settle" /\ Primary \notin entered[j]
      /\ UNCHANGED <<windows, slots, phase, resume, policy, receipt, rows, untidy, outages>>
  BY DEF SettleSlot, Busy
<1>2. unsure' \in [Jobs -> BOOLEAN]
  BY DEF SettleSlot, TrainInv, TypeInv
<1>3. slots[k] = Shows(j) /\ k \in 1..Steps
  <2>1. IsLog(receipt[j][Primary]) /\ resume[j] < k /\ k <= Steps /\ resume[j] \in 0..Steps
        /\ slots[k] = Shows(j)
    BY <1>0, <1>1 DEF TrainInv, TypeInv, RankInv, Waits, Stands, Saving, Shows
  <2>2. k \in Nat
    BY <2>1, LogHas DEF Step
  <2> HIDE DEF k
  <2> QED BY <1>0, <2>1, <2>2
<1>4. settled' \in {settled, settled \cup {k}}
  BY DEF SettleSlot
<1>5. DiskHolds
  <2>1. DiskStays
    BY <1>1 DEF DiskStays, Visible
  <2>2. SlotInv'
    <3>1. Visible(k)
      BY <1>3 DEF Visible, Shows
    <3> HIDE DEF k
    <3>2. settled' \subseteq {i \in 1..Steps : Visible(i)}
      BY <1>3, <1>4, <3>1 DEF TrainInv, SlotInv
    <3> QED BY <1>1, <3>2 DEF TrainInv, SlotInv, Visible
  <2> QED BY <2>1, <2>2, <1>1 DEF DiskHolds, TrainInv, TypeInv
<1>6. phase' = Put(phase, j, Primary, "settle")
  BY <1>0, <1>1, PutSame DEF TrainInv
<1>7. Ends(j, Primary, TRUE) \/ Ends(j, Primary, FALSE)
  BY <1>0, OutcomeOf DEF SettleSlot
<1> QED BY <1>1, <1>2, <1>3, <1>5, <1>6, <1>7, PrimarySaves

(***************************************************************************)
(* Steps of no rank, and the step of rank 0 that finds a continuation.     *)
(***************************************************************************)
LEMMA LatestIs ==
  ASSUME TypeInv
  PROVE  /\ Latest \in 0..Steps /\ (Latest # 0 => Visible(Latest))
         /\ \A k \in 1..Steps : Visible(k) => k <= Latest
<1> DEFINE S == {0} \cup {k \in DOMAIN slots : Visible(k)}
<1>1. DOMAIN slots = 1..Steps /\ Steps \in Nat
  BY TrainingAssumption DEF TypeInv
<1>2. S \in SUBSET (0..Steps) /\ S # {}
  BY <1>1
<1>3. \A k \in 1..Steps : Visible(k) => k \in S
  BY <1>1
<1>4. \A k \in S : k = 0 \/ Visible(k)
  OBVIOUS
<1>5. Latest = Max(S)
  BY DEF Latest
<1> HIDE DEF S
<1>6. Max(S) \in S /\ \A k \in S : k <= Max(S)
  BY <1>1, <1>2, MaxIs
<1> QED BY <1>2, <1>3, <1>4, <1>5, <1>6

LEMMA CommDiesHolds == ASSUME TrainInv, NEW j \in Jobs, CommDies(j) PROVE TrainInv'
<1>0. CommDies(j) => outages' = outages
  BY DEF CommDies
<1>1. UNCHANGED <<disk, phase, entered, failed, unsure, resume, policy, receipt, rows, untidy, outages>>
  BY <1>0 DEF CommDies
<1>2. DiskHolds
  BY <1>1, DiskSameHolds
<1>3. TypeInv'
  BY <1>1, <1>2 DEF TrainInv, TypeInv, DiskHolds
<1>4. \A i \in Jobs, s \in Ranks : Still(i, s)
  BY <1>1 DEF Still
<1> QED BY <1>2, <1>3, <1>4, AllStill DEF DiskHolds

LEMMA UnchangedHolds == ASSUME TrainInv, UNCHANGED vars PROVE TrainInv'
<1>1. UNCHANGED <<disk, phase, entered, failed, unsure, resume, policy, receipt, rows, untidy, outages>>
  BY DEF vars, calls
<1>2. DiskHolds
  BY <1>1, DiskSameHolds
<1>3. TypeInv'
  BY <1>1, <1>2 DEF TrainInv, TypeInv, DiskHolds
<1>4. \A i \in Jobs, s \in Ranks : Still(i, s)
  BY <1>1 DEF Still
<1> QED BY <1>2, <1>3, <1>4, AllStill DEF DiskHolds

LEMMA CollectHolds == ASSUME TrainInv, Collect PROVE TrainInv'
<1>1. /\ UNCHANGED <<slots, settled, phase, entered, failed, unsure, resume, policy, receipt, rows, untidy, outages>>
      /\ Latest < Steps /\ windows[Latest] = Empty
      /\ \E w : windows' = [windows EXCEPT ![Latest] = w]
  BY DEF Collect, calls
<1>2. Latest \in 0..(Steps - 1)
  BY <1>1, LatestIs, TrainingAssumption DEF TrainInv
<1>3. /\ windows' = [k \in 0..(Steps - 1) |-> windows'[k]]
      /\ \A k \in 0..(Steps - 1) : k # Latest => windows'[k] = windows[k]
  <2>1. windows = [k \in 0..(Steps - 1) |-> windows[k]]
    BY DEF TrainInv, TypeInv
  <2>2. PICK w : windows' = [windows EXCEPT ![Latest] = w]
    BY <1>1
  <2>3. windows' = [k \in 0..(Steps - 1) |-> IF k = Latest THEN w ELSE windows[k]]
    BY <2>1, <2>2
  <2> QED BY <2>3
<1>4. DiskStays
  BY <1>1, <1>3 DEF DiskStays, Visible, Empty
<1>5. SlotInv'
  BY <1>1 DEF TrainInv, SlotInv, Visible
<1>6. TypeInv'
  BY <1>1, <1>3 DEF TrainInv, TypeInv
<1>7. \A i \in Jobs, s \in Ranks : Still(i, s)
  BY <1>1 DEF Still
<1> QED BY <1>4, <1>5, <1>6, <1>7, AllStill

\* No gap is above the latest continuation, and nobody of the job has begun.
LEMMA FoundHolds ==
  ASSUME TrainInv, NEW j \in Jobs, Busy(j, Primary, "discover"), Good(j, Primary),
         resume' = [resume EXCEPT ![j] = Latest], LocalOnly, UNCHANGED <<policy, receipt, rows>>
  PROVE  TrainInv'
<1>0. Primary \in Ranks /\ Streams \subseteq Ranks /\ Steps \in Nat \ {0}
  BY TrainingAssumption
<1>1. /\ UNCHANGED <<disk, phase, unsure, untidy, policy, receipt, rows>>
      /\ phase[j][Primary] = "discover" /\ failed' = failed
      /\ entered' = [entered EXCEPT ![j] = @ \cup {Primary}]
  BY DEF Busy, LocalOnly, Good
<1>2. outages' = outages
  BY DEF LocalOnly
<1>3. DiskHolds
  BY <1>1, <1>2, DiskSameHolds
<1>4. Latest \in 0..Steps /\ \A k \in 1..Steps : Visible(k) => k <= Latest
  BY LatestIs DEF TrainInv
<1>5. TypeInv'
  BY <1>0, <1>1, <1>3, <1>4 DEF TrainInv, TypeInv, DiskHolds
<1>6. resume'[j] = Latest /\ \A i \in Jobs \ {j} : resume'[i] = resume[i] /\ entered'[i] = entered[i]
  BY <1>1 DEF TrainInv, TypeInv
<1>7. \A i \in Jobs \ {j} : \A s \in Ranks : Still(i, s)
  BY <1>1, <1>6 DEF Still
<1>8. ASSUME NEW s \in Ranks PROVE RankInv(j, s)'
  <2>1. receipt[j][s] = Genesis /\ rows[j][s] = << >>
    BY <1>1 DEF TrainInv, JobInv, NotBegun
  <2>2. phase[j][s] \in Ended \cup {"discover"}
    BY <1>0, <1>1 DEF TrainInv, JobInv, Together, Part, Over, Ended
  <2>3. Kept(j, s)' = << >>
    <3>1. Step(j, s)' = 0
      BY <1>1, <2>1, EmptyLog DEF Step, Genesis
    <3>2. 0 - Latest \in Int /\ 0 - Latest <= 0 /\ Latest \in Nat
      BY <1>4
    <3>3. Run(Latest, 0 - Latest) = << >>
      BY <3>2, RunIs
    <3> QED BY <3>1, <3>3, <1>6 DEF Kept
  <2>4. Waits(j, s)'
    BY <1>0, <1>1, <2>2 DEF TrainInv, TypeInv, RankInv, Waits, Over, Ended
  <2>5. Begins(j, s)'
    BY <1>1, <2>1, <2>2 DEF TrainInv, RankInv, Begins, Ended
  <2>6. Stands(j, s)' /\ Accepted(j, s)' /\ Appended(j, s)'
    BY <1>1, <2>2 DEF Stands, Accepted, Appended, Ended, Reading, Saving
  <2>7. Carries(j, s)'
    BY <1>1, <2>2 DEF TrainInv, RankInv, Carries, Holds, Ended, Saving
  <2>8. Writes(j, s)'
    BY <1>1, <2>1, <2>2, <2>3 DEF Writes, Ended
  <2> QED BY <2>4, <2>5, <2>6, <2>7, <2>8 DEF RankInv
<1>9. JobInv(j)'
  <2>1. Together(j)' /\ NotBegun(j)' /\ RowsOfStep(j)'
    BY <1>1 DEF TrainInv, JobInv, Together, NotBegun, RowsOfStep, Over, Part, Saving
  <2>2. \A k \in 2..Steps : ~(k > Latest /\ Visible(k))
    BY <1>4
  <2>3. NoGapAbove(j)'
    BY <1>1, <1>6, <2>2 DEF NoGapAbove, NoGap, Visible, disk
  <2> QED BY <2>1, <2>3 DEF JobInv
<1>10. ASSUME NEW i \in Jobs \ {j} PROVE JobInv(i)' /\ \A s \in Ranks : RankInv(i, s)'
  BY <1>3, <1>7, StillJob, StillRank DEF TrainInv, DiskHolds
<1> QED BY <1>3, <1>5, <1>8, <1>9, <1>10 DEF TrainInv, DiskHolds

LEMMA DiscoverHolds == ASSUME TrainInv, NEW j \in Jobs, NEW r \in Ranks, Discover(j, r) PROVE TrainInv'
<1>1. CASE Good(j, r) /\ r = Primary /\ resume' = [resume EXCEPT ![j] = Latest]
  BY <1>1, FoundHolds DEF Discover
<1>2. CASE resume' = resume /\ (r # Primary \/ Bad(j, r))
  BY <1>2, DiscoverWaits
<1> QED BY <1>1, <1>2 DEF Discover

(***************************************************************************)
(* Starts and power failures.                                              *)
(***************************************************************************)
\* Nothing of a job that is not there, or not yet begun.
Blank(j, r) ==
  /\ phase'[j][r] \in {"none", "discover", "killed"} /\ r \notin entered'[j] /\ r \notin failed'[j]
  /\ receipt'[j][r] = Genesis /\ policy'[j][r] = Fresh

LEMMA BlankRank ==
  ASSUME NEW j \in Jobs, NEW r \in Ranks, Blank(j, r), phase'[j][r] = "discover" => rows'[j][r] = << >>
  PROVE  RankInv(j, r)'
<1>1. Waits(j, r)'
  BY EmptyLog DEF Blank, Waits, Genesis
<1>2. Begins(j, r)'
  BY DEF Blank, Begins
<1>3. Stands(j, r)' /\ Accepted(j, r)' /\ Carries(j, r)' /\ Writes(j, r)' /\ Appended(j, r)'
  BY DEF Blank, Stands, Accepted, Carries, Writes, Appended, Reading, Saving
<1> QED BY <1>1, <1>2, <1>3 DEF RankInv

LEMMA BlankJob ==
  ASSUME NEW j \in Jobs, \A r \in Ranks : Blank(j, r),
         \A r, s \in Ranks : phase'[j][r] = phase'[j][s] \/ phase'[j][r] \in Ended \/ phase'[j][s] \in Ended,
         \A r \in Ranks : phase'[j][r] = "discover" => \A s \in Ranks : rows'[j][s] = << >>
  PROVE  JobInv(j)'
<1>0. Primary \in Ranks
  BY TrainingAssumption
<1>1. Together(j)'
  BY DEF Together, Blank, Part, Over, Reading, Saving
<1>2. NotBegun(j)'
  BY <1>0 DEF NotBegun, Blank
<1>3. NoGapAbove(j)'
  BY <1>0 DEF NoGapAbove, Anchored, Fine, Blank, Over, Ended
<1>4. RowsOfStep(j)'
  BY <1>0 DEF RowsOfStep, Blank, Saving
<1> QED BY <1>1, <1>2, <1>3, <1>4 DEF JobInv

LEMMA OutageHolds == ASSUME TrainInv, Outage PROVE TrainInv'
<1>1. /\ phase' = [j \in Jobs |-> [r \in Ranks |-> IF phase[j][r] = "none" THEN "none" ELSE "killed"]]
      /\ entered' = [j \in Jobs |-> {}] /\ failed' = [j \in Jobs |-> {}]
      /\ policy' = [j \in Jobs |-> [r \in Ranks |-> Fresh]]
      /\ receipt' = [j \in Jobs |-> [r \in Ranks |-> Genesis]]
      /\ UNCHANGED <<settled, unsure, resume, rows, untidy>>
  BY DEF Outage
<1>2. PICK lost \in SUBSET DOMAIN windows :
        windows' = [k \in DOMAIN windows |-> IF k \in lost THEN Empty ELSE windows[k]]
  BY DEF Outage
<1>3. PICK gone \in SUBSET (DOMAIN slots \ settled) :
        slots' = [k \in DOMAIN slots |-> IF k \in gone THEN Empty ELSE slots[k]]
  BY DEF Outage
<1>4. DOMAIN windows = 0..(Steps - 1) /\ DOMAIN slots = 1..Steps
  BY DEF TrainInv, TypeInv
<1>5. windows' = [k \in 0..(Steps - 1) |-> windows'[k]] /\ slots' = [k \in 1..Steps |-> slots'[k]]
  BY <1>2, <1>3, <1>4
<1>6. \A k \in 1..Steps : /\ Visible(k)' => Visible(k) /\ slots'[k] = slots[k]
                          /\ k \notin gone => slots'[k] = slots[k]
  BY <1>3, <1>4 DEF Visible, Empty
<1>7. SlotInv'
  <2>1. settled' \subseteq {k \in 1..Steps : Visible(k)'}
    BY <1>1, <1>3, <1>6 DEF TrainInv, SlotInv, Visible
  <2>2. \A k \in 1..Steps : Visible(k)' =>
          IsLog(slots'[k].state) /\ Len(slots'[k].state) = k /\ OwnWindows(slots'[k].state)
    BY <1>6 DEF TrainInv, SlotInv
  <2>3. \A k \in 1..Steps, m \in 1..Steps : k < m /\ Visible(k)' /\ Visible(m)' =>
          slots'[k].state = SubSeq(slots'[m].state, 1, k)
    BY <1>6 DEF TrainInv, SlotInv
  <2> QED BY <2>1, <2>2, <2>3 DEF SlotInv
<1>8. \A j \in Jobs, r \in Ranks : Blank(j, r) /\ phase'[j][r] \in Ended /\ phase'[j][r] # "discover"
  BY <1>1 DEF Blank, Ended
<1>9. TypeInv'
  <2>1. Table(policy)' /\ Table(receipt)'
    BY <1>1 DEF Table
  <2>2. phase' \in [Jobs -> [Ranks -> Working \cup Ended]]
    BY <1>1 DEF Ended
  <2>3. entered' \in [Jobs -> SUBSET Ranks] /\ failed' \in [Jobs -> SUBSET Ranks]
    BY <1>1
  <2> QED BY <2>1, <2>2, <2>3, <1>1, <1>5 DEF TrainInv, TypeInv
<1>10. \A j \in Jobs : JobInv(j)'
  BY <1>8, BlankJob
<1>11. \A j \in Jobs, r \in Ranks : RankInv(j, r)'
  BY <1>8, BlankRank
<1> QED BY <1>7, <1>9, <1>10, <1>11 DEF TrainInv

LEMMA LaunchHolds == ASSUME TrainInv, Launch PROVE TrainInv'
<1> DEFINE Cleared(f, v) == [i \in Jobs |-> IF i \in Free THEN v ELSE f[i]]
<1>1. PICK j \in Free :
        phase' = [Cleared(phase, [r \in Ranks |-> "none"]) EXCEPT ![j] = [r \in Ranks |-> "discover"]]
  BY DEF Launch
<1>2. /\ entered' = Cleared(entered, {}) /\ failed' = Cleared(failed, {})
      /\ unsure' = Cleared(unsure, FALSE) /\ resume' = Cleared(resume, 0)
      /\ policy' = Cleared(policy, [r \in Ranks |-> Fresh])
      /\ receipt' = Cleared(receipt, [r \in Ranks |-> Genesis])
      /\ rows' = Cleared(rows, [r \in Ranks |-> << >>])
      /\ untidy' = Cleared(untidy, FALSE)
      /\ UNCHANGED <<disk, outages>>
  BY DEF Launch
<1>3. DiskHolds
  BY <1>2, DiskSameHolds
<1>4. Free \subseteq Jobs /\ Steps \in Nat
  BY TrainingAssumption DEF Free
<1>5. \A i \in Jobs : phase'[i] = IF i = j THEN [r \in Ranks |-> "discover"]
                                  ELSE IF i \in Free THEN [r \in Ranks |-> "none"] ELSE phase[i]
  BY <1>1, <1>4
<1>6. phase' \in [Jobs -> [Ranks -> Working \cup Ended]]
  <2>1. ASSUME NEW i \in Jobs PROVE phase'[i] \in [Ranks -> Working \cup Ended]
    <3>1. phase[i] \in [Ranks -> Working \cup Ended]
      BY DEF TrainInv, TypeInv
    <3>2. "none" \in Working \cup Ended /\ "discover" \in Working \cup Ended
      BY DEF Working, Ended
    <3>3. [r \in Ranks |-> "discover"] \in [Ranks -> Working \cup Ended]
          /\ [r \in Ranks |-> "none"] \in [Ranks -> Working \cup Ended]
      BY <3>2
    <3> QED BY <3>1, <3>3, <1>5
  <2>2. phase' = [i \in Jobs |-> phase'[i]]
    BY <1>1, <1>4
  <2> QED BY <2>1, <2>2
<1>7. TypeInv'
  <2>1. Table(policy)' /\ Table(receipt)'
    BY <1>2 DEF Table, TrainInv, TypeInv
  <2>2. << >> \in Seq(0..Steps)
    BY EmptySeq
  <2>3. rows' \in [Jobs -> [Ranks -> Seq(0..Steps)]]
    <3>1. [r \in Ranks |-> << >>] \in [Ranks -> Seq(0..Steps)]
      BY <2>2
    <3> QED BY <3>1, <1>2 DEF TrainInv, TypeInv
  <2>4. /\ entered' \in [Jobs -> SUBSET Ranks] /\ failed' \in [Jobs -> SUBSET Ranks]
        /\ unsure' \in [Jobs -> BOOLEAN] /\ untidy' \in [Jobs -> BOOLEAN] /\ resume' \in [Jobs -> 0..Steps]
    <3>1. ASSUME NEW S, NEW f \in [Jobs -> S], NEW v \in S PROVE Cleared(f, v) \in [Jobs -> S]
      OBVIOUS
    <3> HIDE DEF Cleared
    <3>2. /\ entered \in [Jobs -> SUBSET Ranks] /\ failed \in [Jobs -> SUBSET Ranks]
          /\ unsure \in [Jobs -> BOOLEAN] /\ untidy \in [Jobs -> BOOLEAN] /\ resume \in [Jobs -> 0..Steps]
          /\ {} \in SUBSET Ranks /\ FALSE \in BOOLEAN /\ 0 \in 0..Steps
      BY <1>4 DEF TrainInv, TypeInv
    <3> QED BY <1>2, <3>1, <3>2
  <2> QED BY <2>1, <2>3, <2>4, <1>3, <1>6 DEF TypeInv, DiskHolds
<1>8. \A i \in Free : \A r \in Ranks :
        /\ Blank(i, r) /\ rows'[i][r] = << >>
        /\ phase'[i][r] = IF i = j THEN "discover" ELSE "none"
  BY <1>2, <1>4, <1>5 DEF Blank
<1>9. \A i \in Jobs \ Free : \A r \in Ranks : Still(i, r)
  BY <1>2, <1>5 DEF Still
<1>10. ASSUME NEW i \in Free PROVE JobInv(i)' /\ \A r \in Ranks : RankInv(i, r)'
  BY <1>4, <1>8, BlankJob, BlankRank
<1>11. ASSUME NEW i \in Jobs \ Free PROVE JobInv(i)' /\ \A r \in Ranks : RankInv(i, r)'
  BY <1>3, <1>9, StillJob, StillRank DEF TrainInv, DiskHolds
<1> QED BY <1>3, <1>7, <1>10, <1>11 DEF TrainInv, DiskHolds

(***************************************************************************)
(* The reductions.                                                         *)
(***************************************************************************)
\* Every rank is there, and goes on from its part with the same result.
LEMMA ReduceIs ==
  ASSUME TrainInv, NEW j \in Jobs, Reduce(j)
  PROVE  LET ok == failed[j] = {}
             appended == ok /\ phase[j][Primary] = "append"
         IN /\ entered[j] = Ranks /\ entered'[j] = {} /\ failed'[j] = {}
            /\ UNCHANGED <<disk, unsure, resume, policy, rows, outages>>
            /\ \A r \in Ranks :
                 /\ phase'[j][r] = Onward(j, r, After(j, phase[j][r], ok))
                 /\ receipt'[j][r] = IF appended THEN Next_(j, r) ELSE receipt[j][r]
                 /\ ~Over(j, r) /\ phase[j][r] \in Working /\ (ok => Fine(j, r))
                 /\ Part(j, r) = Part(j, Primary)
            /\ untidy'[j] = (untidy[j] \/ (~ok /\ phase[j][Primary] = "truncate"))
            /\ \A i \in Jobs \ {j} : /\ phase'[i] = phase[i] /\ receipt'[i] = receipt[i] /\ untidy'[i] = untidy[i]
                                     /\ entered'[i] = entered[i] /\ failed'[i] = failed[i]
            /\ entered' \in [Jobs -> SUBSET Ranks] /\ failed' \in [Jobs -> SUBSET Ranks]
            /\ untidy' \in [Jobs -> BOOLEAN] /\ Table(receipt') /\ phase' = [i \in Jobs |-> phase'[i]]
            /\ phase'[j] = [r \in Ranks |-> phase'[j][r]]
<1> DEFINE ok == failed[j] = {}
           appended == ok /\ phase[j][Primary] = "append"
           ph == [r \in Ranks |-> Onward(j, r, After(j, phase[j][r], ok))]
           rec == [r \in Ranks |-> IF appended THEN Next_(j, r) ELSE receipt[j][r]]
<1>0. Primary \in Ranks
  BY TrainingAssumption
<1>1. /\ phase' = [phase EXCEPT ![j] = ph] /\ receipt' = [receipt EXCEPT ![j] = rec]
      /\ untidy' = [untidy EXCEPT ![j] = @ \/ (~ok /\ phase[j][Primary] = "truncate")]
      /\ entered' = [entered EXCEPT ![j] = {}] /\ failed' = [failed EXCEPT ![j] = {}]
      /\ UNCHANGED <<disk, unsure, resume, policy, rows, outages>> /\ entered[j] = Ranks
  BY DEF Reduce
<1>2. \A r \in Ranks : ph[r] = Onward(j, r, After(j, phase[j][r], ok))
                       /\ rec[r] = IF appended THEN Next_(j, r) ELSE receipt[j][r]
  OBVIOUS
<1>3. \A r \in Ranks : ~Over(j, r) /\ phase[j][r] \in Working /\ (ok => Fine(j, r))
  BY <1>1 DEF TrainInv, TypeInv, RankInv, Waits, Fine, Over
<1>4. \A r \in Ranks : Part(j, r) = Part(j, Primary)
  BY <1>0, <1>3 DEF TrainInv, JobInv, Together
<1>5. ph = [r \in Ranks |-> ph[r]] /\ rec = [r \in Ranks |-> rec[r]]
  OBVIOUS
<1> HIDE DEF ph, rec, ok, appended
<1>6. /\ phase'[j] = ph /\ receipt'[j] = rec
      /\ \A i \in Jobs \ {j} : phase'[i] = phase[i] /\ receipt'[i] = receipt[i]
      /\ phase' = [i \in Jobs |-> phase'[i]] /\ receipt' = [i \in Jobs |-> receipt'[i]]
  BY <1>1 DEF TrainInv, TypeInv, Table
<1>7. Table(receipt')
  <2>1. \A i \in Jobs : receipt[i] = [r \in Ranks |-> receipt[i][r]]
    BY DEF TrainInv, TypeInv, Table
  <2>2. \A i \in Jobs : receipt'[i] = [r \in Ranks |-> receipt'[i][r]]
    BY <2>1, <1>5, <1>6
  <2> QED BY <1>6, <2>2 DEF Table
<1>8. /\ untidy'[j] = (untidy[j] \/ (~ok /\ phase[j][Primary] = "truncate")) /\ entered'[j] = {} /\ failed'[j] = {}
      /\ \A i \in Jobs \ {j} : untidy'[i] = untidy[i] /\ entered'[i] = entered[i] /\ failed'[i] = failed[i]
      /\ entered' \in [Jobs -> SUBSET Ranks] /\ failed' \in [Jobs -> SUBSET Ranks]
      /\ untidy' \in [Jobs -> BOOLEAN]
  BY <1>1 DEF TrainInv, TypeInv
<1> QED BY <1>1, <1>2, <1>3, <1>4, <1>5, <1>6, <1>7, <1>8 DEF ok, appended

\* One rank goes from p to q, outside of the reductions; what else is as it was.
Goes(j, r, p, q) ==
  /\ phase[j][r] = p /\ phase'[j][r] = q /\ r \notin entered'[j] /\ r \notin failed'[j] /\ ~Fine(j, r)'
  /\ resume'[j] = resume[j] /\ policy'[j][r] = policy[j][r] /\ rows'[j][r] = rows[j][r]
  /\ slots' = slots /\ windows' = windows /\ outages' = outages
  /\ Step(j, r) \in Nat /\ resume[j] \in 0..Steps /\ Steps \in Nat \ {0} /\ RankInv(j, r)

Same(j, r) == receipt'[j][r] = receipt[j][r] /\ untidy'[j] = untidy[j]

LEMMA SameKept ==
  ASSUME NEW j, NEW r, NEW p, NEW q, Goes(j, r, p, q), receipt'[j][r] = receipt[j][r]
  PROVE  /\ Step(j, r)' = Step(j, r) /\ Kept(j, r)' = Kept(j, r) /\ Next_(j, r)' = Next_(j, r)
         /\ \A k, log : StoredAt(k, log)' <=> StoredAt(k, log)
         /\ receipt[j][r] = Genesis /\ rows[j][r] = << >> => Step(j, r) = 0 /\ rows[j][r] = Kept(j, r)
         /\ IsLog(receipt[j][r]) /\ OwnWindows(receipt[j][r])
<1>1. Step(j, r)' = Step(j, r) /\ Kept(j, r)' = Kept(j, r)
  BY DEF Goes, Step, Kept
<1>2. Next_(j, r)' = Next_(j, r)
  BY <1>1 DEF Goes, Next_
<1>3. \A k, log : StoredAt(k, log)' <=> StoredAt(k, log)
  BY DEF Goes, StoredAt, Visible
<1>4. ASSUME receipt[j][r] = Genesis, rows[j][r] = << >> PROVE Step(j, r) = 0 /\ rows[j][r] = Kept(j, r)
  <2>1. Step(j, r) = 0
    BY <1>4, EmptyLog DEF Step, Genesis
  <2>2. resume[j] \in Nat /\ 0 - resume[j] \in Int /\ 0 - resume[j] <= 0
    BY DEF Goes
  <2>3. Run(resume[j], 0 - resume[j]) = << >>
    BY <2>2, RunIs
  <2> QED BY <2>1, <2>3, <1>4 DEF Kept
<1> QED BY <1>1, <1>2, <1>3, <1>4 DEF Goes, RankInv, Waits

\* The restore.
LEMMA GoesOnRestore ==
  ASSUME TrainInv, NEW j \in Jobs, NEW r \in Ranks, NEW p \in {"discover", "load", "unload"}, NEW q,
         Goes(j, r, p, q), Same(j, r),
         \/ p = "discover" /\ resume[j] = 0 /\ q = "read"
         \/ p = "discover" /\ resume[j] # 0 /\ q = "load"
         \/ p = "discover" /\ q = "stop"
         \/ p = "load" /\ Fine(j, r) /\ q = (IF Step(j, r) = Steps THEN "done" ELSE "read")
         \/ p = "load" /\ q = "unload"
         \/ p = "unload" /\ Fine(j, r) /\ q = "stop"
         \/ q = "discard"
  PROVE  RankInv(j, r)'
<1>1. /\ Step(j, r)' = Step(j, r) /\ Kept(j, r)' = Kept(j, r)
      /\ \A k, log : StoredAt(k, log)' <=> StoredAt(k, log)
      /\ receipt[j][r] = Genesis /\ rows[j][r] = << >> => Step(j, r) = 0 /\ rows[j][r] = Kept(j, r)
      /\ IsLog(receipt[j][r]) /\ OwnWindows(receipt[j][r])
  BY SameKept DEF Same
<1>2. rows[j][r] = << >>
  BY DEF Goes, RankInv, Begins
<1>3. ASSUME p = "load", Fine(j, r)
      PROVE  /\ Step(j, r) = resume[j] /\ StoredAt(Step(j, r), receipt[j][r]) /\ Holds(j, r, receipt[j][r])
             /\ rows[j][r] = Kept(j, r)
  <2>1. StoredAt(resume[j], receipt[j][r]) /\ Holds(j, r, receipt[j][r]) /\ resume[j] # 0
    BY <1>3 DEF Goes, RankInv, Begins
  <2>2. resume[j] \in 1..Steps
    BY <2>1 DEF Goes
  <2>3. Len(receipt[j][r]) = resume[j]
    BY <2>1, <2>2 DEF StoredAt, TrainInv, SlotInv
  <2>4. Step(j, r) = resume[j]
    BY <2>3 DEF Step
  <2>5. Kept(j, r) = << >>
    <3>1. resume[j] \in Nat /\ Step(j, r) - resume[j] \in Int /\ Step(j, r) - resume[j] <= 0
      BY <2>2, <2>4
    <3> QED BY <3>1, RunIs DEF Kept
  <2> QED BY <2>1, <2>4, <2>5, <1>2
<1>4. ASSUME p = "discover"
      PROVE  receipt[j][r] = Genesis /\ policy[j][r] = Fresh /\ Step(j, r) = 0 /\ rows[j][r] = Kept(j, r)
  BY <1>1, <1>2, <1>4 DEF Goes, RankInv, Begins
<1>5. ASSUME p = "unload", Fine(j, r)
      PROVE  receipt[j][r] = Genesis /\ policy[j][r] = Fresh /\ Step(j, r) = 0 /\ rows[j][r] = Kept(j, r)
  BY <1>1, <1>2, <1>5 DEF Goes, RankInv, Begins
<1>6. Waits(j, r)'
  BY <1>1 DEF Goes, Same, Waits, Fine
<1>7. Begins(j, r)' /\ Accepted(j, r)' /\ Appended(j, r)'
  BY <1>2 DEF Goes, Same, Begins, Accepted, Appended
<1>8. Carries(j, r)'
  <2>1. ASSUME q \in {"read", "stop", "done"} PROVE Holds(j, r, receipt[j][r])
    <3>1. CASE p = "discover" \/ (p = "unload" /\ Fine(j, r))
      BY <3>1, <1>4, <1>5 DEF Holds, Fresh
    <3>2. CASE p = "load" /\ Fine(j, r)
      BY <3>2, <1>3
    <3> QED BY <2>1, <3>1, <3>2
  <2> QED BY <2>1 DEF Goes, Same, Carries, Holds, Saving
<1>9. Stands(j, r)'
  <2>1. ASSUME q = "read" PROVE resume[j] <= Step(j, r) /\ Step(j, r) < Steps /\ StoredAt(Step(j, r), receipt[j][r])
    <3>1. CASE p = "discover" /\ resume[j] = 0
      BY <3>1, <1>4 DEF Goes, StoredAt
    <3>2. CASE p = "load" /\ Fine(j, r) /\ Step(j, r) # Steps
      BY <3>2, <1>3 DEF Goes
    <3> QED BY <2>1, <3>1, <3>2
  <2>2. receipt'[j][r] = receipt[j][r] /\ resume'[j] = resume[j] /\ phase'[j][r] = q
    BY DEF Goes, Same
  <2>3. q = "read" => StoredAt(Step(j, r), receipt[j][r])'
    BY <2>1, <2>2, <1>1 DEF StoredAt, Visible
  <2>4. q \notin Saving /\ (q \in Reading => q = "read")
    BY DEF Reading, Saving
  <2> QED BY <1>1, <2>1, <2>2, <2>3, <2>4 DEF Stands, Saving
<1>10. Writes(j, r)'
  <2>1. ASSUME q \in {"read", "stop", "done"} PROVE rows[j][r] = Kept(j, r)
    <3>1. CASE p = "discover" \/ (p = "unload" /\ Fine(j, r))
      BY <3>1, <1>4, <1>5
    <3>2. CASE p = "load" /\ Fine(j, r)
      BY <3>2, <1>3
    <3> QED BY <2>1, <3>1, <3>2
  <2> QED BY <1>1, <2>1 DEF Goes, Same, Writes, Saving
<1> QED BY <1>6, <1>7, <1>8, <1>9, <1>10 DEF RankInv

\* A step, up to its row.
LEMMA GoesOnStep ==
  ASSUME TrainInv, NEW j \in Jobs, NEW r \in Ranks, NEW p \in Reading, NEW q,
         Goes(j, r, p, q), receipt'[j][r] = receipt[j][r], untidy'[j] = untidy[j] \/ untidy'[j] = TRUE,
         \/ p = "read" /\ Fine(j, r) /\ q = "update"
         \/ p = "read" /\ q = "read"
         \/ p = "update" /\ Fine(j, r) /\ q = "append"
         \/ p = "update" /\ q = "rollback"
         \/ p = "append" /\ q = "truncate"
         \/ p = "truncate" /\ q = "rollback" /\ (Fine(j, r) \/ untidy'[j])
         \/ p = "rollback" /\ Fine(j, r) /\ q = "read"
         \/ q = "discard"
  PROVE  RankInv(j, r)'
<1>1. /\ Step(j, r)' = Step(j, r) /\ Kept(j, r)' = Kept(j, r) /\ Next_(j, r)' = Next_(j, r)
      /\ \A k, log : StoredAt(k, log)' <=> StoredAt(k, log)
      /\ IsLog(receipt[j][r]) /\ OwnWindows(receipt[j][r])
  BY SameKept
<1>2. resume[j] <= Step(j, r) /\ Step(j, r) < Steps /\ StoredAt(Step(j, r), receipt[j][r])
  BY DEF Goes, RankInv, Stands
<1>3. Waits(j, r)'
  BY <1>1 DEF Goes, Waits, Reading
<1>4. Begins(j, r)' /\ Appended(j, r)'
  BY DEF Goes, Begins, Appended, Reading
<1>5. Stands(j, r)'
  <2>1. receipt'[j][r] = receipt[j][r] /\ resume'[j] = resume[j] /\ phase'[j][r] = q
    BY DEF Goes
  <2>2. StoredAt(Step(j, r), receipt[j][r])'
    BY <1>1, <1>2, <2>1 DEF StoredAt, Visible
  <2> QED BY <1>1, <1>2, <2>1, <2>2 DEF Stands, Saving
<1>6. Accepted(j, r)'
  <2>1. q \in {"update", "append"} => windows[Step(j, r)].what = "window" /\ windows[Step(j, r)].base = receipt[j][r]
    BY DEF Goes, RankInv, Accepted
  <2> QED BY <1>1, <2>1 DEF Goes, Accepted
<1>7. Carries(j, r)'
  <2>1. q = "read" => Holds(j, r, receipt[j][r])
    BY DEF Goes, RankInv, Carries
  <2>2. q = "append" => Holds(j, r, Next_(j, r))
    BY DEF Goes, RankInv, Carries
  <2>3. q \notin {"stop", "ambiguous", "done"} \cup Saving
    BY DEF Saving
  <2> QED BY <1>1, <2>1, <2>2, <2>3 DEF Goes, Carries, Holds
<1>8. Writes(j, r)'
  <2>1. ASSUME r \in Streams, ~untidy'[j]
        PROVE  /\ q \in {"read", "update", "append", "rollback"} => rows[j][r] = Kept(j, r)
               /\ q \in {"append", "truncate"} => Roughly(j, r)
    <3>1. ~untidy[j] \/ untidy[j] \notin BOOLEAN
      BY <2>1 DEF TrainInv, TypeInv
    <3>2. ~untidy[j] /\ Writes(j, r)
      BY <3>1 DEF Goes, RankInv, TrainInv, TypeInv
    <3>3. q \in {"read", "update", "append", "rollback"} => rows[j][r] = Kept(j, r)
      BY <2>1, <3>2 DEF Writes, Goes
    <3>4. q \in {"append", "truncate"} => Roughly(j, r)
      BY <2>1, <3>2 DEF Writes, Goes, Roughly
    <3> QED BY <3>3, <3>4
  <2>2. (Roughly(j, r)' <=> Roughly(j, r)) /\ rows'[j][r] = rows[j][r] /\ ~Fine(j, r)' /\ phase'[j][r] = q
    BY <1>1 DEF Roughly, Goes
  <2>3. q \notin {"stop", "ambiguous", "done"} \cup Saving
    BY DEF Saving
  <2> QED BY <1>1, <2>1, <2>2, <2>3 DEF Writes
<1> QED BY <1>3, <1>4, <1>5, <1>6, <1>7, <1>8 DEF RankInv

\* The row of the step is appended: the receipt takes the step.
LEMMA GoesOnCheck ==
  ASSUME TrainInv, NEW j \in Jobs, NEW r \in Ranks, Goes(j, r, "append", "check"),
         Fine(j, r), receipt'[j][r] = Next_(j, r), untidy'[j] = untidy[j]
  PROVE  RankInv(j, r)'
<1> DEFINE log == receipt[j][r]
           n == Step(j, r)
           e == [window |-> windows[n], by |-> <<j, outages>>]
           new == Append(log, e)
<1>1. /\ IsLog(log) /\ OwnWindows(log) /\ Len(log) = n /\ n \in Nat
      /\ resume[j] <= n /\ n < Steps /\ StoredAt(n, log) /\ resume[j] \in Nat
      /\ windows[n].base = log /\ Holds(j, r, new) /\ receipt'[j][r] = new
      /\ r \in Streams /\ ~untidy[j] => rows[j][r] = Append(Kept(j, r), n)
  BY DEF Goes, RankInv, Waits, Stands, Accepted, Carries, Writes, Reading, Step, Next_
<1>2. e.window.base = log /\ e.by[1] = j
  BY <1>1
<1>3. Kept(j, r) = Run(resume[j], n - resume[j])
  BY DEF Kept
<1>4. phase'[j][r] = "check" /\ policy'[j][r] = policy[j][r] /\ rows'[j][r] = rows[j][r] /\ resume'[j] = resume[j]
      /\ slots' = slots
  BY DEF Goes
<1> HIDE DEF e, n, log
<1>5. /\ IsLog(new) /\ Len(new) = n + 1 /\ Last(new) = e /\ SubSeq(new, 1, n) = log
  BY <1>1, LogGrows
<1>6. OwnWindows(new)
  BY <1>1, <1>2, OwnGrows
<1> HIDE DEF new
<1>7. Step(j, r)' = n + 1 /\ Kept(j, r)' = Run(resume[j], n + 1 - resume[j])
  <2>1. Step(j, r)' = n + 1
    BY <1>1, <1>5 DEF Step
  <2>2. Kept(j, r)' = Run(resume[j], Step(j, r)' - resume[j])
    BY <1>4 DEF Kept
  <2> QED BY <2>1, <2>2, <1>1
<1>8. Waits(j, r)'
  BY <1>1, <1>4, <1>5, <1>6 DEF Goes, Waits
<1>9. Begins(j, r)' /\ Accepted(j, r)' /\ Appended(j, r)'
  BY <1>4 DEF Goes, Begins, Accepted, Appended
<1>10. Stands(j, r)'
  <2>1. n + 1 - 1 = n /\ resume[j] < n + 1 /\ n + 1 <= Steps
    BY <1>1 DEF Goes
  <2>2. StoredAt(n, SubSeq(receipt'[j][r], 1, n)) /\ Last(receipt'[j][r]).by[1] = j
    BY <1>1, <1>2, <1>5
  <2>3. StoredAt(Step(j, r) - 1, SubSeq(receipt[j][r], 1, Step(j, r) - 1))'
    <3>1. Step(j, r)' - 1 = n
      BY <1>1, <1>7, <2>1
    <3> DEFINE l == SubSeq(receipt'[j][r], 1, n)
    <3>2. StoredAt(n, l)
      BY <2>2
    <3> HIDE DEF l
    <3>3. n = 0 \/ (slots'[n].what = "continuation" /\ slots'[n].state = l)
      BY <3>2, <1>4 DEF StoredAt, Visible
    <3> QED BY <3>1, <3>3 DEF StoredAt, Visible, l
  <2> QED BY <1>4, <1>7, <2>1, <2>2, <2>3 DEF Stands, Reading
<1>11. Carries(j, r)'
  BY <1>1, <1>4 DEF Carries, Holds, Goes
<1>12. Writes(j, r)'
  <2>1. ASSUME r \in Streams, ~untidy[j] PROVE rows[j][r] = Run(resume[j], n + 1 - resume[j])
    <3> DEFINE m == n - resume[j]
    <3>1. m \in Nat /\ resume[j] + m = n /\ m + 1 = n + 1 - resume[j]
      BY <1>1
    <3> HIDE DEF m
    <3>2. Append(Run(resume[j], m), resume[j] + m) = Run(resume[j], m + 1)
      BY <1>1, <3>1, RunGrows
    <3> QED BY <2>1, <1>1, <1>3, <3>1, <3>2 DEF m
  <2> QED BY <1>4, <1>7, <2>1 DEF Writes, Saving, Goes
<1> QED BY <1>8, <1>9, <1>10, <1>11, <1>12 DEF RankInv

\* The save.
LEMMA GoesOnSave ==
  ASSUME TrainInv, NEW j \in Jobs, NEW r \in Ranks, NEW p \in Saving, NEW q,
         Goes(j, r, p, q), Same(j, r),
         \/ p = "check" /\ q = "save"
         \/ q \in {"stop", "ambiguous"}
         \/ /\ q = IF Step(j, r) = Steps THEN "done" ELSE "read"
            /\ slots[Step(j, r)] = [what |-> "continuation", state |-> receipt[j][r]]
  PROVE  RankInv(j, r)'
<1>1. /\ Step(j, r)' = Step(j, r) /\ Kept(j, r)' = Kept(j, r)
      /\ \A k, log : StoredAt(k, log)' <=> StoredAt(k, log)
      /\ IsLog(receipt[j][r]) /\ OwnWindows(receipt[j][r])
  BY SameKept DEF Same
<1>2. /\ resume[j] < Step(j, r) /\ Step(j, r) <= Steps
      /\ StoredAt(Step(j, r) - 1, SubSeq(receipt[j][r], 1, Step(j, r) - 1))
      /\ Last(receipt[j][r]).by[1] = j
  BY DEF Goes, RankInv, Stands
<1>3. Waits(j, r)'
  BY <1>1 DEF Goes, Same, Waits
<1>4. Begins(j, r)' /\ Accepted(j, r)' /\ Appended(j, r)'
  BY DEF Goes, Begins, Accepted, Appended
<1>5. Holds(j, r, receipt[j][r]) /\ (r \in Streams /\ ~untidy[j] => rows[j][r] = Kept(j, r))
  BY DEF Goes, RankInv, Carries, Writes
<1>6. Carries(j, r)' /\ Writes(j, r)'
  BY <1>1, <1>5 DEF Goes, Same, Carries, Writes, Holds
<1>7. Stands(j, r)'
  <2>1. receipt'[j][r] = receipt[j][r] /\ resume'[j] = resume[j] /\ phase'[j][r] = q
    BY DEF Goes, Same
  <2>2. CASE q = "save"
    <3>1. StoredAt(Step(j, r) - 1, SubSeq(receipt[j][r], 1, Step(j, r) - 1))'
      BY <1>1, <1>2, <2>1 DEF StoredAt, Visible
    <3> QED BY <1>1, <1>2, <2>1, <2>2, <3>1 DEF Stands, Reading
  <2>3. CASE q \in {"stop", "ambiguous", "done"}
    BY <2>1, <2>3 DEF Stands, Reading, Saving
  <2>4. CASE q = "read" /\ Step(j, r) # Steps /\ slots[Step(j, r)] = [what |-> "continuation", state |-> receipt[j][r]]
    <3>1. StoredAt(Step(j, r), receipt[j][r])'
      BY <1>1, <2>1, <2>4 DEF StoredAt, Visible, Goes
    <3>2. resume[j] <= Step(j, r) /\ Step(j, r) < Steps
      BY <1>2, <2>4 DEF Goes
    <3> QED BY <1>1, <2>1, <2>4, <3>1, <3>2 DEF Stands, Saving
  <2> QED BY <2>2, <2>3, <2>4
<1> QED BY <1>3, <1>4, <1>6, <1>7 DEF RankInv

LEMMA ReduceRank ==
  ASSUME TrainInv, NEW j \in Jobs, Reduce(j), NEW r \in Ranks PROVE RankInv(j, r)'
<1> DEFINE ok == failed[j] = {}
           p == phase[j][r]
           q == phase'[j][r]
<1>0. Primary \in Ranks /\ Steps \in Nat \ {0}
  BY TrainingAssumption
<1>1. /\ entered'[j] = {} /\ failed'[j] = {} /\ entered[j] = Ranks
      /\ UNCHANGED <<disk, unsure, resume, policy, rows, outages>>
      /\ q = Onward(j, r, After(j, p, ok))
      /\ receipt'[j][r] = IF ok /\ phase[j][Primary] = "append" THEN Next_(j, r) ELSE receipt[j][r]
      /\ p \in Working /\ (ok => Fine(j, r)) /\ Part(j, r) = Part(j, Primary)
      /\ untidy'[j] = (untidy[j] \/ (~ok /\ phase[j][Primary] = "truncate"))
  BY ReduceIs
<1>2. (p = "append" <=> phase[j][Primary] = "append") /\ (p = "truncate" <=> phase[j][Primary] = "truncate")
  BY <1>1 DEF Part
<1>3. RankInv(j, r) /\ Step(j, r) \in Nat /\ resume[j] \in 0..Steps /\ untidy[j] \in BOOLEAN
  BY LogHas DEF TrainInv, TypeInv, RankInv, Waits, Step
<1>4. Goes(j, r, p, q)
  BY <1>0, <1>1, <1>3 DEF Goes, Fine, disk
<1>5. p \in Reading => Step(j, r) # Steps
  BY <1>0, <1>3 DEF RankInv, Stands
<1>6. ok => (Fine(j, r) /\ Fine(j, Primary))
  BY <1>0, <1>1 DEF Fine
<1> HIDE DEF ok, p, q
<1>8. CASE p \in {"discover", "load", "unload"}
  <2>1. Same(j, r)
    BY <1>1, <1>2, <1>3, <1>8 DEF Same
  <2>2. \/ p = "discover" /\ resume[j] = 0 /\ q = "read"
        \/ p = "discover" /\ resume[j] # 0 /\ q = "load"
        \/ p = "discover" /\ q = "stop"
        \/ p = "load" /\ Fine(j, r) /\ q = (IF Step(j, r) = Steps THEN "done" ELSE "read")
        \/ p = "load" /\ q = "unload"
        \/ p = "unload" /\ Fine(j, r) /\ q = "stop"
        \/ q = "discard"
    <3>1. CASE p = "discover"
      <4>1. p = "discover" => Step(j, r) = 0
        BY <1>3, EmptyLog DEF RankInv, Begins, Step, Genesis, p
      <4> QED BY <3>1, <4>1, <1>0, <1>1 DEF Onward, After
    <3>2. CASE p = "load"
      BY <3>2, <1>1, <1>6 DEF Onward, After
    <3>3. CASE p = "unload"
      BY <3>3, <1>1, <1>6 DEF Onward, After
    <3> QED BY <1>8, <3>1, <3>2, <3>3
  <2> QED BY <1>4, <1>8, <2>1, <2>2, GoesOnRestore
<1>9. CASE p \in Reading /\ ~(ok /\ p = "append")
  <2>1. receipt'[j][r] = receipt[j][r] /\ (untidy'[j] = untidy[j] \/ untidy'[j] = TRUE)
    BY <1>1, <1>2, <1>3, <1>9
  <2>2. \/ p = "read" /\ Fine(j, r) /\ q = "update"
        \/ p = "read" /\ q = "read"
        \/ p = "update" /\ Fine(j, r) /\ q = "append"
        \/ p = "update" /\ q = "rollback"
        \/ p = "append" /\ q = "truncate"
        \/ p = "truncate" /\ q = "rollback" /\ (Fine(j, r) \/ untidy'[j])
        \/ p = "rollback" /\ Fine(j, r) /\ q = "read"
        \/ q = "discard"
    <3>1. CASE p = "read"
      BY <3>1, <1>1, <1>5, <1>6, <1>9 DEF Onward, After
    <3>2. CASE p = "update"
      BY <3>2, <1>1, <1>6 DEF Onward, After
    <3>3. CASE p = "append"
      BY <3>3, <1>1, <1>9 DEF Onward, After
    <3>4. CASE p = "truncate"
      BY <3>4, <1>1, <1>2, <1>6 DEF Onward, After
    <3>5. CASE p = "rollback"
      BY <3>5, <1>1, <1>5, <1>6, <1>9 DEF Onward, After
    <3> QED BY <1>9, <3>1, <3>2, <3>3, <3>4, <3>5 DEF Reading
  <2> QED BY <1>4, <1>9, <2>1, <2>2, GoesOnStep
<1>10. CASE ok /\ p = "append"
  <2>1. q = "check" /\ receipt'[j][r] = Next_(j, r) /\ untidy'[j] = untidy[j]
    BY <1>1, <1>2, <1>3, <1>10 DEF Onward, After
  <2> QED BY <1>4, <1>6, <1>10, <2>1, GoesOnCheck
<1>11. CASE p \in Saving
  <2>1. Same(j, r)
    BY <1>1, <1>2, <1>3, <1>11 DEF Same, Saving
  <2>2. CASE p = "check"
    <3>1. q = "save" \/ q = "stop"
      BY <2>2, <1>1 DEF Onward, After
    <3> QED BY <1>4, <1>11, <2>1, <2>2, <3>1, GoesOnSave
  <2>3. CASE p \in {"save", "settle"} /\ ~ok
    <3>1. q \in {"stop", "ambiguous"}
      BY <2>3, <1>1 DEF Onward, After
    <3> QED BY <1>4, <1>11, <2>1, <3>1, GoesOnSave
  <2>4. CASE p \in {"save", "settle"} /\ ok
    <3>1. q = IF Step(j, r) = Steps THEN "done" ELSE "read"
      BY <2>4, <1>1 DEF Onward, After
    <3>2. phase[j][Primary] = "settle"
      <4>1. phase[j][Primary] \in {"save", "settle"}
        BY <2>4, <1>1 DEF Part, p
      <4>2. phase[j][Primary] = "save" => ~Fine(j, Primary)
        BY <1>0 DEF TrainInv, RankInv, Waits
      <4> QED BY <4>1, <4>2, <1>6, <2>4
    <3>3. /\ slots[Step(j, Primary)] = [what |-> "continuation", state |-> receipt[j][Primary]]
          /\ receipt[j][r] = receipt[j][Primary]
      <4>1. ~Over(j, r) /\ ~Over(j, Primary)
        BY <1>0, ReduceIs
      <4>2. phase[j][r] \in Reading \cup Saving
        BY <1>11 DEF p
      <4> QED BY <1>0, <3>2, <4>1, <4>2 DEF TrainInv, RankInv, Stands, JobInv, Together
    <3>4. slots[Step(j, r)] = [what |-> "continuation", state |-> receipt[j][r]]
      BY <3>3 DEF Step
    <3> QED BY <1>4, <1>11, <2>1, <3>1, <3>4, GoesOnSave
  <2> QED BY <1>11, <2>2, <2>3, <2>4 DEF Saving
<1> QED BY <1>1, <1>8, <1>9, <1>10, <1>11 DEF Working, Reading, Saving

LEMMA ReduceJob ==
  ASSUME TrainInv, NEW j \in Jobs, Reduce(j) PROVE JobInv(j)'
<1> DEFINE ok == failed[j] = {}
<1>0. Primary \in Ranks /\ Streams \subseteq Ranks /\ Steps \in Nat \ {0}
  BY TrainingAssumption
<1>1. /\ entered'[j] = {} /\ failed'[j] = {}
      /\ UNCHANGED <<disk, unsure, resume, policy, rows, outages>>
      /\ \A r \in Ranks :
           /\ phase'[j][r] = Onward(j, r, After(j, phase[j][r], ok))
           /\ receipt'[j][r] = IF ok /\ phase[j][Primary] = "append" THEN Next_(j, r) ELSE receipt[j][r]
           /\ ~Over(j, r) /\ phase[j][r] \in Working /\ (ok => Fine(j, r))
           /\ Part(j, r) = Part(j, Primary)
  BY ReduceIs
<1> HIDE DEF ok
<1>2. \A r, s \in Ranks : /\ After(j, phase[j][r], ok) = After(j, phase[j][s], ok)
                          /\ phase[j][r] \in Reading \cup Saving => receipt[j][r] = receipt[j][s]
                          /\ phase[j][r] = phase[j][s] \/ {phase[j][r], phase[j][s]} = {"save", "settle"}
  <2>1. ASSUME NEW r \in Ranks, NEW s \in Ranks
        PROVE  /\ Part(j, r) = Part(j, s)
               /\ phase[j][r] \in Reading \cup Saving => receipt[j][r] = receipt[j][s]
    BY <1>1 DEF TrainInv, JobInv, Together
  <2>2. ASSUME NEW r \in Ranks, NEW s \in Ranks
        PROVE  phase[j][r] = phase[j][s] \/ {phase[j][r], phase[j][s]} = {"save", "settle"}
    BY <2>1 DEF Part
  <2>3. After(j, "save", ok) = After(j, "settle", ok)
    BY DEF After
  <2>4. ASSUME NEW r \in Ranks, NEW s \in Ranks PROVE After(j, phase[j][r], ok) = After(j, phase[j][s], ok)
    <3>1. phase[j][r] = phase[j][s] \/ (phase[j][r] \in {"save", "settle"} /\ phase[j][s] \in {"save", "settle"})
      BY <2>2
    <3> QED BY <2>3, <3>1
  <2> QED BY <2>1, <2>2, <2>4
<1>3. \A r, s \in Ranks : phase[j][r] = "load" /\ ok => receipt[j][r] = receipt[j][s]
  <2>1. ASSUME NEW r \in Ranks, phase[j][r] = "load", ok
        PROVE  receipt[j][r] = slots[resume[j]].state
    <3>1. StoredAt(resume[j], receipt[j][r]) /\ resume[j] # 0
      BY <1>1, <2>1 DEF TrainInv, RankInv, Begins
    <3> QED BY <3>1 DEF StoredAt
  <2>2. ASSUME NEW r \in Ranks, NEW s \in Ranks, phase[j][r] = "load" PROVE phase[j][s] = "load"
    BY <2>2, <1>2
  <2> QED BY <2>1, <2>2
<1>4. \A r, s \in Ranks : phase[j][r] = "discover" => receipt[j][r] = receipt[j][s]
  <2>1. ASSUME NEW r \in Ranks, NEW s \in Ranks, phase[j][r] = "discover" PROVE phase[j][s] = "discover"
    BY <2>1, <1>2
  <2> QED BY <2>1 DEF TrainInv, RankInv, Begins
<1>5. ASSUME NEW r \in Ranks, NEW s \in Ranks, After(j, phase[j][r], ok) \in Reading \cup Saving
      PROVE  receipt[j][r] = receipt[j][s] /\ Step(j, r) = Step(j, s)
  <2>1. phase[j][r] \in Reading \cup Saving \cup {"discover"} \/ (phase[j][r] = "load" /\ ok)
    BY <1>1, <1>5 DEF After, Working, Reading, Saving
  <2>2. receipt[j][r] = receipt[j][s]
    BY <2>1, <1>2, <1>3, <1>4
  <2> QED BY <2>2 DEF Step
<1>6. Together(j)'
  <2>1. ASSUME NEW r \in Ranks, NEW s \in Ranks
        PROVE  /\ phase'[j][r] = phase'[j][s]
               /\ phase'[j][r] \in Reading \cup Saving => receipt'[j][r] = receipt'[j][s]
    <3>1. phase'[j][r] = phase'[j][s]
      BY <1>1, <1>2, <1>5 DEF Onward, Reading
    <3>2. ASSUME phase'[j][r] \in Reading \cup Saving PROVE receipt'[j][r] = receipt'[j][s]
      <4>1. After(j, phase[j][r], ok) \in Reading \cup Saving
        BY <3>2, <1>1 DEF Onward, Reading, Saving
      <4>2. receipt[j][r] = receipt[j][s] /\ Step(j, r) = Step(j, s)
        BY <4>1, <1>5
      <4>3. Next_(j, r) = Next_(j, s)
        BY <4>2 DEF Next_
      <4> QED BY <4>2, <4>3, <1>1
    <3> QED BY <3>1, <3>2
  <2> QED BY <2>1 DEF Together, Part
<1>7. NotBegun(j)'
  <2>1. phase'[j][Primary] # "discover"
    BY <1>0, <1>1 DEF Onward, After
  <2> QED BY <2>1 DEF NotBegun
<1>8. NoGapAbove(j)'
  <2>1. ASSUME Anchored(j)' PROVE Anchored(j)
    <3>1. PICK r \in Ranks : phase'[j][r] \notin Ended
      BY <2>1, <1>1 DEF Anchored, Fine, Over
    <3>2. CASE phase[j][r] # "discover"
      BY <3>2, <1>1 DEF Anchored
    <3>3. CASE phase[j][r] = "discover" /\ ok
      BY <3>3, <1>0, <1>1 DEF Anchored
    <3>4. CASE phase[j][r] = "discover" /\ ~ok
      BY <3>1, <3>4, <1>1 DEF Onward, After, Ended
    <3> QED BY <3>2, <3>3, <3>4
  <2>2. NoGap(resume[j])' <=> NoGap(resume[j])
    BY <1>1 DEF NoGap, Visible, disk
  <2> QED BY <2>1, <2>2 DEF NoGapAbove, TrainInv, JobInv
<1>9. RowsOfStep(j)'
  <2>1. ASSUME phase'[j][Primary] \in Saving, NEW s \in Streams
        PROVE  HasRow(j, s, Step(j, Primary) - 1)'
    <3>1. \/ phase[j][Primary] = "append" /\ ok
          \/ phase[j][Primary] = "check" /\ ok
      BY <2>1, <1>0, <1>1 DEF Onward, After, Saving, Working
    <3>2. CASE phase[j][Primary] = "append" /\ ok
      <4>1. phase[j][s] = "append" /\ Fine(j, s) /\ receipt[j][s] = receipt[j][Primary] /\ s \in Ranks
        BY <3>2, <1>0, <1>1, <1>2 DEF Reading
      <4>2. HasRow(j, s, Step(j, s)) /\ Step(j, s) = Step(j, Primary)
        BY <4>1 DEF TrainInv, RankInv, Appended, Step
      <4>3. Step(j, Primary)' = Step(j, Primary) + 1 /\ Step(j, Primary) \in Nat
        <5>1. IsLog(receipt[j][Primary])
          BY <1>0 DEF TrainInv, RankInv, Waits
        <5>2. receipt'[j][Primary] = Next_(j, Primary)
          BY <3>2, <1>0, <1>1
        <5> DEFINE e == [window |-> windows[Step(j, Primary)], by |-> <<j, outages>>]
        <5>3. receipt'[j][Primary] = Append(receipt[j][Primary], e)
          BY <5>2 DEF Next_
        <5> HIDE DEF e
        <5>4. Len(Append(receipt[j][Primary], e)) = Len(receipt[j][Primary]) + 1 /\ Len(receipt[j][Primary]) \in Nat
          BY <5>1, LogGrows, LogHas
        <5> QED BY <5>3, <5>4 DEF Step
      <4>4. Step(j, Primary)' - 1 = Step(j, s)
        BY <4>2, <4>3
      <4> QED BY <4>2, <4>4, <1>1 DEF HasRow
    <3>3. CASE phase[j][Primary] = "check" /\ ok
      <4>1. Step(j, Primary)' = Step(j, Primary)
        BY <3>3, <1>0, <1>1 DEF Step
      <4>2. HasRow(j, s, Step(j, Primary) - 1)
        BY <3>3 DEF TrainInv, JobInv, RowsOfStep, Saving
      <4> QED BY <4>1, <4>2, <1>1 DEF HasRow
    <3> QED BY <3>1, <3>2, <3>3
  <2> QED BY <2>1 DEF RowsOfStep
<1> QED BY <1>6, <1>7, <1>8, <1>9 DEF JobInv

LEMMA ReduceHolds == ASSUME TrainInv, NEW j \in Jobs, Reduce(j) PROVE TrainInv'
<1>1. /\ entered' \in [Jobs -> SUBSET Ranks] /\ failed' \in [Jobs -> SUBSET Ranks]
      /\ untidy' \in [Jobs -> BOOLEAN] /\ Table(receipt') /\ phase' = [i \in Jobs |-> phase'[i]]
      /\ phase'[j] = [r \in Ranks |-> phase'[j][r]]
      /\ \A i \in Jobs \ {j} : /\ phase'[i] = phase[i] /\ receipt'[i] = receipt[i] /\ untidy'[i] = untidy[i]
                               /\ entered'[i] = entered[i] /\ failed'[i] = failed[i]
      /\ UNCHANGED <<disk, unsure, resume, policy, rows, outages>>
      /\ \A r \in Ranks : phase'[j][r] = Onward(j, r, After(j, phase[j][r], failed[j] = {}))
  BY ReduceIs
<1>2. DiskHolds
  BY <1>1, DiskSameHolds
<1>3. \A r \in Ranks : phase'[j][r] \in Working \cup Ended
  BY <1>1 DEF Onward, After, Working, Ended
<1>4. phase' \in [Jobs -> [Ranks -> Working \cup Ended]]
  <2>1. ASSUME NEW i \in Jobs PROVE phase'[i] \in [Ranks -> Working \cup Ended]
    <3>1. phase[i] \in [Ranks -> Working \cup Ended]
      BY DEF TrainInv, TypeInv
    <3>2. [r \in Ranks |-> phase'[j][r]] \in [Ranks -> Working \cup Ended]
      BY <1>3
    <3> QED BY <3>1, <3>2, <1>1
  <2>2. [i \in Jobs |-> phase'[i]] \in [Jobs -> [Ranks -> Working \cup Ended]]
    BY <2>1
  <2> QED BY <2>2, <1>1
<1>5. TypeInv'
  BY <1>1, <1>2, <1>4 DEF TrainInv, TypeInv, DiskHolds
<1>6. ASSUME NEW i \in Jobs \ {j}, NEW s \in Ranks PROVE Still(i, s)
  BY <1>1 DEF Still
<1>7. ASSUME NEW i \in Jobs \ {j} PROVE JobInv(i)' /\ \A s \in Ranks : RankInv(i, s)'
  BY <1>2, <1>6, StillJob, StillRank DEF TrainInv, DiskHolds
<1> QED BY <1>2, <1>5, <1>7, ReduceRank, ReduceJob DEF TrainInv, DiskHolds

(***************************************************************************)
(* The invariant holds.                                                    *)
(***************************************************************************)
LEMMA InitHolds == ASSUME Init PROVE TrainInv
<1>0. Primary \in Ranks /\ Steps \in Nat \ {0}
  BY TrainingAssumption
<1>1. \A k \in 1..Steps : ~Visible(k)
  BY DEF Init, Visible, Empty
<1>2. SlotInv
  BY <1>1 DEF Init, SlotInv
<1>3. TypeInv
  <2>1. Table(policy) /\ Table(receipt)
    BY DEF Init, Table
  <2>2. << >> \in Seq(0..Steps)
    BY EmptySeq
  <2>3. rows \in [Jobs -> [Ranks -> Seq(0..Steps)]]
    <3>1. [r \in Ranks |-> << >>] \in [Ranks -> Seq(0..Steps)]
      BY <2>2
    <3> QED BY <3>1 DEF Init
  <2>4. phase \in [Jobs -> [Ranks -> Working \cup Ended]]
    BY DEF Init, Ended
  <2> QED BY <2>1, <2>3, <2>4, <1>0 DEF Init, TypeInv
<1>4. ASSUME NEW j \in Jobs PROVE JobInv(j)
  <2>1. entered[j] = {} /\ \A r \in Ranks : phase[j][r] = "none"
    BY DEF Init
  <2>2. Together(j) /\ NotBegun(j) /\ RowsOfStep(j)
    BY <1>0, <2>1 DEF Together, NotBegun, RowsOfStep, Over, Ended, Saving
  <2>3. NoGapAbove(j)
    BY <1>0, <2>1 DEF NoGapAbove, Anchored, Fine, Over, Ended
  <2> QED BY <2>2, <2>3 DEF JobInv
<1>5. ASSUME NEW j \in Jobs, NEW r \in Ranks PROVE RankInv(j, r)
  <2>1. entered[j] = {} /\ failed[j] = {} /\ phase[j][r] = "none" /\ receipt[j][r] = << >>
    BY DEF Init, Genesis
  <2>2. Waits(j, r)
    BY <2>1, EmptyLog DEF Waits
  <2>3. Begins(j, r) /\ Stands(j, r) /\ Accepted(j, r) /\ Carries(j, r) /\ Writes(j, r) /\ Appended(j, r)
    BY <2>1 DEF Begins, Stands, Accepted, Carries, Writes, Appended, Reading, Saving
  <2> QED BY <2>2, <2>3 DEF RankInv
<1> QED BY <1>2, <1>3, <1>4, <1>5 DEF TrainInv

LEMMA RankStepHolds == ASSUME TrainInv, NEW j \in Jobs, NEW r \in Ranks, RankStep(j, r) PROVE TrainInv'
BY DiscoverHolds, LoadHolds, UnloadHolds, ReadHolds, UpdateHolds, AppendRowHolds, TruncateRowHolds,
   RollbackHolds, SaveWaits, CommErrorHolds DEF RankStep

LEMMA NextHolds == ASSUME TrainInv, [Next]_vars PROVE TrainInv'
<1>1. ASSUME NEW j \in Jobs, Progress(j) PROVE TrainInv'
  <2>1. CASE Deadline(j)
    BY <2>1, CommDiesHolds DEF Deadline
  <2>2. CASE \E r \in Ranks : RankStep(j, r)
    BY <2>2, RankStepHolds
  <2> QED BY <1>1, <2>1, <2>2, PublishHolds, SettleSlotHolds, ReduceHolds DEF Progress
<1>2. ASSUME NEW j \in Jobs, CommFails(j) PROVE TrainInv'
  BY <1>2, CommDiesHolds DEF CommFails
<1>3. CASE Finished
  BY <1>3, UnchangedHolds DEF Finished
<1> QED BY <1>1, <1>2, <1>3, CollectHolds, KillHolds, LaunchHolds, OutageHolds, UnchangedHolds DEF Next

\* The logs of all ranks and of the disk fit together at every step of a job,
\* whatever fails, is killed, or lingers.
THEOREM Invariance == Spec => []TrainInv
<1>1. Init => TrainInv
  BY InitHolds
<1>2. TrainInv /\ [Next]_vars => TrainInv'
  BY NextHolds
<1> QED BY <1>1, <1>2, PTL DEF Spec

(***************************************************************************)
(* What it shows.                                                          *)
(***************************************************************************)
\* Each window that a continuation or a receipt has been trained on was collected
\* from the very state that the training went on from: what a learner accepts as
\* the window of its step was collected from its own receipt.
THEOREM WindowsAreOwn == Spec => []NoForeignWindow
<1>1. ASSUME TrainInv PROVE NoForeignWindow
  <2>1. DOMAIN slots = 1..Steps
    BY <1>1 DEF TrainInv, TypeInv
  <2>2. \A k \in DOMAIN slots : Visible(k) => OwnWindows(slots[k].state)
    BY <1>1, <2>1 DEF TrainInv, SlotInv
  <2>3. \A j \in Jobs, r \in Ranks : OwnWindows(receipt[j][r])
    BY <1>1 DEF TrainInv, RankInv, Waits
  <2> QED BY <2>2, <2>3 DEF NoForeignWindow
<1>2. TrainInv => NoForeignWindow
  BY <1>1
<1> QED BY <1>2, Invariance, PTL

\* Between two calls of a rank, and when it stops with a plain error, its policy
\* is that of its receipt, and its stream has the rows of the steps that the
\* receipt has and its job did.
THEOREM CallersCanGoOn == Spec => []ReceiptTellsAll
<1>1. ASSUME TrainInv, NEW j \in Jobs, NEW r \in Ranks, Between(j, r)
      PROVE  /\ policy[j][r] = [adapter |-> receipt[j][r], sampler |-> receipt[j][r]]
             /\ r \in Streams /\ ~untidy[j] =>
                  rows[j][r] = [i \in 1..(Step(j, r) - resume[j]) |-> resume[j] + i - 1]
  <2>1. phase[j][r] \in {"read", "stop", "ambiguous", "done"} \cup Saving
    BY <1>1 DEF Between, Busy, Saving
  <2>2. Carries(j, r) /\ Writes(j, r)
    BY <1>1 DEF TrainInv, RankInv
  <2>3. Holds(j, r, receipt[j][r])
    BY <2>1, <2>2 DEF Carries
  <2>4. r \in Streams /\ ~untidy[j] => rows[j][r] = Kept(j, r)
    BY <2>1, <2>2 DEF Writes
  <2> QED BY <2>3, <2>4 DEF Holds, Kept, Run
<1>2. TrainInv => ReceiptTellsAll
  BY <1>1 DEF ReceiptTellsAll
<1> QED BY <1>2, Invariance, PTL

(***************************************************************************)
(* The disk, step by step.                                                 *)
(***************************************************************************)
PublishesNext(j) ==
  /\ phase[j][Primary] = "save" /\ slots[Step(j, Primary)] = Empty
  /\ slots' = [slots EXCEPT ![Step(j, Primary)] = Shows(j)]
  /\ UNCHANGED settled

LeavesClaim ==
  /\ \E k \in 1..Steps : slots[k] = Empty /\ slots' = [slots EXCEPT ![k] = Claim]
  /\ UNCHANGED settled

SettlesSome == UNCHANGED slots /\ \E k \in 1..Steps : Visible(k) /\ settled' = settled \cup {k}

LosesSome ==
  /\ \E lost \in SUBSET (DOMAIN slots \ settled) :
       slots' = [k \in DOMAIN slots |-> IF k \in lost THEN Empty ELSE slots[k]]
  /\ UNCHANGED settled

\* Continuations come in no other way than by a save, and go by power failures only.
LEMMA DiskSteps ==
  ASSUME TrainInv, [Next]_vars
  PROVE  \/ UNCHANGED <<slots, settled>> \/ LeavesClaim \/ SettlesSome \/ LosesSome
         \/ \E j \in Jobs : PublishesNext(j)
<1>1. ASSUME NEW j \in Jobs, Publish(j)
      PROVE  PublishesNext(j) \/ LeavesClaim \/ UNCHANGED <<slots, settled>>
  <2>1. phase[j][Primary] = "save" /\ settled' = settled
    BY <1>1 DEF Publish, Busy
  <2>2. Step(j, Primary) \in 1..Steps
    BY <2>1, NextSlot
  <2> QED BY <1>1, <2>1, <2>2 DEF Publish, PublishesNext, LeavesClaim
<1>2. ASSUME NEW j \in Jobs, SettleSlot(j) PROVE SettlesSome \/ UNCHANGED <<slots, settled>>
  <2>0. Primary \in Ranks /\ Steps \in Nat
    BY TrainingAssumption
  <2>1. phase[j][Primary] = "settle" /\ UNCHANGED slots
    BY <1>2 DEF SettleSlot, Busy
  <2>2. Visible(Step(j, Primary)) /\ Step(j, Primary) \in 1..Steps
    <3>0. slots[Step(j, Primary)] = Shows(j)
      BY <2>0, <2>1 DEF TrainInv, RankInv, Stands, Shows
    <3>0a. Visible(Step(j, Primary))
      BY <3>0 DEF Visible, Shows
    <3>1. /\ IsLog(receipt[j][Primary]) /\ resume[j] < Step(j, Primary) /\ Step(j, Primary) <= Steps
          /\ resume[j] \in 0..Steps /\ Visible(Step(j, Primary))
      BY <2>0, <2>1, <3>0a DEF TrainInv, TypeInv, RankInv, Waits, Stands, Saving
    <3>2. Step(j, Primary) \in Nat
      BY <3>1, LogHas DEF Step
    <3> QED BY <2>0, <3>1, <3>2
  <2> QED BY <1>2, <2>1, <2>2 DEF SettleSlot, SettlesSome
<1>3. ASSUME NEW j \in Jobs, NEW r \in Ranks, Kill(j, r) PROVE LeavesClaim \/ UNCHANGED <<slots, settled>>
  <2>1. CASE UNCHANGED slots
    BY <1>3, <2>1 DEF Kill
  <2>2. CASE Busy(j, r, "save") /\ r = Primary /\ slots[Step(j, r)] = Empty
             /\ slots' = [slots EXCEPT ![Step(j, r)] = Claim]
    <3>1. Step(j, r) \in 1..Steps
      BY <2>2, NextSlot DEF Busy
    <3> QED BY <1>3, <2>2, <3>1 DEF Kill, LeavesClaim
  <2> QED BY <1>3, <2>1, <2>2 DEF Kill
<1>4. ASSUME NEW j \in Jobs, NEW r \in Ranks, RankStep(j, r) PROVE UNCHANGED <<slots, settled>>
  BY <1>4 DEF RankStep, Discover, Load, Unload, Read, Update, AppendRow, TruncateRow, Rollback, CheckReceipt,
     AwaitSave, CommError, LocalOnly, disk
<1>5. ASSUME NEW j \in Jobs, Reduce(j) \/ Deadline(j) \/ CommFails(j) PROVE UNCHANGED <<slots, settled>>
  BY <1>5 DEF Reduce, Deadline, CommFails, CommDies, disk
<1>6. Outage => LosesSome
  BY DEF Outage, LosesSome
<1>7. Collect \/ Launch \/ Finished \/ UNCHANGED vars => UNCHANGED <<slots, settled>>
  <2>1. Collect => UNCHANGED <<slots, settled>>
    BY DEF Collect
  <2>2. Launch => UNCHANGED <<slots, settled>>
    BY DEF Launch, disk
  <2>3. UNCHANGED vars => UNCHANGED <<slots, settled>>
    BY DEF vars, disk
  <2> QED BY <2>1, <2>2, <2>3 DEF Finished
<1> QED BY <1>1, <1>2, <1>3, <1>4, <1>5, <1>6, <1>7 DEF Next, Progress

\* When a continuation becomes visible, every rank of its job that keeps a
\* stream has the row of its last step: the save is entered by no rank before
\* each has appended its row, and no row of that step is taken back after that.
THEOREM MetricsComeFirst == Spec => RowsComeFirst
<1> DEFINE First(k) ==
      slots'[k].what = "continuation" /\ slots'[k] # slots[k] =>
        \A r \in Streams : \E i \in DOMAIN rows[Last(slots'[k].state).by[1]][r] :
          rows[Last(slots'[k].state).by[1]][r][i] = k - 1
<1>1. ASSUME TrainInv, [Next]_vars, NEW k \in DOMAIN slots PROVE First(k)
  <2>1. slots = [m \in 1..Steps |-> slots[m]] /\ k \in 1..Steps
    BY <1>1 DEF TrainInv, TypeInv
  <2>2. CASE UNCHANGED <<slots, settled>> \/ SettlesSome
    BY <2>2 DEF SettlesSome
  <2>3. CASE LeavesClaim
    <3>1. PICK m \in 1..Steps : slots' = [slots EXCEPT ![m] = Claim]
      BY <2>3 DEF LeavesClaim
    <3>2. slots'[k] = slots[k] \/ slots'[k] = Claim
      BY <2>1, <3>1
    <3> QED BY <3>2 DEF Claim
  <2>4. CASE LosesSome
    <3>1. slots'[k] = slots[k] \/ slots'[k] = Empty
      BY <2>1, <2>4 DEF LosesSome
    <3> QED BY <3>1 DEF Empty
  <2>5. ASSUME NEW j \in Jobs, PublishesNext(j) PROVE First(k)
    <3> DEFINE n == Step(j, Primary)
               log == receipt[j][Primary]
    <3>1. slots' = [slots EXCEPT ![n] = Shows(j)] /\ phase[j][Primary] = "save"
      BY <2>5 DEF PublishesNext
    <3>2. Last(log).by[1] = j
      BY <1>1, <3>1, NextSlot
    <3>3. \A r \in Streams : HasRow(j, r, n - 1)
      BY <1>1, <3>1 DEF TrainInv, JobInv, RowsOfStep, Saving
    <3>4. Shows(j).state = log
      BY DEF Shows
    <3> HIDE DEF n, log
    <3>5. CASE k = n
      <4>1. slots'[k] = Shows(j)
        BY <2>1, <3>1, <3>5
      <4> QED BY <4>1, <3>2, <3>3, <3>4, <3>5 DEF HasRow
    <3>6. CASE k # n
      <4>1. slots'[k] = slots[k]
        BY <2>1, <3>1, <3>6
      <4> QED BY <4>1
    <3> QED BY <3>5, <3>6
  <2> QED BY <1>1, <2>2, <2>3, <2>4, <2>5, DiskSteps
<1>2. TrainInv /\ [Next]_vars => \A k \in DOMAIN slots : First(k)
  BY <1>1
<1> QED BY <1>2, Invariance, PTL DEF Spec, RowsComeFirst

(***************************************************************************)
(* One log.                                                                *)
(***************************************************************************)
LEMMA LatestStateIs ==
  ASSUME TypeInv, SlotInv
  PROVE  IsLog(LatestState) /\ Len(LatestState) = Latest /\ Latest \in 0..Steps
<1>1. Latest \in 0..Steps /\ (Latest # 0 => Visible(Latest))
  BY LatestIs
<1>2. CASE Latest = 0
  BY <1>1, <1>2, EmptyLog DEF LatestState, Genesis
<1>3. CASE Latest # 0
  BY <1>1, <1>3 DEF LatestState, SlotInv
<1> QED BY <1>2, <1>3, <1>1

LEMMA SettledIs ==
  ASSUME TypeInv, SlotInv
  PROVE  /\ Settled \in 0..Latest /\ (Settled # 0 => Settled \in settled)
         /\ \A k \in settled : k <= Settled
<1> DEFINE S == {0} \cup settled
<1>1. settled \subseteq 1..Steps /\ Steps \in Nat
  BY TrainingAssumption DEF SlotInv
<1>2. S \in SUBSET (0..Steps) /\ S # {}
  BY <1>1
<1>3. Max(S) \in S /\ \A k \in S : k <= Max(S)
  BY <1>1, <1>2, MaxIs
<1>4. Settled = Max(S)
  BY DEF Settled
<1>5. \A k \in settled : k <= Latest
  BY LatestIs DEF SlotInv
<1>6. Latest \in 0..Steps
  BY LatestIs
<1> HIDE DEF S
<1>7. Settled \in S /\ \A k \in S : k <= Settled
  BY <1>3, <1>4
<1> QED BY <1>1, <1>2, <1>5, <1>6, <1>7 DEF S

\* The two ends of the log, of a state that satisfies the invariant.
LogEnds ==
  /\ Latest \in 0..Steps /\ (Latest # 0 => Visible(Latest))
  /\ \A k \in 1..Steps : Visible(k) => k <= Latest
  /\ IsLog(LatestState) /\ Len(LatestState) = Latest
  /\ Settled \in 0..Latest /\ (Settled # 0 => Settled \in settled)
  /\ \A k \in settled : k <= Settled

LEMMA EndsAre == TrainInv => LogEnds
BY LatestIs, LatestStateIs, SettledIs DEF TrainInv, LogEnds

LEMMA SameLog ==
  ASSUME LogEnds, LogEnds',
         \A k \in 1..Steps : (Visible(k)' <=> Visible(k)) /\ (Visible(k) => slots'[k] = slots[k])
  PROVE  LatestState' = LatestState
<1>0. Steps \in Nat
  BY TrainingAssumption
<1>1. Latest \in 0..Steps /\ Latest' \in 0..Steps
  BY DEF LogEnds
<1>2. Latest' <= Latest
  BY <1>0, <1>1 DEF LogEnds
<1>3. Latest <= Latest'
  BY <1>0, <1>1 DEF LogEnds
<1>4. Latest' = Latest
  BY <1>1, <1>2, <1>3
<1>5. Latest # 0 => slots'[Latest] = slots[Latest]
  BY <1>1 DEF LogEnds
<1> QED BY <1>4, <1>5 DEF LatestState

\* What the log was before is the beginning of what it becomes.
LEMMA LogExtends ==
  ASSUME TrainInv, LogEnds, LogEnds', NEW j \in Jobs, PublishesNext(j)
  PROVE  Log!Extend
<1> DEFINE n == Step(j, Primary)
           log == receipt[j][Primary]
<1>1. /\ n \in 1..Steps /\ IsLog(log) /\ Len(log) = n
      /\ StoredAt(n - 1, SubSeq(log, 1, n - 1))
      /\ ~Visible(n) => \A m \in n..Steps : ~Visible(m)
  BY NextSlot DEF PublishesNext
<1>2. slots[n] = Empty /\ slots' = [slots EXCEPT ![n] = Shows(j)] /\ settled' = settled
  BY DEF PublishesNext
<1>3. slots = [k \in 1..Steps |-> slots[k]] /\ Steps \in Nat
  BY TrainingAssumption DEF TrainInv, TypeInv
<1>4. Shows(j).what = "continuation" /\ Shows(j).state = log
  BY DEF Shows
<1> HIDE DEF n, log
<1>5. \A m \in n..Steps : ~Visible(m)
  BY <1>1, <1>2 DEF Visible, Empty
<1>6. slots'[n].what = "continuation" /\ slots'[n].state = log /\ \A k \in 1..Steps : k # n => slots'[k] = slots[k]
  BY <1>1, <1>2, <1>3, <1>4
<1>7. Latest = n - 1
  <2>1. Latest \in 0..Steps /\ (Latest # 0 => Visible(Latest))
    BY DEF LogEnds
  <2>2. n - 1 = 0 \/ Visible(n - 1)
    BY <1>1 DEF StoredAt
  <2>3. n - 1 <= Latest
    BY <1>1, <1>3, <2>1, <2>2 DEF LogEnds
  <2>4. ~(Latest >= n)
    BY <1>1, <1>3, <1>5, <2>1
  <2> QED BY <1>1, <2>1, <2>3, <2>4
<1>8. Latest' = n
  <2>1. Latest' \in 0..Steps /\ (Latest' # 0 => Visible(Latest)')
    BY DEF LogEnds
  <2>2. n <= Latest'
    BY <1>1, <1>6 DEF LogEnds, Visible
  <2>3. Latest' # 0 => slots'[Latest'].what = "continuation"
    BY <2>1 DEF Visible
  <2>4. ~(Latest' > n)
    <3>1. SUFFICES ASSUME Latest' > n PROVE FALSE
      OBVIOUS
    <3>2. Latest' \in n..Steps /\ Latest' # n /\ Latest' # 0 /\ Latest' \in 1..Steps
      BY <1>1, <1>3, <2>1, <3>1
    <3>3. slots'[Latest'] = slots[Latest']
      BY <1>6, <3>2
    <3> QED BY <1>5, <2>3, <3>2, <3>3 DEF Visible
  <2> QED BY <1>1, <1>3, <2>1, <2>2, <2>4
<1>9. LatestState' = log
  BY <1>1, <1>6, <1>8 DEF LatestState
<1>10. LatestState = SubSeq(log, 1, n - 1)
  <2>1. CASE n - 1 = 0
    <3>1. IsLog(SubSeq(log, 1, 0)) /\ Len(SubSeq(log, 1, 0)) = 0
      BY <1>1, <1>3, PrefixIs
    <3>2. SubSeq(log, 1, 0) = << >>
      BY <3>1, EmptyLog, LogsEqual
    <3> QED BY <1>7, <2>1, <3>2 DEF LatestState, Genesis
  <2>2. CASE n - 1 # 0
    BY <1>1, <1>7, <2>2 DEF LatestState, StoredAt
  <2> QED BY <2>1, <2>2
<1>11. SubSeq(LatestState, 1, n - 1) = LatestState /\ Len(LatestState) = n - 1
  BY <1>7, WholePrefix DEF LogEnds
<1>12. Settled' = Settled
  BY <1>2 DEF Settled
<1>13. Len(LatestState') = Len(LatestState) + 1 /\ Len(LatestState) <= Len(LatestState')
  BY <1>1, <1>9, <1>11
<1>14. SubSeq(LatestState, 1, Len(LatestState)) = SubSeq(LatestState', 1, Len(LatestState))
  BY <1>9, <1>10, <1>11
<1> QED BY <1>12, <1>13, <1>14 DEF Log!Extend, Log!IsPrefix

\* A power failure cuts off an end of the log that was not settled.
LEMMA LogIsCut ==
  ASSUME TrainInv, LogEnds, LogEnds', LosesSome
  PROVE  Log!Cut
<1>1. slots = [k \in 1..Steps |-> slots[k]] /\ Steps \in Nat
  BY TrainingAssumption DEF TrainInv, TypeInv
<1>2. PICK lost \in SUBSET (DOMAIN slots \ settled) :
        slots' = [k \in DOMAIN slots |-> IF k \in lost THEN Empty ELSE slots[k]]
  BY DEF LosesSome
<1>3. \A k \in 1..Steps : slots'[k].what = "continuation" => Visible(k) /\ slots'[k] = slots[k]
  BY <1>1, <1>2 DEF Visible, Empty
<1>4. Latest \in 0..Steps /\ Latest' \in 0..Steps /\ (Latest' # 0 => slots'[Latest'].what = "continuation")
  BY DEF LogEnds, Visible
<1>5. Latest' # 0 => /\ Visible(Latest') /\ slots'[Latest'] = slots[Latest']
                     /\ Latest' <= Latest /\ Latest # 0 /\ Latest' \in 1..Steps /\ Latest \in 1..Steps
                     /\ Visible(Latest)
  <2>1. SUFFICES ASSUME Latest' # 0
                 PROVE  /\ Visible(Latest') /\ slots'[Latest'] = slots[Latest']
                        /\ Latest' <= Latest /\ Latest # 0 /\ Latest' \in 1..Steps /\ Latest \in 1..Steps
                        /\ Visible(Latest)
    OBVIOUS
  <2>2. Latest' \in 1..Steps
    BY <1>1, <1>4, <2>1
  <2>3. Visible(Latest') /\ slots'[Latest'] = slots[Latest']
    BY <1>3, <1>4, <2>1, <2>2
  <2>4. Latest' <= Latest
    BY <2>2, <2>3 DEF LogEnds
  <2>5. Latest # 0 /\ Latest \in 1..Steps
    BY <1>1, <1>4, <2>2, <2>4
  <2> QED BY <2>2, <2>3, <2>4, <2>5 DEF LogEnds
<1>6. Latest' <= Latest
  BY <1>1, <1>4, <1>5
<1>7. LatestState' = SubSeq(LatestState, 1, Latest')
  <2>0. IsLog(LatestState) /\ Len(LatestState) = Latest
    BY DEF LogEnds
  <2>1. CASE Latest' = 0
    <3>1. IsLog(SubSeq(LatestState, 1, 0)) /\ Len(SubSeq(LatestState, 1, 0)) = 0
      BY <1>1, <1>4, <2>0, PrefixIs
    <3>2. SubSeq(LatestState, 1, 0) = << >>
      BY <3>1, EmptyLog, LogsEqual
    <3> QED BY <2>1, <3>2 DEF LatestState, Genesis
  <2>2. CASE Latest' # 0 /\ Latest' = Latest
    <3>1. LatestState' = LatestState
      BY <1>5, <2>2 DEF LatestState
    <3> QED BY <2>0, <2>2, <3>1, WholePrefix
  <2>3. CASE Latest' # 0 /\ Latest' # Latest
    <3>1. Latest' < Latest
      BY <1>1, <1>4, <1>6, <2>3
    <3>2. slots[Latest'].state = SubSeq(slots[Latest].state, 1, Latest')
      BY <1>5, <2>3, <3>1 DEF TrainInv, SlotInv
    <3> QED BY <1>5, <2>3, <3>2 DEF LatestState
  <2> QED BY <2>1, <2>2, <2>3
<1>8. IsLog(LatestState') /\ Len(LatestState') = Latest' /\ Settled' \in 0..Latest'
  BY DEF LogEnds
<1>9. SubSeq(LatestState', 1, Len(LatestState')) = SubSeq(LatestState, 1, Len(LatestState'))
  BY <1>7, <1>8, WholePrefix
<1>10. Len(LatestState') <= Len(LatestState)
  BY <1>6, <1>8 DEF LogEnds
<1>11. Settled' = Settled
  BY DEF LosesSome, Settled
<1>12. Len(LatestState') >= Settled /\ Settled' \in Settled..Len(LatestState')
  BY <1>4, <1>8, <1>11
<1> QED BY <1>9, <1>10, <1>12 DEF Log!Cut, Log!IsPrefix

LEMMA LogStep ==
  ASSUME TrainInv, LogEnds, LogEnds', [Next]_vars
  PROVE  [Log!Next]_(Log!vars)
<1>1. CASE UNCHANGED <<slots, settled>>
  <2>1. LatestState' = LatestState
    BY <1>1, SameLog DEF Visible
  <2>2. Settled' = Settled
    BY <1>1 DEF Settled
  <2> QED BY <2>1, <2>2 DEF Log!vars
<1>2. CASE LeavesClaim
  <2>1. slots = [k \in 1..Steps |-> slots[k]]
    BY DEF TrainInv, TypeInv
  <2>2. PICK m \in 1..Steps : slots[m] = Empty /\ slots' = [slots EXCEPT ![m] = Claim]
    BY <1>2 DEF LeavesClaim
  <2>3. ~Visible(m) /\ slots'[m] = Claim /\ \A k \in 1..Steps : k # m => slots'[k] = slots[k]
    BY <2>1, <2>2 DEF Visible, Empty
  <2>4. \A k \in 1..Steps : (Visible(k)' <=> Visible(k)) /\ (Visible(k) => slots'[k] = slots[k])
    BY <2>3 DEF Visible, Claim
  <2>5. LatestState' = LatestState
    BY <2>4, SameLog
  <2>6. Settled' = Settled
    BY <1>2 DEF LeavesClaim, Settled
  <2> QED BY <2>5, <2>6 DEF Log!vars
<1>3. CASE SettlesSome
  <2>1. LatestState' = LatestState
    BY <1>3, SameLog DEF SettlesSome, Visible
  <2>2. settled \subseteq settled'
    BY <1>3 DEF SettlesSome
  <2>3. Settled \in 0..Latest /\ Latest \in 0..Steps /\ (Settled # 0 => Settled \in settled)
        /\ Len(LatestState) = Latest
    BY DEF LogEnds
  <2>4. Settled' \in 0..Latest' /\ Latest' \in 0..Steps /\ (\A k \in settled' : k <= Settled')
        /\ Len(LatestState') = Latest'
    BY DEF LogEnds
  <2>5. Settled' \in Settled..Len(LatestState)
    BY <2>1, <2>2, <2>3, <2>4, TrainingAssumption
  <2> QED BY <2>1, <2>5 DEF Log!Next, Log!Settle
<1>4. CASE LosesSome
  BY <1>4, LogIsCut DEF Log!Next
<1>5. ASSUME NEW j \in Jobs, PublishesNext(j) PROVE [Log!Next]_(Log!vars)
  BY <1>5, LogExtends DEF Log!Next
<1> QED BY <1>1, <1>2, <1>3, <1>4, <1>5, DiskSteps

\* The learner jobs together, whichever of them linger, are started again, or
\* lose a race for a step, write one log of the training: it grows by one entry at
\* a time, nothing in it is replaced, and a power failure cuts off at most the end
\* of it that was not settled.
THEOREM OneLog == Spec => ImplementsLog
<1>1. Init => Log!Init
  <2>1. SUFFICES ASSUME Init PROVE Log!Init
    OBVIOUS
  <2>2. TrainInv
    BY <2>1, InitHolds
  <2>3. LogEnds
    BY <2>2, EndsAre
  <2>4. \A k \in 1..Steps : ~Visible(k)
    BY <2>1 DEF Init, Visible, Empty
  <2>5. Latest = 0
    BY <2>3, <2>4, TrainingAssumption DEF LogEnds
  <2>6. LatestState = << >>
    BY <2>5 DEF LatestState, Genesis
  <2>7. Settled = 0
    BY <2>1, <2>3 DEF Init, LogEnds
  <2> QED BY <2>6, <2>7 DEF Log!Init
<1>2. TrainInv /\ LogEnds /\ LogEnds' /\ [Next]_vars => [Log!Next]_(Log!vars)
  BY LogStep
<1> QED BY <1>1, <1>2, EndsAre, Invariance, PTL DEF Spec, ImplementsLog, Log!Spec
=============================================================================
