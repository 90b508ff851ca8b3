------------------------------ MODULE PureProofs ------------------------------
(***************************************************************************)
(* What the pure modules guarantee for all their arguments: the numbering  *)
(* of work, the schedules, the weight of a token in the loss, the bytes    *)
(* that a rank reads, the candidate that is published, the rows that a     *)
(* group is decoded to, the windows that carry them to a learner, the      *)
(* checkpoints that carry a state to a later run, the manifests of an      *)
(* audit, the comparison of runs, and the evaluation of a policy.          *)
(***************************************************************************)
EXTENDS WindowData, Schedules, LossWeights, ShardReads, AuditEvidence,
        FiniteSetTheorems, WellFoundedInduction, TLAPS

CONSTANTS Layout, SpikeFactor
Stored == INSTANCE CheckpointData
Versus == INSTANCE RunComparison
Held == INSTANCE Evaluation

(***************************************************************************)
(* What the numbering of work guarantees, for every number of steps,       *)
(* ranks, groups and rows.  All of it rests on numbers having one          *)
(* representation in a mixed radix.                                        *)
(***************************************************************************)
LEMMA Grows ==
  ASSUME NEW x \in Int, NEW y \in Int, NEW n \in Nat, x < y
  PROVE  x * n + n <= y * n
<1>1. PICK d \in Nat : y = x + 1 + d
  <2>1. y - x - 1 \in Nat /\ y = x + 1 + (y - x - 1)
    OBVIOUS
  <2> QED BY <2>1
<1>2. y * n = x * n + n + d * n
  BY <1>1
<1>3. d * n >= 0
  OBVIOUS
<1> QED BY <1>2, <1>3

LEMMA OneRepresentation ==
  ASSUME NEW n \in Nat \ {0}, NEW x \in Int, NEW y \in Int,
         NEW a \in 0 .. n - 1, NEW b \in 0 .. n - 1,
         x * n + a = y * n + b
  PROVE  x = y /\ a = b
<1>0. x * n \in Int /\ y * n \in Int
  OBVIOUS
<1>1. ASSUME x < y PROVE FALSE
  <2>1. x * n + n <= y * n
    BY <1>1, Grows
  <2> QED BY <2>1, <1>0
<1>2. ASSUME y < x PROVE FALSE
  <2>1. y * n + n <= x * n
    BY <1>2, Grows
  <2> QED BY <2>1, <1>0
<1>3. x = y
  BY <1>1, <1>2
<1> QED BY <1>3, <1>0

LEMMA OneStep ==
  ASSUME NEW n \in Nat \ {0}, NEW m \in Nat, NEW x \in 0 .. m - 1, NEW a \in 0 .. n - 1
  PROVE  x * n + a \in 0 .. m * n - 1
<1>1. x * n + n <= m * n
  BY Grows
<1>2. x * n \in Nat /\ m * n \in Nat
  OBVIOUS
<1> QED BY <1>1, <1>2

LEMMA Quotient ==
  ASSUME NEW n \in Nat \ {0}, NEW m \in Nat, NEW x \in 0 .. m * n - 1
  PROVE  x \div n \in 0 .. m - 1 /\ x % n \in 0 .. n - 1 /\ x = (x \div n) * n + (x % n)
<1>1. m * n \in Nat
  OBVIOUS
<1>2. x \in Nat
  BY <1>1
<1> DEFINE q == x \div n
<1>3. q \in Int /\ x % n \in 0 .. n - 1 /\ x = q * n + (x % n)
  BY <1>2
<1> HIDE DEF q
<1>4. q >= 0
  <2>1. ASSUME q < 0 PROVE FALSE
    <3>1. q * n + n <= 0 * n
      BY <1>3, <2>1, Grows
    <3> QED BY <3>1, <1>3, <1>2
  <2> QED BY <2>1, <1>3
<1>5. q < m
  <2>1. ASSUME m <= q PROVE FALSE
    <3>1. m * n <= q * n
      <4>1. CASE m = q
        BY <4>1
      <4>2. CASE m < q
        <5>1. m * n + n <= q * n
          BY <1>3, <4>2, Grows
        <5>2. q * n \in Int
          BY <1>3
        <5> QED BY <5>1, <5>2, <1>1
      <4> QED BY <2>1, <1>3, <4>1, <4>2
    <3>2. q * n \in Int
      BY <1>3
    <3> QED BY <3>1, <3>2, <1>3, <1>1
  <2> QED BY <2>1, <1>3
<1> QED BY <1>3, <1>4, <1>5 DEF q

(***************************************************************************)
(* Groups.                                                                 *)
(***************************************************************************)
LEMMA IndexInRange ==
  ASSUME NEW accum \in Nat \ {0}, NEW world \in Nat \ {0}, NEW steps \in Nat,
         NEW s \in 0 .. steps - 1, NEW r \in 0 .. world - 1, NEW j \in 0 .. accum - 1
  PROVE  /\ accum * world \in Nat \ {0}
         /\ r * accum + j \in 0 .. accum * world - 1
         /\ Index(s, r, j, accum, world) \in 0 .. steps * (accum * world) - 1
<1>1. accum * world \in Nat \ {0}
  <2>1. 0 * accum + accum <= world * accum
    BY Grows
  <2>2. world * accum = accum * world /\ accum * world \in Int
    OBVIOUS
  <2> QED BY <2>1, <2>2
<1>2. r * accum + j \in 0 .. world * accum - 1
  BY OneStep
<1>3. world * accum = accum * world
  OBVIOUS
<1> DEFINE n == accum * world
           a == r * accum + j
<1>4. n \in Nat \ {0} /\ a \in 0 .. n - 1
  BY <1>1, <1>2, <1>3
<1> HIDE DEF n, a
<1>5. s * n + a \in 0 .. steps * n - 1
  BY <1>4, OneStep
<1> QED BY <1>4, <1>5 DEF Index, n, a

LEMMA IndexIsInjective ==
  ASSUME NEW accum \in Nat \ {0}, NEW world \in Nat \ {0},
         NEW s \in Nat, NEW t \in Nat,
         NEW q \in 0 .. world - 1, NEW r \in 0 .. world - 1,
         NEW i \in 0 .. accum - 1, NEW j \in 0 .. accum - 1,
         Index(s, q, i, accum, world) = Index(t, r, j, accum, world)
  PROVE  s = t /\ q = r /\ i = j
<1> DEFINE n == accum * world
           a == q * accum + i
           b == r * accum + j
<1>1. n \in Nat \ {0} /\ a \in 0 .. n - 1 /\ b \in 0 .. n - 1
  <2>1. s \in 0 .. (s + t + 1) - 1 /\ s + t + 1 \in Nat
    OBVIOUS
  <2> QED BY <2>1, IndexInRange
<1>2. s * n + a = t * n + b
  BY DEF Index
<1> HIDE DEF n, a, b
<1>3. s = t /\ a = b
  BY <1>1, <1>2, OneRepresentation
<1>4. q * accum + i = r * accum + j
  BY <1>3 DEF a, b
<1>5. q = r /\ i = j
  BY <1>4, OneRepresentation
<1> QED BY <1>3, <1>5

\* Two rows of a run never draw from the same random stream, whichever steps,
\* ranks and groups they belong to, as long as the rows of the run can be
\* counted in a machine word (rollout_global_row_base, fork_substreams_at).
THEOREM RowsAreDistinct ==
  ASSUME NEW accum \in Nat \ {0}, NEW world \in Nat \ {0}, NEW steps \in Nat,
         NEW size \in Nat \ {0}, Word \in Nat, (steps * (accum * world)) * size <= Word,
         NEW s \in 0 .. steps - 1, NEW t \in 0 .. steps - 1,
         NEW q \in 0 .. world - 1, NEW r \in 0 .. world - 1,
         NEW i \in 0 .. accum - 1, NEW j \in 0 .. accum - 1,
         NEW a \in 0 .. size - 1, NEW b \in 0 .. size - 1,
         Row(RowBase(s, q, i, accum, world, size), a) = Row(RowBase(t, r, j, accum, world, size), b)
  PROVE  s = t /\ q = r /\ i = j /\ a = b
<1> DEFINE all == steps * (accum * world)
           x == Index(s, q, i, accum, world)
           y == Index(t, r, j, accum, world)
<1>1. accum * world \in Nat \ {0} /\ x \in 0 .. all - 1 /\ y \in 0 .. all - 1
  BY IndexInRange
<1>2. all \in Nat /\ all * size <= Word
  BY <1>1
<1>3. Row(RowBase(s, q, i, accum, world, size), a) = (((x * size) % Word) + a) % Word
  BY DEF Row, RowBase
<1>4. Row(RowBase(t, r, j, accum, world, size), b) = (((y * size) % Word) + b) % Word
  BY DEF Row, RowBase
<1> HIDE DEF all, x, y
<1>5. ASSUME NEW z \in 0 .. all - 1, NEW c \in 0 .. size - 1
      PROVE  (((z * size) % Word) + c) % Word = z * size + c
  <2>1. z * size + c \in 0 .. all * size - 1
    BY <1>2, OneStep
  <2>2. z * size \in Nat /\ all * size \in Nat
    BY <1>2
  <2> DEFINE u == z * size
             v == all * size
  <2>3. u \in Nat /\ v \in Nat /\ v <= Word /\ u + c \in 0 .. v - 1
    BY <2>1, <2>2, <1>2
  <2> HIDE DEF u, v
  <2>4. u % Word = u /\ (u + c) % Word = u + c
    BY <2>3
  <2> QED BY <2>4 DEF u
<1>6. x * size + a = y * size + b
  BY <1>1, <1>3, <1>4, <1>5
<1>7. x = y /\ a = b
  BY <1>1, <1>6, OneRepresentation
<1>8. s = t /\ q = r /\ i = j
  BY <1>7, IndexIsInjective DEF x, y
<1> QED BY <1>7, <1>8

\* The groups of a step are those that one process would sample, in the same
\* places: group j of rank r is its group r * accum + j, and each of its groups
\* belongs to exactly one rank ("a world-W run reproduces the single-process
\* draws", sampler.rs).
THEOREM WorldsSplitTheSameWork ==
  ASSUME NEW accum \in Nat \ {0}, NEW world \in Nat \ {0}, NEW s \in Nat
  PROVE  /\ \A r \in 0 .. world - 1, j \in 0 .. accum - 1 :
              Index(s, r, j, accum, world) = Index(s, 0, r * accum + j, accum * world, 1)
         /\ \A place \in 0 .. accum * world - 1 :
              \E r \in 0 .. world - 1, j \in 0 .. accum - 1 :
                /\ place = r * accum + j
                /\ \A q \in 0 .. world - 1, i \in 0 .. accum - 1 :
                     place = q * accum + i => q = r /\ i = j
<1>1. ASSUME NEW r \in 0 .. world - 1, NEW j \in 0 .. accum - 1
      PROVE  Index(s, r, j, accum, world) = Index(s, 0, r * accum + j, accum * world, 1)
  <2>1. accum * world \in Nat /\ r * accum + j \in Int
    OBVIOUS
  <2>2. ASSUME NEW n \in Nat, NEW k \in Int
        PROVE  s * (n * 1) + (0 * n + k) = s * n + k
    OBVIOUS
  <2> QED BY <2>1, <2>2 DEF Index
<1>2. ASSUME NEW place \in 0 .. accum * world - 1
      PROVE  \E r \in 0 .. world - 1, j \in 0 .. accum - 1 :
               /\ place = r * accum + j
               /\ \A q \in 0 .. world - 1, i \in 0 .. accum - 1 :
                    place = q * accum + i => q = r /\ i = j
  <2>1. accum * world = world * accum
    OBVIOUS
  <2>2. /\ place \div accum \in 0 .. world - 1 /\ place % accum \in 0 .. accum - 1
        /\ place = (place \div accum) * accum + (place % accum)
    BY <2>1, Quotient
  <2>3. PICK r \in 0 .. world - 1, j \in 0 .. accum - 1 : place = r * accum + j
    BY <2>2
  <2>4. ASSUME NEW q \in 0 .. world - 1, NEW i \in 0 .. accum - 1, place = q * accum + i
        PROVE  q = r /\ i = j
    BY <2>3, <2>4, OneRepresentation
  <2> QED BY <2>3, <2>4
<1> QED BY <1>1, <1>2

(***************************************************************************)
(* Samples, shards and devices.                                            *)
(***************************************************************************)
LEMMA NearbyRemaindersDiffer ==
  ASSUME NEW n \in Nat \ {0}, NEW x \in Nat, NEW y \in Nat, x < y, y < x + n
  PROVE  x % n # y % n
<1> DEFINE k == x \div n
           l == y \div n
<1>1. /\ k \in Int /\ x % n \in 0 .. n - 1 /\ x = k * n + (x % n)
      /\ l \in Int /\ y % n \in 0 .. n - 1 /\ y = l * n + (y % n)
  OBVIOUS
<1> HIDE DEF k, l
<1>2. SUFFICES ASSUME x % n = y % n PROVE FALSE
  OBVIOUS
<1>3. k * n \in Int /\ l * n \in Int /\ k * n < l * n /\ l * n < k * n + n
  BY <1>1, <1>2
<1>4. CASE k < l
  BY <1>1, <1>3, <1>4, Grows
<1>5. CASE l <= k
  <2>1. l = k \/ l < k
    BY <1>1, <1>5
  <2>2. CASE l = k
    BY <1>3, <2>2
  <2>3. CASE l < k
    <3>1. l * n + n <= k * n
      BY <1>1, <2>3, Grows
    <3> QED BY <3>1, <1>3
  <2> QED BY <2>1, <2>2, <2>3
<1> QED BY <1>1, <1>4, <1>5

\* In the local scope no sample comes up again before all the others have: two
\* groups that are fewer than samples apart have different samples, across the
\* ranks of a window and across windows (select_prompt).
THEOREM SamplesCycle ==
  ASSUME NEW accum \in Nat \ {0}, NEW world \in Nat \ {0}, NEW samples \in Nat \ {0},
         NEW s \in Nat, NEW t \in Nat,
         NEW q \in 0 .. world - 1, NEW r \in 0 .. world - 1,
         NEW i \in 0 .. accum - 1, NEW j \in 0 .. accum - 1,
         LocalPrompt(s, q, i, accum, world) < LocalPrompt(t, r, j, accum, world),
         LocalPrompt(t, r, j, accum, world) < LocalPrompt(s, q, i, accum, world) + samples
  PROVE  SampleOf(LocalPrompt(s, q, i, accum, world), samples)
           # SampleOf(LocalPrompt(t, r, j, accum, world), samples)
<1>1. s \in 0 .. (s + 1) - 1 /\ t \in 0 .. (t + 1) - 1 /\ s + 1 \in Nat /\ t + 1 \in Nat
  OBVIOUS
<1>2. Index(s, q, i, accum, world) \in 0 .. (s + 1) * (accum * world) - 1
  BY <1>1, IndexInRange
<1>3. Index(t, r, j, accum, world) \in 0 .. (t + 1) * (accum * world) - 1
  BY <1>1, IndexInRange
<1>4. LocalPrompt(s, q, i, accum, world) \in Nat /\ LocalPrompt(t, r, j, accum, world) \in Nat
  BY <1>2, <1>3 DEF LocalPrompt
<1> QED BY <1>4, NearbyRemaindersDiffer DEF SampleOf

\* An accepted axis is cut without gap or overlap: every position lies in the
\* shard of exactly one rank (TensorParallelPlan::shard_axis).
THEOREM ShardsPartition ==
  ASSUME NEW world \in Nat \ {0}, NEW length \in Nat, ShardAccepts(length, world),
         NEW x \in 0 .. length - 1
  PROVE  \E r \in 0 .. world - 1 :
           \A q \in 0 .. world - 1 : InShard(x, length, world, q) <=> q = r
<1> DEFINE n == length \div world
<1>1. n \in Int /\ length = n * world
  BY DEF ShardAccepts
<1> HIDE DEF n
<1>2. n \in Nat \ {0}
  <2>1. ASSUME n < 0 PROVE FALSE
    <3>1. n * world + world <= 0 * world
      BY <1>1, <2>1, Grows
    <3> QED BY <3>1, <1>1
  <2>2. ASSUME n = 0 PROVE FALSE
    BY <1>1, <2>2
  <2> QED BY <1>1, <2>1, <2>2
<1>3. length = world * n
  BY <1>1
<1>4. x \div n \in 0 .. world - 1 /\ x % n \in 0 .. n - 1 /\ x = (x \div n) * n + (x % n)
  BY <1>2, <1>3, Quotient
<1>5. PICK r \in 0 .. world - 1, a \in 0 .. n - 1 : x = r * n + a
  BY <1>4
<1>6. ASSUME NEW q \in 0 .. world - 1
      PROVE  InShard(x, length, world, q) <=> q * n <= x /\ x < q * n + n
  BY DEF InShard, ShardStart, ShardLength, n
<1>7. r * n <= x /\ x < r * n + n
  <2>1. r * n \in Int
    BY <1>2
  <2> QED BY <2>1, <1>2, <1>5
<1>8. ASSUME NEW q \in 0 .. world - 1, q * n <= x, x < q * n + n
      PROVE  q = r
  <2>1. q * n \in Int
    BY <1>2
  <2>2. x - q * n \in 0 .. n - 1 /\ x = q * n + (x - q * n)
    BY <2>1, <1>8, <1>2
  <2> QED BY <2>2, <1>2, <1>5, OneRepresentation
<1> QED BY <1>6, <1>7, <1>8

\* Verifiers that run at the same time are on different devices, provided that
\* the pool has as many devices as the chunk has workers
\* (verifier_devices_for_worker, map_bounded_reward_outcomes).
THEOREM WorkersOfAChunkAreApart ==
  ASSUME NEW width \in Nat \ {0}, NEW devices \in Nat, width <= devices,
         NEW v \in Nat, NEW w \in Nat, v # w, Chunk(v, width) = Chunk(w, width)
  PROVE  Device(v, devices) # Device(w, devices)
<1> DEFINE c == v \div width
<1>1. c = v \div width /\ c = w \div width
  BY DEF Chunk
<1>2. /\ v = c * width + (v % width) /\ v % width \in 0 .. width - 1
      /\ w = c * width + (w % width) /\ w % width \in 0 .. width - 1 /\ c \in Int
  BY <1>1
<1> HIDE DEF c
<1>3. c * width \in Int
  BY <1>2
<1>4. v < w + width /\ w < v + width
  BY <1>2, <1>3
<1>5. devices \in Nat \ {0} /\ v < w + devices /\ w < v + devices
  BY <1>4
<1>6. CASE v < w
  BY <1>5, <1>6, NearbyRemaindersDiffer DEF Device
<1>7. CASE w < v
  BY <1>5, <1>7, NearbyRemaindersDiffer DEF Device
<1> QED BY <1>6, <1>7

(***************************************************************************)
(* A schedule never leaves the range of its points: a coefficient or a     *)
(* learning rate is never negative, and zero only where it is meant to be. *)
(***************************************************************************)
LEMMA Scaled ==
  ASSUME NEW x \in Int, NEW y \in Int, NEW n \in Nat, x <= y
  PROVE  x * n <= y * n
<1>1. PICK d \in Nat : y = x + d
  <2>1. y - x \in Nat /\ y = x + (y - x)
    OBVIOUS
  <2> QED BY <2>1
<1>2. y * n = x * n + d * n /\ d * n >= 0
  BY <1>1
<1> QED BY <1>2

LEMMA LeastElement ==
  ASSUME NEW S, S \subseteq Nat, S # {}
  PROVE  \E i \in S : \A j \in S : i <= j
<1> DEFINE R == OpToRel(<, Nat)
<1>1. IsWellFoundedOn(R, Nat)
  BY NatLessThanWellFounded
<1>2. R = {p \in Nat \X Nat : p[1] < p[2]}
  BY DEF OpToRel
<1> HIDE DEF R
<1>3. PICK i \in S : \A j \in S : ~ (<<j, i>> \in R)
  BY <1>1, WFMin
<1>4. ASSUME NEW j \in S PROVE i <= j
  <2>1. j \in Nat /\ i \in Nat
    OBVIOUS
  <2>2. ~ (<<j, i>> \in {p \in Nat \X Nat : p[1] < p[2]})
    BY <1>2, <1>3
  <2>3. <<j, i>> \in Nat \X Nat /\ <<j, i>>[1] = j /\ <<j, i>>[2] = i
    BY <2>1
  <2>4. ~ (j < i)
    BY <2>2, <2>3
  <2> QED BY <2>1, <2>4
<1> QED BY <1>4

(***************************************************************************)
(* Induction over data.  What holds at the beginning, and of a step if it  *)
(* holds of the one before, holds to the end; and a value that is made     *)
(* step by step exists.                                                    *)
(***************************************************************************)
LEMMA StepByStep ==
  ASSUME NEW N \in Nat, NEW S, 0 \in S, \A i \in 1 .. N : i - 1 \in S => i \in S
  PROVE  \A i \in 0 .. N : i \in S
<1> DEFINE Bad == {i \in 0 .. N : i \notin S}
<1> SUFFICES ASSUME Bad # {} PROVE FALSE
  OBVIOUS
<1>1. PICK i \in Bad : \A j \in Bad : i <= j
  <2>1. Bad \subseteq Nat
    OBVIOUS
  <2> HIDE DEF Bad
  <2> QED BY <2>1, LeastElement
<1>2. i \in 1 .. N /\ i \notin S
  OBVIOUS
<1>3. i - 1 \in 0 .. N /\ i - 1 \notin Bad
  BY <1>1, <1>2
<1> QED BY <1>2, <1>3

IsIteration(N, S, base, g, f) ==
  f \in [0 .. N -> S] /\ f[0] = base /\ \A i \in 1 .. N : f[i] = g[i][f[i - 1]]

LEMMA Iterates ==
  ASSUME NEW N \in Nat, NEW S, NEW base \in S, NEW g \in [1 .. N -> [S -> S]]
  PROVE  \E f : IsIteration(N, S, base, g, f)
<1> DEFINE Upto(n, f) == f[0] = base /\ \A i \in 1 .. n : f[i] = g[i][f[i - 1]]
           T == {n \in 0 .. N : \E f \in [0 .. n -> S] : Upto(n, f)}
<1>1. 0 \in T
  <2> DEFINE f == [i \in 0 .. 0 |-> base]
  <2>1. f \in [0 .. 0 -> S] /\ f[0] = base
    OBVIOUS
  <2> HIDE DEF f
  <2>2. \E h \in [0 .. 0 -> S] : Upto(0, h)
    BY <2>1
  <2> QED BY <2>2
<1>2. ASSUME NEW n \in 1 .. N, n - 1 \in T PROVE n \in T
  <2>1. PICK e \in [0 .. n - 1 -> S] : Upto(n - 1, e)
    BY <1>2
  <2> DEFINE f == [i \in 0 .. n |-> IF i = n THEN g[n][e[n - 1]] ELSE e[i]]
  <2>2. f \in [0 .. n -> S]
    <3>1. e[n - 1] \in S
      BY <2>1
    <3>2. g[n][e[n - 1]] \in S
      BY <3>1
    <3>3. \A i \in 0 .. n : i # n => e[i] \in S
      BY <2>1
    <3> QED BY <3>2, <3>3
  <2>3. f[0] = base
    BY <2>1
  <2>4. ASSUME NEW i \in 1 .. n PROVE f[i] = g[i][f[i - 1]]
    <3>1. f[i - 1] = e[i - 1]
      OBVIOUS
    <3>2. CASE i = n
      <4>1. f[n] = g[n][e[n - 1]]
        OBVIOUS
      <4> QED BY <3>1, <3>2, <4>1
    <3>3. CASE i # n
      <4>1. f[i] = e[i] /\ e[i] = g[i][e[i - 1]]
        BY <2>1, <3>3
      <4> QED BY <3>1, <4>1
    <3> QED BY <3>2, <3>3
  <2> HIDE DEF f
  <2>5. \E h \in [0 .. n -> S] : Upto(n, h)
    BY <2>2, <2>3, <2>4
  <2> QED BY <2>5
<1> HIDE DEF T
<1>3. N \in T
  <2>1. \A i \in 0 .. N : i \in T
    BY <1>1, <1>2, StepByStep
  <2> QED BY <2>1
<1>4. PICK f \in [0 .. N -> S] : Upto(N, f)
  BY <1>3 DEF T
<1> QED BY <1>4 DEF IsIteration

LEMMA Interpolated ==
  ASSUME NEW a \in [step : Nat, value : Int], NEW b \in [step : Nat, value : Int],
         NEW lo \in Int, NEW hi \in Int, NEW step \in Nat,
         lo <= a.value, a.value <= hi, lo <= b.value, b.value <= hi,
         a.step <= step, step <= b.step, a.step < b.step
  PROVE  LET v == Between(a, b, step)
         IN  v.den \in Nat \ {0} /\ lo * v.den <= v.num /\ v.num <= hi * v.den
<1> DEFINE n == b.step - a.step
           d == step - a.step
           e == b.step - step
           x == a.value
           y == b.value
<1>1. n \in Nat \ {0} /\ d \in Nat /\ e \in Nat /\ n = d + e /\ x \in Int /\ y \in Int
  OBVIOUS
<1>2. Between(a, b, step) = Over(x * n + (y - x) * d, n)
  BY DEF Between
<1>3. lo <= x /\ x <= hi /\ lo <= y /\ y <= hi
  OBVIOUS
<1> HIDE DEF n, d, e, x, y
<1>4. x * n + (y - x) * d = x * e + y * d
  <2>1. x * n = x * d + x * e
    BY <1>1
  <2>2. (y - x) * d = y * d - x * d
    BY <1>1
  <2>3. x * d \in Int /\ x * e \in Int /\ y * d \in Int
    BY <1>1
  <2> QED BY <2>1, <2>2, <2>3
<1>5. lo * e <= x * e /\ lo * d <= y * d /\ x * e <= hi * e /\ y * d <= hi * d
  BY <1>1, <1>3, Scaled
<1>6. lo * n = lo * e + lo * d /\ hi * n = hi * e + hi * d
  BY <1>1
<1>7. lo * n <= x * e + y * d /\ x * e + y * d <= hi * n
  <2>1. /\ lo * e \in Int /\ lo * d \in Int /\ hi * e \in Int /\ hi * d \in Int
        /\ x * e \in Int /\ y * d \in Int
    BY <1>1
  <2> QED BY <2>1, <1>5, <1>6
<1> QED BY <1>1, <1>2, <1>4, <1>7 DEF Over

\* At every step the value of a valid schedule lies between the least and the
\* greatest value of its points, before the first point and after the last one
\* too; in particular no step divides by zero (ScalarSchedule::at).
THEOREM ScheduleStaysInRange ==
  ASSUME NEW points \in Seq([step : Nat, value : Int]), NEW steps \in Nat,
         ValidPoints(points, steps), NEW lo \in Int, NEW hi \in Int, NEW step \in Nat,
         \A i \in DOMAIN points : lo <= points[i].value /\ points[i].value <= hi
  PROVE  LET v == At(points, step)
         IN  v.den \in Nat \ {0} /\ lo * v.den <= v.num /\ v.num <= hi * v.den
<1>0. /\ Len(points) \in Nat \ {0} /\ DOMAIN points = 1 .. Len(points)
      /\ \A i \in 1 .. Len(points) : points[i] \in [step : Nat, value : Int]
  <2>1. Len(points) \in Nat /\ Len(points) > 0
    BY DEF ValidPoints
  <2> DEFINE P == [step : Nat, value : Int]
  <2>2. points \in Seq(P)
    OBVIOUS
  <2> HIDE DEF P
  <2>3. DOMAIN points = 1 .. Len(points)
    BY <2>2
  <2>4. \A i \in 1 .. Len(points) : points[i] \in P
    BY <2>2
  <2> QED BY <2>1, <2>3, <2>4 DEF P
<1>1. ASSUME NEW i \in 1 .. Len(points)
      PROVE  LET v == Over(points[i].value, 1)
             IN  v.den \in Nat \ {0} /\ lo * v.den <= v.num /\ v.num <= hi * v.den
  <2> DEFINE x == points[i].value
  <2>1. x \in Int /\ lo <= x /\ x <= hi
    BY <1>0
  <2>2. Over(x, 1).den = 1 /\ Over(x, 1).num = x
    BY DEF Over
  <2> HIDE DEF x
  <2>3. lo * 1 = lo /\ hi * 1 = hi /\ 1 \in Nat \ {0}
    OBVIOUS
  <2>4. LET v == Over(x, 1) IN v.den \in Nat \ {0} /\ lo * v.den <= v.num /\ v.num <= hi * v.den
    BY <2>1, <2>2, <2>3
  <2> QED BY <2>4 DEF x
<1>2. CASE step <= points[1].step
  BY <1>0, <1>1, <1>2 DEF At
<1>3. CASE ~(step <= points[1].step) /\ Segments(points, step) = {}
  BY <1>0, <1>1, <1>3 DEF At
<1>4. CASE ~(step <= points[1].step) /\ Segments(points, step) # {}
  <2> DEFINE S == Segments(points, step)
             first(i) == i \in S /\ \A j \in S : i <= j
             k == CHOOSE i \in S : \A j \in S : i <= j
  <2>1. S \subseteq 1 .. Len(points) - 1 /\ \A i \in S : step <= points[i + 1].step
    BY DEF Segments
  <2>2. \E i \in S : \A j \in S : i <= j
    <3>1. S \subseteq Nat /\ S # {}
      BY <2>1, <1>0, <1>4
    <3> HIDE DEF S
    <3> QED BY <3>1, LeastElement
  <2>3. k \in S /\ \A j \in S : k <= j
    BY <2>2
  <2>4. At(points, step) = Between(points[k], points[k + 1], step)
    BY <1>4 DEF At
  <2> HIDE DEF k
  <2>5. points[k].step <= step
    <3>1. CASE k = 1
      BY <3>1, <1>4, <1>0
    <3>2. CASE k # 1
      <4>1. k - 1 \in 1 .. Len(points) - 1 /\ k - 1 \notin S
        BY <2>1, <2>3, <3>2, <1>0
      <4>2. ~(step <= points[(k - 1) + 1].step) /\ (k - 1) + 1 = k
        BY <4>1, <2>1, <2>3 DEF Segments
      <4> QED BY <4>2, <1>0, <2>1, <2>3
    <3> QED BY <3>1, <3>2
  <2> HIDE DEF S
  <2>s. k \in 1 .. Len(points) - 1
    BY <2>1, <2>3
  <2>6. points[k].step < points[k + 1].step /\ step <= points[k + 1].step
    <3>1. points[k].step < points[k + 1].step
      BY <2>s DEF ValidPoints
    <3>2. step <= points[k + 1].step
      BY <2>1, <2>3
    <3> QED BY <3>1, <3>2
  <2>7. k \in 1 .. Len(points) /\ k + 1 \in 1 .. Len(points)
    BY <2>s, <1>0
  <2>8. /\ points[k] \in [step : Nat, value : Int] /\ points[k + 1] \in [step : Nat, value : Int]
        /\ lo <= points[k].value /\ points[k].value <= hi
        /\ lo <= points[k + 1].value /\ points[k + 1].value <= hi
    BY <2>7, <1>0
  <2> QED BY <2>4, <2>5, <2>6, <2>8, Interpolated
<1> QED BY <1>2, <1>3, <1>4

(***************************************************************************)
(* Cutting a backward pass changes no weight, for every group and cut.     *)
(***************************************************************************)
\* The same fraction.
Same(a, b) == a.num * b.den = b.num * a.den

LEMMA CutBounds ==
  ASSUME NEW rows \in Nat, NEW row \in 1 .. rows, NEW size \in Nat \ {0}
  PROVE  /\ CutStart(row, size) \in Nat
         /\ CutLength(rows, row, size) \in Nat \ {0}
         /\ row - CutStart(row, size) \in 1 .. CutLength(rows, row, size)
<1> DEFINE q == (row - 1) \div size
<1>1. /\ q \in Nat /\ row - 1 = q * size + ((row - 1) % size)
      /\ (row - 1) % size \in 0 .. size - 1
  OBVIOUS
<1>2. CutStart(row, size) = q * size
  BY DEF CutStart
<1>3. q * size \in Nat
  BY <1>1
<1> HIDE DEF q
<1>4. row - q * size \in 1 .. size /\ row - q * size <= rows - q * size
  BY <1>1, <1>3
<1> QED BY <1>2, <1>3, <1>4 DEF CutLength, Fewer

\* The rows that are cut out are the rows of the group.
LEMMA CutKeepsRow ==
  ASSUME NEW mask \in Seq(Seq({0, 1})), NEW row \in 1 .. Len(mask), NEW size \in Nat \ {0}
  PROVE  /\ Len(CutMask(mask, row, size)) = CutLength(Len(mask), row, size)
         /\ CutMask(mask, row, size)[row - CutStart(row, size)] = mask[row]
<1> DEFINE n == CutLength(Len(mask), row, size)
           start == CutStart(row, size)
<1>1. n \in Nat \ {0} /\ start \in Nat /\ row - start \in 1 .. n
  <2>1. Len(mask) \in Nat
    OBVIOUS
  <2> QED BY <2>1, CutBounds
<1>2. CutMask(mask, row, size) = [i \in 1 .. n |-> mask[start + i]]
  BY DEF CutMask
<1> HIDE DEF n, start
<1>3. start + (row - start) = row
  BY <1>1
<1>4. [i \in 1 .. n |-> mask[start + i]][row - start] = mask[row]
  BY <1>1, <1>3
<1>5. Len([i \in 1 .. n |-> mask[start + i]]) = n
  BY <1>1
<1> QED BY <1>2, <1>4, <1>5 DEF n, start

LEMMA Rearranged ==
  ASSUME NEW a \in Nat, NEW n \in Nat, NEW r \in Nat, NEW s \in Nat
  PROVE  (n * (a * r)) * s = ((a * n) * r) * s
<1>1. n * (a * r) = (a * n) * r
  OBVIOUS
<1> QED BY <1>1

\* A fraction that is extended by n is the same.
LEMMA Extended ==
  ASSUME NEW a \in Nat \ {0}, NEW n \in Nat \ {0}, NEW r \in Nat \ {0}, NEW s \in Nat \ {0}
  PROVE  Same(Times(Times(Frac(1, a * n), Frac(n, r)), Frac(1, s)), Times(Frac(1, a * r), Frac(1, s)))
<1>1. Times(Times(Frac(1, a * n), Frac(n, r)), Frac(1, s)) = Frac(n, ((a * n) * r) * s)
  BY DEF Times, Frac
<1>2. Times(Frac(1, a * r), Frac(1, s)) = Frac(1, (a * r) * s)
  BY DEF Times, Frac
<1>3. n * ((a * r) * s) = 1 * (((a * n) * r) * s)
  <2>1. (a * r) \in Nat /\ n * ((a * r) * s) = (n * (a * r)) * s
    OBVIOUS
  <2> QED BY <2>1, Rearranged
<1> QED BY <1>1, <1>2, <1>3 DEF Same, Frac

\* Whichever way the rows of a group are cut for the backward pass, the last cut
\* being shorter or not, a token has the weight in the window's gradient that it has
\* uncut (item_backward_microbatched).
THEOREM CutsChangeNoWeight ==
  ASSUME NEW loss \in {"grpo", "dr_grpo", "dapo"}, NEW mask \in Seq(Seq({0, 1})),
         NEW row \in 1 .. Len(mask), mask[row] # <<>>, Kept(mask[row]) \in Nat,
         NEW tokens \in Nat, NEW size \in Nat,
         NEW accum \in Nat \ {0}, NEW world \in Nat \ {0}
  PROVE  Same(Weight(loss, mask, row, tokens, size, accum, world),
              Weight(loss, mask, row, tokens, 0, accum, world))
<1> DEFINE rows == Len(mask)
           cut == CutMask(mask, row, size)
           at == row - CutStart(row, size)
           n == CutLength(rows, row, size)
           s == accum * world
           whole == Times(Reduction(loss, mask, row, tokens), Shared(loss, accum, world))
<1>1. Weight(loss, mask, row, tokens, 0, accum, world) = whole
  BY DEF Weight
<1>2. rows \in Nat \ {0} /\ s \in Nat \ {0}
  OBVIOUS
<1>3. Len(mask[row]) \in Nat \ {0}
  OBVIOUS
<1>4. AtLeastOne(Kept(mask[row])) \in Nat \ {0} /\ AtLeastOne(tokens) \in Nat \ {0}
  BY DEF AtLeastOne
<1>5. CASE ~(size > 0 /\ size < rows)
  <2>1. Weight(loss, mask, row, tokens, size, accum, world) = whole
    BY <1>5 DEF Weight
  <2> QED BY <1>1, <2>1 DEF Same, Times, Reduction, Shared, Frac
<1>6. CASE size > 0 /\ size < rows
  <2>1. Weight(loss, mask, row, tokens, size, accum, world)
          = Times(Times(Reduction(loss, cut, at, tokens), CutScale(loss, rows, row, size)),
                  Shared(loss, accum, world))
    BY <1>6 DEF Weight
  <2>2. n \in Nat \ {0} /\ Len(cut) = n /\ cut[at] = mask[row]
    <3>1. size \in Nat \ {0} /\ rows \in Nat
      BY <1>6
    <3>2. n \in Nat \ {0}
      BY <3>1, CutBounds
    <3>3. Len(cut) = n /\ cut[at] = mask[row]
      BY <3>1, CutKeepsRow
    <3> QED BY <3>2, <3>3
  <2> HIDE DEF rows, cut, at, n, s
  <2>3. CASE loss = "grpo"
    <3> DEFINE a == AtLeastOne(Kept(mask[row]))
    <3>1. Reduction(loss, cut, at, tokens) = Frac(1, a * n)
      BY <2>2, <2>3 DEF Reduction
    <3>2. Reduction(loss, mask, row, tokens) = Frac(1, a * rows)
      BY <2>3 DEF Reduction, rows
    <3>3. CutScale(loss, rows, row, size) = Frac(n, rows) /\ Shared(loss, accum, world) = Frac(1, s)
      BY <2>3 DEF CutScale, Shared, n, s
    <3> HIDE DEF a
    <3>4. a \in Nat \ {0}
      BY <1>4 DEF a
    <3> QED BY <1>1, <1>2, <2>1, <2>2, <3>1, <3>2, <3>3, <3>4, Extended
  <2>4. CASE loss = "dr_grpo"
    <3> DEFINE a == Len(mask[row])
    <3>1. Reduction(loss, cut, at, tokens) = Frac(1, n * a)
      BY <2>2, <2>4 DEF Reduction
    <3>2. Reduction(loss, mask, row, tokens) = Frac(1, rows * a)
      BY <2>4 DEF Reduction, rows
    <3>3. CutScale(loss, rows, row, size) = Frac(n, rows) /\ Shared(loss, accum, world) = Frac(1, s)
      BY <2>4 DEF CutScale, Shared, n, s
    <3>4. a \in Nat \ {0}
      BY <1>3
    <3> HIDE DEF a
    <3>5. n * a = a * n /\ rows * a = a * rows
      BY <1>2, <2>2, <3>4
    <3> QED BY <1>1, <1>2, <2>1, <2>2, <3>1, <3>2, <3>3, <3>4, <3>5, Extended
  <2>5. CASE loss = "dapo"
    <3> DEFINE a == AtLeastOne(tokens)
    <3>1. Reduction(loss, cut, at, tokens) = Frac(1, a) /\ Reduction(loss, mask, row, tokens) = Frac(1, a)
      BY <2>5 DEF Reduction
    <3>2. CutScale(loss, rows, row, size) = Frac(1, 1) /\ Shared(loss, accum, world) = Frac(1, 1)
      BY <2>5 DEF CutScale, Shared
    <3>3. a \in Nat
      BY <1>4
    <3> HIDE DEF a
    <3> QED BY <1>1, <2>1, <3>1, <3>2, <3>3 DEF Same, Times, Frac
  <2> QED BY <2>3, <2>4, <2>5
<1> QED BY <1>5, <1>6

(***************************************************************************)
(* A rank asks for ranges that the reader accepts, for every matrix and    *)
(* world.                                                                  *)
(***************************************************************************)
Matrices == [full : (Nat \ {0}) \X (Nat \ {0}), element : Nat \ {0}, start : Nat]

BytesOf(m) == m.full[1] * (m.full[2] * m.element)

LEMMA Monotone ==
  ASSUME NEW a \in Nat, NEW b \in Nat, a <= b, NEW c \in Nat
  PROVE  a * c <= b * c
OBVIOUS

\* The band of one rank ends where the whole does, or before.
LEMMA BandEnds ==
  ASSUME NEW part \in Nat, NEW world \in Nat \ {0}, NEW rank \in 0 .. world - 1,
         NEW full \in Nat, part * world = full, NEW unit \in Nat
  PROVE  (rank * part) * unit + part * unit <= full * unit
<1>1. (rank * part) * unit + part * unit = ((rank + 1) * part) * unit
  OBVIOUS
<1>2. rank + 1 \in Nat /\ rank + 1 <= world /\ world \in Nat
  OBVIOUS
<1>3. (rank + 1) * part <= world * part
  BY <1>2, Monotone
<1>4. (rank + 1) * part \in Nat /\ world * part = full
  BY <1>2
<1>5. ((rank + 1) * part) * unit <= full * unit
  BY <1>3, <1>4, Monotone
<1> QED BY <1>1, <1>5

\* What a rank asks for is in the order that read_authenticated_mappings wants, and
\* inside the matrix, as tensor_read_mapping wants: no part that has the right shape
\* is refused, or read from the neighbours of the matrix in the file.
THEOREM BandsAreInside ==
  ASSUME NEW m \in Matrices, NEW world \in Nat \ {0}, NEW rank \in 0 .. world - 1,
         NEW want \in (Nat \ {0}) \X (Nat \ {0}), Readable(m, want, world)
  PROVE  LET ranges == Ranges(m, want, world, rank)
         IN  /\ Ordered(ranges)
             /\ \A i \in 1 .. Len(ranges) :
                  m.start <= ranges[i].from /\ EndOf(ranges[i]) <= m.start + BytesOf(m)
<1> DEFINE height == m.full[1]
           width == m.full[2] * m.element
           start == m.start
<1>1. /\ height \in Nat /\ width \in Nat /\ start \in Nat
      /\ m.full[1] \in Nat \ {0} /\ m.full[2] \in Nat \ {0} /\ m.element \in Nat \ {0}
      /\ want[1] \in Nat \ {0} /\ want[2] \in Nat \ {0}
  BY DEF Matrices
<1>2. BytesOf(m) = height * width
  BY DEF BytesOf
<1>3. ASSUME NEW top \in Nat, NEW rows \in Nat, top * width + rows * width <= height * width
      PROVE  LET ranges == <<ByteRange(start + top * width, 0, rows * width)>>
             IN  /\ Ordered(ranges)
                 /\ \A i \in 1 .. Len(ranges) :
                      start <= ranges[i].from /\ EndOf(ranges[i]) <= start + height * width
  <2> HIDE DEF height, width, start
  <2>1. top * width \in Nat /\ rows * width \in Nat
    BY <1>1
  <2> QED BY <1>1, <1>3, <2>1 DEF Ordered, EndOf, ByteRange
<1>4. CASE want = m.full
  <2>1. Ranges(m, want, world, rank) = RowBand(m, want, 0)
    BY <1>4 DEF Ranges
  <2>2. RowBand(m, want, 0) = <<ByteRange(start + 0 * width, 0, height * width)>>
    BY <1>1, <1>4 DEF RowBand
  <2>3. 0 * width + height * width <= height * width
    BY <1>1
  <2> HIDE DEF height, width, start
  <2> QED BY <1>1, <1>2, <1>3, <2>1, <2>2, <2>3 DEF start
<1>5. CASE want # m.full /\ CutsRows(m, want, world)
  <2>1. Ranges(m, want, world, rank) = RowBand(m, want, rank)
    BY <1>5 DEF Ranges
  <2>2. RowBand(m, want, rank) = <<ByteRange(start + (rank * want[1]) * width, 0, want[1] * width)>>
    BY DEF RowBand
  <2>3. want[1] * world = height
    BY <1>5 DEF CutsRows
  <2> HIDE DEF height, width, start
  <2>4. (rank * want[1]) * width + want[1] * width <= height * width
    BY <1>1, <2>3, BandEnds
  <2>5. rank * want[1] \in Nat
    BY <1>1
  <2> QED BY <1>1, <1>2, <1>3, <2>1, <2>2, <2>4, <2>5 DEF start
<1>6. CASE want # m.full /\ ~CutsRows(m, want, world)
  <2> DEFINE part == want[2] * m.element
             left == rank * part
             R(i) == ByteRange(start + (i - 1) * width + left, (i - 1) * part, part)
  <2>0. CutsColumns(m, want, world)
    <3>1. CutsRows(m, want, world) # CutsColumns(m, want, world)
      BY <1>6 DEF Readable
    <3>2. CutsRows(m, want, world) = FALSE
      BY <1>6 DEF CutsRows
    <3>3. CutsColumns(m, want, world) \in BOOLEAN
      BY DEF CutsColumns
    <3> QED BY <3>1, <3>2, <3>3
  <2>1. Ranges(m, want, world, rank) = [i \in 1 .. height |-> R(i)]
    <3>1. want[1] = height
      BY <2>0 DEF CutsColumns
    <3>2. Ranges(m, want, world, rank) = ColumnBand(m, want, rank)
      BY <1>6 DEF Ranges
    <3>3. ColumnBand(m, want, rank) = [i \in 1 .. want[1] |-> R(i)]
      BY DEF ColumnBand
    <3> QED BY <3>1, <3>2, <3>3
  <2>2. want[2] * world = m.full[2]
    BY <2>0 DEF CutsColumns
  <2>3. part \in Nat /\ left \in Nat
    BY <1>1
  <2>4. left + part <= width
    <3>1. (rank * want[2]) * m.element + want[2] * m.element <= m.full[2] * m.element
      BY <1>1, <2>2, BandEnds
    <3>2. (rank * want[2]) * m.element = rank * (want[2] * m.element)
      BY <1>1
    <3> QED BY <3>1, <3>2
  <2> HIDE DEF height, width, start, part, left
  <2>5. \A i \in 1 .. height : (i - 1) * width \in Nat /\ i * width = (i - 1) * width + width
    BY <1>1
  <2>6. \A i \in 1 .. height : start <= R(i).from /\ EndOf(R(i)) <= start + height * width
    <3> TAKE i \in 1 .. height
    <3>1. i * width <= height * width
      BY <1>1, Monotone
    <3> QED BY <1>1, <2>3, <2>4, <2>5, <3>1 DEF EndOf, ByteRange
  <2>7. \A i \in 1 .. height - 1 : R(i).from + R(i).len <= R(i + 1).from
    <3> TAKE i \in 1 .. height - 1
    <3>1. (i + 1) - 1 = i /\ i \in 1 .. height
      BY <1>1
    <3>2. R(i + 1).from = start + i * width + left
      BY <3>1 DEF ByteRange
    <3> QED BY <1>1, <2>3, <2>4, <2>5, <3>1, <3>2 DEF ByteRange
  <2> DEFINE ranges == [i \in 1 .. height |-> R(i)]
  <2>8. Len(ranges) = height /\ \A i \in 1 .. height : ranges[i] = R(i)
    BY <1>1
  <2>9. \A i \in 1 .. height - 1 : i \in 1 .. height /\ i + 1 \in 1 .. height
    BY <1>1
  <2> HIDE DEF ranges, R
  <2>10. Ordered(ranges)
    BY <2>7, <2>8, <2>9 DEF Ordered
  <2>11. \A i \in 1 .. Len(ranges) : start <= ranges[i].from /\ EndOf(ranges[i]) <= start + height * width
    BY <2>6, <2>8
  <2>12. Ranges(m, want, world, rank) = ranges
    BY <2>1 DEF ranges
  <2> QED BY <1>2, <2>10, <2>11, <2>12 DEF start
<1> QED BY <1>4, <1>5, <1>6

(***************************************************************************)
(* The strongest candidate.                                                *)
(***************************************************************************)
Contracts == [higher : BOOLEAN, baseline : Int, margin : Int]
Measurements == [measured : BOOLEAN, correct : BOOLEAN, metric : Int]
Wins(contract, v) == v.measured /\ v.correct /\ IsMaterialWin(contract, v.metric)
Complaint(v) == IF v.correct THEN "NoMaterialMetricWin" ELSE "HeldOutIncorrect"
Reasons == {"CandidatesRejected", "HeldOutIncorrect", "NoMaterialMetricWin"}

\* What is known when the first i candidates have been considered.
Chosen(contract, verdicts, i, so) ==
  LET won == {j \in 1 .. i : Wins(contract, verdicts[j])}
      measured == {j \in 1 .. i : verdicts[j].measured}
  IN  /\ so.measured <=> measured # {}
      /\ measured = {} => so.reason = "CandidatesRejected"
      /\ won = {} => /\ so.best = 0
                     /\ \A j \in measured : (\A k \in measured : k <= j) => so.reason = Complaint(verdicts[j])
      /\ won # {} => /\ so.best \in won
                     /\ \A j \in won : /\ ~IsStronger(contract, verdicts[j].metric, verdicts[so.best].metric)
                                       /\ j < so.best => IsStronger(contract, verdicts[so.best].metric, verdicts[j].metric)

States(n) == [best : 0 .. n, measured : BOOLEAN, reason : Reasons]

LEMMA ConsiderKeeps ==
  ASSUME NEW contract \in Contracts, NEW n \in Nat, NEW verdicts \in [1 .. n -> Measurements],
         NEW i \in 1 .. n, NEW so \in States(n), Chosen(contract, verdicts, i - 1, so)
  PROVE  Chosen(contract, verdicts, i, Consider(contract, verdicts, i, so))
<1> DEFINE won(k) == {j \in 1 .. k : Wins(contract, verdicts[j])}
           measured(k) == {j \in 1 .. k : verdicts[j].measured}
           v == verdicts[i]
           next == Consider(contract, verdicts, i, so)
<1>1. /\ verdicts[i] \in Measurements /\ i \notin 1 .. i - 1 /\ 1 .. i = (1 .. i - 1) \cup {i}
      /\ \A j \in 1 .. i - 1 : j < i /\ verdicts[j] \in Measurements
  OBVIOUS
<1>2. won(i) = won(i - 1) \cup (IF Wins(contract, v) THEN {i} ELSE {})
  BY <1>1
<1>3. measured(i) = measured(i - 1) \cup (IF v.measured THEN {i} ELSE {})
  BY <1>1
<1>4. \A j \in won(i) \cup measured(i) : j \in 1 .. i
  OBVIOUS
<1>5. /\ so.measured <=> measured(i - 1) # {}
      /\ measured(i - 1) = {} => so.reason = "CandidatesRejected"
      /\ won(i - 1) = {} => /\ so.best = 0
                            /\ \A j \in measured(i - 1) : (\A k \in measured(i - 1) : k <= j) => so.reason = Complaint(verdicts[j])
      /\ won(i - 1) # {} => /\ so.best \in won(i - 1)
                            /\ \A j \in won(i - 1) : /\ ~IsStronger(contract, verdicts[j].metric, verdicts[so.best].metric)
                                                     /\ j < so.best => IsStronger(contract, verdicts[so.best].metric, verdicts[j].metric)
  BY DEF Chosen
<1>6. /\ so.best \in 0 .. n /\ so.measured \in BOOLEAN /\ so.reason \in Reasons
      /\ DOMAIN so = {"best", "measured", "reason"}
  BY DEF States
<1>7. ASSUME ~v.measured PROVE Chosen(contract, verdicts, i, next)
  <2>1. won(i) = won(i - 1) /\ measured(i) = measured(i - 1)
    BY <1>2, <1>3, <1>7 DEF Wins
  <2>2. next.best = so.best /\ next.measured = so.measured
    BY <1>6, <1>7 DEF Consider, States
  <2>3. next.reason = so.reason
    <3>1. next.reason = IF so.measured THEN so.reason ELSE "CandidatesRejected"
      BY <1>7 DEF Consider, States
    <3> QED BY <3>1, <1>5
  <2> HIDE DEF won, measured, next
  <2> QED BY <1>5, <2>1, <2>2, <2>3 DEF Chosen, won, measured
<1>8. ASSUME v.measured, ~Wins(contract, v) PROVE Chosen(contract, verdicts, i, next)
  <2>1. won(i) = won(i - 1) /\ i \in measured(i) /\ \A j \in measured(i) : j <= i
    BY <1>2, <1>3, <1>4, <1>8
  <2>2. next.best = so.best /\ next.measured = TRUE /\ next.reason = Complaint(v)
    BY <1>8 DEF Consider, States, Wins, Complaint
  <2>3. ASSUME NEW j \in measured(i), \A k \in measured(i) : k <= j PROVE j = i
    <3>1. j \in Int /\ i \in Int /\ j <= i /\ i <= j
      BY <2>1, <2>3, <1>4
    <3> QED BY <3>1
  <2>4. v = verdicts[i]
    OBVIOUS
  <2> HIDE DEF won, measured, next, v
  <2>5. /\ next.measured <=> measured(i) # {}
        /\ measured(i) # {}
        /\ won(i) = {} => /\ next.best = 0
                          /\ \A j \in measured(i) : (\A k \in measured(i) : k <= j) => next.reason = Complaint(verdicts[j])
        /\ won(i) # {} => /\ next.best \in won(i)
                          /\ \A j \in won(i) : /\ ~IsStronger(contract, verdicts[j].metric, verdicts[next.best].metric)
                                               /\ j < next.best => IsStronger(contract, verdicts[next.best].metric, verdicts[j].metric)
    BY <1>5, <2>1, <2>2, <2>3, <2>4
  <2> QED BY <2>5 DEF Chosen, won, measured
<1>9. ASSUME Wins(contract, v) PROVE Chosen(contract, verdicts, i, next)
  <2>1. /\ won(i) = won(i - 1) \cup {i} /\ measured(i) # {} /\ v.measured /\ v.correct
        /\ IsMaterialWin(contract, v.metric)
    BY <1>2, <1>3, <1>9 DEF Wins
  <2>2. next.measured = TRUE
    BY <2>1 DEF Consider, States
  <2>3. \A a \in 1 .. n : verdicts[a].metric \in Int
    BY DEF Measurements
  <2>4. contract.higher \in BOOLEAN
    BY DEF Contracts
  <2>5. CASE so.best = 0
    <3>1. won(i - 1) = {}
      BY <1>5, <2>5
    <3>2. next.best = i
      BY <2>1, <2>5 DEF Consider, States
    <3>3. ~IsStronger(contract, verdicts[i].metric, verdicts[i].metric)
      BY <2>3, <2>4 DEF IsStronger
    <3>4. won(i) = {i} /\ ~(i < i)
      BY <2>1, <3>1
    <3> HIDE DEF won, measured, next, v
    <3> QED BY <2>1, <2>2, <3>2, <3>3, <3>4 DEF Chosen, won, measured
  <2>6. CASE so.best # 0 /\ IsStronger(contract, v.metric, verdicts[so.best].metric)
    <3>1. won(i - 1) # {} /\ so.best \in won(i - 1) /\ so.best \in 1 .. i - 1
      BY <1>5, <2>6
    <3>2. next.best = i
      BY <2>1, <2>6 DEF Consider, States
    <3>3. ASSUME NEW j \in won(i)
          PROVE  /\ ~IsStronger(contract, verdicts[j].metric, verdicts[i].metric)
                 /\ j < i => IsStronger(contract, verdicts[i].metric, verdicts[j].metric)
      <4>1. CASE j = i
        BY <4>1, <2>3, <2>4 DEF IsStronger
      <4>2. CASE j # i
        <5>1. j \in won(i - 1)
          BY <2>1, <4>2
        <5>2. ~IsStronger(contract, verdicts[j].metric, verdicts[so.best].metric)
          BY <1>5, <5>1
        <5>3. j \in 1 .. n /\ so.best \in 1 .. n
          BY <5>1, <3>1
        <5> HIDE DEF won
        <5> QED BY <5>2, <5>3, <2>3, <2>4, <2>6 DEF IsStronger
      <4> QED BY <4>1, <4>2
    <3>4. i \in won(i)
      BY <2>1
    <3> HIDE DEF won, measured, next, v
    <3> QED BY <2>1, <2>2, <3>2, <3>3, <3>4 DEF Chosen, won, measured
  <2>7. CASE so.best # 0 /\ ~IsStronger(contract, v.metric, verdicts[so.best].metric)
    <3>1. won(i - 1) # {} /\ so.best \in won(i - 1) /\ so.best \in 1 .. i - 1
      BY <1>5, <2>7
    <3>2. next.best = so.best
      BY <2>1, <2>7 DEF Consider, States
    <3>3. ASSUME NEW j \in won(i)
          PROVE  /\ ~IsStronger(contract, verdicts[j].metric, verdicts[so.best].metric)
                 /\ j < so.best => IsStronger(contract, verdicts[so.best].metric, verdicts[j].metric)
      <4>1. CASE j = i
        BY <4>1, <2>7, <3>1
      <4>2. CASE j # i
        <5>1. j \in won(i - 1)
          BY <2>1, <4>2
        <5> QED BY <1>5, <5>1
      <4> QED BY <4>1, <4>2
    <3>4. so.best \in won(i)
      BY <2>1, <3>1
    <3> HIDE DEF won, measured, next, v
    <3> QED BY <2>1, <2>2, <3>2, <3>3, <3>4 DEF Chosen, won, measured
  <2> QED BY <2>5, <2>6, <2>7
<1> QED BY <1>7, <1>8, <1>9

LEMMA ConsiderIsState ==
  ASSUME NEW contract \in Contracts, NEW n \in Nat, NEW verdicts \in [1 .. n -> Measurements],
         NEW i \in 1 .. n, NEW so \in States(n)
  PROVE  Consider(contract, verdicts, i, so) \in States(n)
<1>1. /\ so.best \in 0 .. n /\ so.measured \in BOOLEAN /\ so.reason \in Reasons
      /\ so = [best |-> so.best, measured |-> so.measured, reason |-> so.reason]
      /\ i \in 0 .. n
  BY DEF States
<1>2. /\ [so EXCEPT !.reason = IF so.measured THEN @ ELSE "CandidatesRejected"] \in States(n)
      /\ [so EXCEPT !.measured = TRUE] \in States(n)
      /\ [[so EXCEPT !.measured = TRUE] EXCEPT !.best = i] \in States(n)
      /\ \A reason \in Reasons : [[so EXCEPT !.measured = TRUE] EXCEPT !.reason = reason] \in States(n)
  BY <1>1 DEF States, Reasons
<1>3. {"HeldOutIncorrect", "NoMaterialMetricWin"} \subseteq Reasons
  BY DEF Reasons
<1> QED BY <1>2, <1>3, Zenon DEF Consider

\* What finish_discovery_completed publishes, of any number of candidates in any order: a
\* candidate is chosen if and only if one has won, none that has won is stronger, and of equals
\* it is the first; if none has won, the reason is that of the last one that was measured.
THEOREM StrongestIsChosen ==
  ASSUME NEW contract \in Contracts, NEW n \in Nat, NEW verdicts \in [1 .. n -> Measurements],
         Len(verdicts) = n
  PROVE  Choice(contract, verdicts) \in States(n) /\ Chosen(contract, verdicts, n, Choice(contract, verdicts))
<1> DEFINE S == States(n)
           F(f) == [i \in 0 .. n |-> IF i = 0 THEN Nothing ELSE Consider(contract, verdicts, i, f[i - 1])]
           after == CHOOSE f : f = F(f)
           g == [i \in 1 .. n |-> [so \in S |-> Consider(contract, verdicts, i, so)]]
<1>1. Choice(contract, verdicts) = after[n]
  BY DEF Choice
<1>2. Nothing \in S
  BY DEF Nothing, States, Reasons
<1>3. g \in [1 .. n -> [S -> S]]
  BY ConsiderIsState
<1>4. PICK f : IsIteration(n, S, Nothing, g, f)
  <2> HIDE DEF S, g
  <2> QED BY <1>2, <1>3, Iterates
<1>5. \E h : h = F(h)
  <2>1. ASSUME NEW i \in 1 .. n PROVE f[i] = Consider(contract, verdicts, i, f[i - 1])
    <3>1. f[i - 1] \in S
      BY <1>4 DEF IsIteration
    <3> QED BY <1>4, <3>1 DEF IsIteration
  <2>2. f = F(f)
    <3> HIDE DEF S
    <3> QED BY <1>4, <2>1 DEF IsIteration
  <2> HIDE DEF F
  <2> QED BY <2>2
<1>6. after = F(after)
  <2> HIDE DEF F
  <2> QED BY <1>5
<1> HIDE DEF after, g
<1> DEFINE T == {i \in 0 .. n : after[i] \in S /\ Chosen(contract, verdicts, i, after[i])}
<1>7. 0 \in T
  <2>1. after[0] = Nothing
    BY <1>6
  <2>2. Chosen(contract, verdicts, 0, Nothing)
    BY DEF Chosen, Nothing
  <2> QED BY <1>2, <2>1, <2>2
<1>8. ASSUME NEW i \in 1 .. n, i - 1 \in T PROVE i \in T
  <2>1. after[i] = Consider(contract, verdicts, i, after[i - 1])
    BY <1>6
  <2>2. after[i - 1] \in States(n) /\ Chosen(contract, verdicts, i - 1, after[i - 1])
    BY <1>8
  <2>3. after[i] \in States(n) /\ Chosen(contract, verdicts, i, after[i])
    BY <2>1, <2>2, ConsiderKeeps, ConsiderIsState
  <2> QED BY <2>3
<1>9. n \in T
  <2>1. n \in 0 .. n
    OBVIOUS
  <2> HIDE DEF T
  <2> QED BY <1>7, <1>8, <2>1, StepByStep
<1> QED BY <1>1, <1>9

(***************************************************************************)
(* The decoding of a group, for any model and any streams.                 *)
(***************************************************************************)
Shaped(job, s) ==
  /\ DOMAIN s = {"ids", "cache", "offset", "active", "lens", "drawn"}
  /\ s.ids = [r \in Rows(job) |-> s.ids[r]] /\ s.cache = [r \in Rows(job) |-> s.cache[r]]
  /\ s.lens = [r \in Rows(job) |-> s.lens[r]] /\ s.drawn = [r \in Rows(job) |-> s.drawn[r]]
  /\ s.active \subseteq Rows(job)

\* What one step of a batch does to a row: nothing, if it has retired; otherwise it
\* draws from its own stream, and from what it holds itself in the cache.
StepOfRow(job, s, n, t, r) ==
  LET token == Draw(job.streams[r], s.drawn[r], s.cache[r]) IN
  /\ r \notin s.active => /\ r \notin t.active
                          /\ t.ids[r] = s.ids[r] /\ t.lens[r] = s.lens[r] /\ t.drawn[r] = s.drawn[r]
  /\ r \in s.active => /\ t.ids[r] = Append(s.ids[r], token) /\ t.drawn[r] = s.drawn[r] + 1
                       /\ r \in t.active <=> token # job.eos
                       /\ t.lens[r] = IF token = job.eos THEN n + 1 ELSE s.lens[r]
                       /\ r \in t.active /\ n + 1 # job.limit => t.cache[r] = Append(s.cache[r], token)

LEMMA DecodeStepOfRow ==
  ASSUME NEW job, NEW s, Shaped(job, s), NEW n
  PROVE  /\ Shaped(job, DecodeStep(job, s, n))
         /\ \A r \in Rows(job) : StepOfRow(job, s, n, DecodeStep(job, s, n), r)
<1> DEFINE feed == Feed(job, s)
           stop == {r \in s.active : feed[r] = job.eos}
           ids == [r \in Rows(job) |-> IF r \in s.active THEN Append(s.ids[r], feed[r]) ELSE s.ids[r]]
           drawn == [r \in Rows(job) |-> IF r \in s.active THEN s.drawn[r] + 1 ELSE s.drawn[r]]
           lens == [r \in Rows(job) |-> IF r \in stop THEN n + 1 ELSE s.lens[r]]
           cache == [r \in Rows(job) |-> Append(s.cache[r], feed[r])]
           t == [s EXCEPT !.ids = ids, !.drawn = drawn, !.lens = lens, !.active = s.active \ stop]
           next == DecodeStep(job, s, n)
<1>1. next = IF t.active = {} \/ n + 1 = job.limit THEN t
             ELSE [t EXCEPT !.cache = [r \in Rows(job) |-> Append(t.cache[r], feed[r])],
                            !.offset = t.offset + 1]
  BY DEF DecodeStep
<1>2. /\ DOMAIN t = DOMAIN s /\ t.ids = ids /\ t.drawn = drawn /\ t.lens = lens
      /\ t.active = s.active \ stop /\ t.cache = s.cache
  <2> HIDE DEF feed, stop, ids, drawn, lens
  <2> QED BY DEF Shaped
<1> HIDE DEF t
<1>3. [r \in Rows(job) |-> Append(t.cache[r], feed[r])] = cache
  BY <1>2
<1>4. /\ DOMAIN next = DOMAIN s
      /\ next.ids = ids /\ next.lens = lens /\ next.drawn = drawn /\ next.active = s.active \ stop
      /\ next.cache = IF next.active = {} \/ n + 1 = job.limit THEN s.cache ELSE cache
  <2> HIDE DEF next, ids, lens, drawn, stop, cache, feed
  <2> QED BY <1>1, <1>2, <1>3 DEF Shaped
<1> HIDE DEF next
<1>5. Shaped(job, next)
  <2> HIDE DEF feed
  <2> QED BY <1>4 DEF Shaped
<1>6. ASSUME NEW r \in Rows(job) PROVE StepOfRow(job, s, n, next, r)
  <2>1. r \in s.active => feed[r] = Draw(job.streams[r], s.drawn[r], s.cache[r])
    BY DEF Feed
  <2> HIDE DEF feed
  <2> QED BY <1>4, <2>1 DEF StepOfRow, Shaped
<1> QED BY <1>5, <1>6 DEF next

\* The states of a batch, as they come one after the other.
IsDecoding(job, after) ==
  /\ after[0] = Prefill(job) /\ Decoded(job) = after[job.limit]
  /\ \A n \in 1 .. job.limit :
       after[n] = IF after[n - 1].active = {} THEN after[n - 1] ELSE DecodeStep(job, after[n - 1], n - 1)

LEMMA DecodesStepByStep ==
  ASSUME NEW job, job.limit \in Nat
  PROVE  \E after : IsDecoding(job, after)
<1> DEFINE N == job.limit
           G(n, s) == IF s.active = {} THEN s ELSE DecodeStep(job, s, n - 1)
           F(f) == [n \in 0 .. N |-> IF n = 0 THEN Prefill(job) ELSE G(n, f[n - 1])]
           Upto(k, f) == f = [n \in 0 .. k |-> IF n = 0 THEN Prefill(job) ELSE G(n, f[n - 1])]
           T == {k \in 0 .. N : \E f : Upto(k, f)}
           after == CHOOSE f : f = F(f)
<1>1. 0 \in T
  <2> DEFINE f == [n \in 0 .. 0 |-> Prefill(job)]
  <2>1. Upto(0, f)
    <3> HIDE DEF G
    <3> QED OBVIOUS
  <2> HIDE DEF f, Upto
  <2> QED BY <2>1
<1>2. ASSUME NEW k \in 1 .. N, k - 1 \in T PROVE k \in T
  <2>1. PICK e : Upto(k - 1, e)
    <3> HIDE DEF Upto
    <3> QED BY <1>2
  <2> DEFINE f == [n \in 0 .. k |-> IF n = k THEN G(k, e[k - 1]) ELSE e[n]]
  <2> HIDE DEF G
  <2>2. \A n \in 0 .. k - 1 : e[n] = IF n = 0 THEN Prefill(job) ELSE G(n, e[n - 1])
    BY <2>1
  <2>3. ASSUME NEW n \in 0 .. k PROVE f[n] = IF n = 0 THEN Prefill(job) ELSE G(n, f[n - 1])
    <3>1. CASE n = k
      <4>1. f[n - 1] = e[k - 1] /\ n # 0
        BY <3>1
      <4> QED BY <3>1, <4>1
    <3>2. CASE n # k
      <4>1. n \in 0 .. k - 1 /\ f[n] = e[n] /\ (n # 0 => f[n - 1] = e[n - 1])
        BY <3>2
      <4> QED BY <2>2, <4>1
    <3> QED BY <3>1, <3>2
  <2>4. Upto(k, f)
    BY <2>3
  <2> HIDE DEF f, Upto
  <2> QED BY <2>4
<1>3. N \in T
  <2>1. N \in 0 .. N
    OBVIOUS
  <2> HIDE DEF T
  <2> QED BY <1>1, <1>2, <2>1, StepByStep
<1>4. \E f : f = F(f)
  <2>1. PICK f : Upto(N, f)
    <3> HIDE DEF Upto
    <3> QED BY <1>3
  <2>2. f = F(f)
    BY <2>1
  <2> HIDE DEF F
  <2> QED BY <2>2
<1>5. after = F(after)
  <2> HIDE DEF F
  <2> QED BY <1>4
<1>6. Decoded(job) = after[job.limit]
  BY DEF Decoded
<1> HIDE DEF after
<1>7. ASSUME NEW n \in 0 .. job.limit
      PROVE  after[n] = IF n = 0 THEN Prefill(job) ELSE G(n, after[n - 1])
  <2> HIDE DEF G
  <2> QED BY <1>5
<1>8. IsDecoding(job, after)
  BY <1>6, <1>7 DEF IsDecoding
<1> QED BY <1>8

LEMMA StatesOfRows ==
  ASSUME NEW job, job.limit \in Nat, NEW after, IsDecoding(job, after)
  PROVE  /\ \A n \in 0 .. job.limit : Shaped(job, after[n])
         /\ \A n \in 1 .. job.limit, r \in Rows(job) : StepOfRow(job, after[n - 1], n - 1, after[n], r)
<1> DEFINE T == {n \in 0 .. job.limit : Shaped(job, after[n])}
<1>1. 0 \in T
  BY DEF IsDecoding, Prefill, Shaped
<1>2. ASSUME NEW n \in 1 .. job.limit, Shaped(job, after[n - 1])
      PROVE  /\ Shaped(job, after[n])
             /\ \A r \in Rows(job) : StepOfRow(job, after[n - 1], n - 1, after[n], r)
  <2>1. CASE after[n - 1].active = {}
    <3>1. after[n] = after[n - 1]
      BY <2>1 DEF IsDecoding
    <3> QED BY <1>2, <2>1, <3>1 DEF StepOfRow
  <2>2. CASE after[n - 1].active # {}
    <3>1. after[n] = DecodeStep(job, after[n - 1], n - 1)
      BY <2>2 DEF IsDecoding
    <3> QED BY <1>2, <3>1, DecodeStepOfRow
  <2> QED BY <2>1, <2>2
<1>3. \A n \in 0 .. job.limit : n \in T
  <2>1. \A n \in 1 .. job.limit : n - 1 \in T => n \in T
    BY <1>2
  <2> HIDE DEF T
  <2> QED BY <1>1, <2>1, StepByStep
<1>4. ASSUME NEW n \in 1 .. job.limit PROVE n - 1 \in 0 .. job.limit
  OBVIOUS
<1> QED BY <1>2, <1>3, <1>4

\* A row is its own: it has the same tokens, length and number of draws in any batch, at any
\* place in it, given its prompt and its stream, whenever the rows around it retire
\* (batched_group_decode).
THEOREM RowsAreTheirOwn ==
  ASSUME NEW job, NEW other, job.limit \in Nat, other.limit = job.limit,
         other.prompt = job.prompt, other.eos = job.eos,
         NEW r \in Rows(job), NEW q \in Rows(other), job.streams[r] = other.streams[q]
  PROVE  /\ Rollout(job).ids[r] = Rollout(other).ids[q]
         /\ Rollout(job).lens[r] = Rollout(other).lens[q]
         /\ Rollout(job).drawn[r] = Rollout(other).drawn[q]
<1>1. PICK after : IsDecoding(job, after)
  BY DecodesStepByStep
<1>2. PICK then : IsDecoding(other, then)
  BY DecodesStepByStep
<1> DEFINE Agreed(n, s, t) ==
             /\ s.ids[r] = t.ids[q] /\ s.lens[r] = t.lens[q] /\ s.drawn[r] = t.drawn[q]
             /\ r \in s.active <=> q \in t.active
             /\ r \in s.active /\ n # job.limit => s.cache[r] = t.cache[q]
           T == {n \in 0 .. job.limit : Agreed(n, after[n], then[n])}
<1>3. 0 \in T
  BY <1>1, <1>2 DEF IsDecoding, Prefill
<1>4. ASSUME NEW n \in 1 .. job.limit, n - 1 \in T PROVE n \in T
  <2>1. StepOfRow(job, after[n - 1], n - 1, after[n], r)
    BY <1>1, StatesOfRows
  <2>2. StepOfRow(other, then[n - 1], n - 1, then[n], q)
    BY <1>2, StatesOfRows
  <2>3. Agreed(n - 1, after[n - 1], then[n - 1])
    BY <1>4
  <2>4. (n - 1) + 1 = n /\ n - 1 # job.limit
    OBVIOUS
  <2>5. Agreed(n, after[n], then[n])
    BY <2>1, <2>2, <2>3, <2>4 DEF StepOfRow
  <2> QED BY <2>5
<1>5. Agreed(job.limit, Decoded(job), Decoded(other))
  <2>1. \A n \in 0 .. job.limit : n \in T
    <3> HIDE DEF T
    <3> QED BY <1>3, <1>4, StepByStep
  <2>2. job.limit \in 0 .. job.limit
    OBVIOUS
  <2>3. Agreed(job.limit, after[job.limit], then[job.limit])
    BY <2>1, <2>2
  <2> HIDE DEF Agreed
  <2> QED BY <2>3, <1>1, <1>2 DEF IsDecoding
<1>6. \A ids : Padded(job, ids) = Padded(other, ids)
  BY DEF Padded, Width, Pad
<1> QED BY <1>5, <1>6 DEF Rollout

\* The first m tokens behind the prompt are drawn from the row's stream, each from what is
\* before it.
AreDraws(job, ids, m, r) ==
  \A i \in 1 .. m : ids[Len(job.prompt) + i] = Draw(job.streams[r], i - 1, SubSeq(ids, 1, Len(job.prompt) + i - 1))

\* What a row of a rollout is: the prompt; tokens that are each drawn from exactly those before
\* them, with the draws of the row's stream in their order; the end token as soon as it is
\* drawn, and then padding.
RowOf(job, out, r) ==
  LET p == Len(job.prompt)
      ids == out.ids[r]
      real == out.lens[r]
  IN  /\ Len(ids) = Width(job) /\ DOMAIN ids = 1 .. Width(job)
      /\ real \in 1 .. job.limit /\ out.drawn[r] = real
      /\ \A i \in 1 .. p : ids[i] = job.prompt[i]
      /\ AreDraws(job, ids, real, r)
      /\ \A i \in 1 .. real - 1 : ids[p + i] # job.eos
      /\ real < job.limit => ids[p + real] = job.eos
      /\ \A i \in real + 1 .. job.limit : ids[p + i] = Pad(job)

\* What a batch knows of a row after n steps.
Holds(job, n, s, r) ==
  LET p == Len(job.prompt)
      ids == s.ids[r]
      m == s.drawn[r]
  IN  /\ m \in 0 .. n /\ Len(ids) = p + m
      /\ \A i \in 1 .. p : ids[i] = job.prompt[i]
      /\ AreDraws(job, ids, m, r)
      /\ \A i \in 1 .. m - 1 : ids[p + i] # job.eos
      /\ r \in s.active => /\ m = n /\ s.lens[r] = job.limit
                           /\ m > 0 => ids[p + m] # job.eos
                           /\ n # job.limit => s.cache[r] = ids
      /\ r \notin s.active => m > 0 /\ s.lens[r] = m /\ ids[p + m] = job.eos

LEMMA Appended ==
  ASSUME NEW S, NEW u \in Seq(S), NEW x \in S
  PROVE  /\ Append(u, x) \in Seq(S) /\ Len(Append(u, x)) = Len(u) + 1
         /\ \A i \in 1 .. Len(u) : Append(u, x)[i] = u[i]
         /\ Append(u, x)[Len(u) + 1] = x
OBVIOUS

LEMMA Joined ==
  ASSUME NEW S, NEW u \in Seq(S), NEW v \in Seq(S)
  PROVE  /\ Len(u \o v) = Len(u) + Len(v) /\ DOMAIN (u \o v) = 1 .. Len(u) + Len(v)
         /\ \A i \in 1 .. Len(u) : (u \o v)[i] = u[i]
         /\ \A i \in Len(u) + 1 .. Len(u) + Len(v) : (u \o v)[i] = v[i - Len(u)]
OBVIOUS

LEMMA Slice ==
  ASSUME NEW u, NEW p \in Nat, NEW w \in Nat
  PROVE  SubSeq(u, p + 1, p + w) = [i \in 1 .. w |-> u[p + i]]
OBVIOUS

LEMMA Repeated ==
  ASSUME NEW k \in Nat, NEW x
  PROVE  Len([i \in 1 .. k |-> x]) = k /\ [i \in 1 .. k |-> x] \in Seq({x})
OBVIOUS

LEMMA PrefixOfAppended ==
  ASSUME NEW S, NEW u \in Seq(S), NEW x \in S, NEW k \in 0 .. Len(u)
  PROVE  SubSeq(Append(u, x), 1, k) = SubSeq(u, 1, k)
<1>1. /\ Len(SubSeq(u, 1, k)) = k /\ Len(SubSeq(Append(u, x), 1, k)) = k
      /\ SubSeq(u, 1, k) \in Seq(S) /\ SubSeq(Append(u, x), 1, k) \in Seq(S)
  OBVIOUS
<1>2. \A i \in 1 .. k : SubSeq(Append(u, x), 1, k)[i] = SubSeq(u, 1, k)[i]
  OBVIOUS
<1> QED BY <1>1, <1>2

LEMMA RowGrows ==
  ASSUME NEW job, NEW Vocabulary, job.prompt \in Seq(Vocabulary), job.limit \in Nat,
         \A stream, k, tokens : Draw(stream, k, tokens) \in Vocabulary,
         NEW n \in 1 .. job.limit, NEW s, NEW t, NEW r, StepOfRow(job, s, n - 1, t, r),
         s.ids[r] \in Seq(Vocabulary), Holds(job, n - 1, s, r)
  PROVE  t.ids[r] \in Seq(Vocabulary) /\ Holds(job, n, t, r)
<1> DEFINE p == Len(job.prompt)
           ids == s.ids[r]
           m == s.drawn[r]
           token == Draw(job.streams[r], m, ids)
<1>1. /\ p \in Nat /\ m \in 0 .. n - 1 /\ Len(ids) = p + m /\ ids \in Seq(Vocabulary)
      /\ token \in Vocabulary
  BY DEF Holds
<1>2. CASE r \notin s.active
  <2>1. /\ r \notin t.active /\ t.ids[r] = ids /\ t.lens[r] = s.lens[r] /\ t.drawn[r] = m
    BY <1>2 DEF StepOfRow
  <2>2. m \in 0 .. n
    BY <1>1
  <2> QED BY <1>2, <2>1, <2>2 DEF Holds
<1>3. CASE r \in s.active
  <2>1. m = n - 1 /\ s.lens[r] = job.limit /\ s.cache[r] = ids /\ \A i \in 1 .. m : ids[p + i] # job.eos
    <3>1. /\ m = n - 1 /\ s.lens[r] = job.limit /\ s.cache[r] = ids /\ (m > 0 => ids[p + m] # job.eos)
          /\ \A i \in 1 .. m - 1 : ids[p + i] # job.eos
      <4>1. m = n - 1 /\ s.lens[r] = job.limit /\ (n - 1 # job.limit => s.cache[r] = ids)
        BY <1>3 DEF Holds
      <4>2. (m > 0 => ids[p + m] # job.eos) /\ \A i \in 1 .. m - 1 : ids[p + i] # job.eos
        BY <1>3 DEF Holds
      <4>3. n - 1 # job.limit
        OBVIOUS
      <4> QED BY <4>1, <4>2, <4>3
    <3>2. ASSUME NEW i \in 1 .. m PROVE (i = m /\ m > 0) \/ i \in 1 .. m - 1
      BY <1>1
    <3> QED BY <3>1, <3>2
  <2>2. /\ t.ids[r] = Append(ids, token) /\ t.drawn[r] = n
        /\ r \in t.active <=> token # job.eos
        /\ t.lens[r] = IF token = job.eos THEN n ELSE job.limit
        /\ r \in t.active /\ n # job.limit => t.cache[r] = Append(ids, token)
    <3>1. (n - 1) + 1 = n
      OBVIOUS
    <3> QED BY <1>3, <2>1, <3>1 DEF StepOfRow
  <2> HIDE DEF token
  <2>3. /\ Append(ids, token) \in Seq(Vocabulary) /\ Len(Append(ids, token)) = p + n
        /\ \A i \in 1 .. p + n - 1 : Append(ids, token)[i] = ids[i]
        /\ Append(ids, token)[p + n] = token
    <3>1. /\ Append(ids, token) \in Seq(Vocabulary) /\ Len(Append(ids, token)) = Len(ids) + 1
          /\ \A i \in 1 .. Len(ids) : Append(ids, token)[i] = ids[i]
          /\ Append(ids, token)[Len(ids) + 1] = token
      BY <1>1, Appended DEF token
    <3>2. Len(ids) = p + n - 1 /\ Len(ids) + 1 = p + n
      BY <1>1, <2>1
    <3> QED BY <3>1, <3>2
  <2>4. \A i \in 1 .. p : t.ids[r][i] = job.prompt[i]
    BY <1>1, <2>1, <2>2, <2>3 DEF Holds
  <2>5. ASSUME NEW i \in 1 .. n
        PROVE  t.ids[r][p + i] = Draw(job.streams[r], i - 1, SubSeq(t.ids[r], 1, p + i - 1))
    <3>1. p + i - 1 \in 0 .. Len(ids)
      BY <1>1, <2>1
    <3>2. SubSeq(t.ids[r], 1, p + i - 1) = SubSeq(ids, 1, p + i - 1)
      BY <1>1, <2>2, <3>1, PrefixOfAppended
    <3>3. CASE i = n
      <4>1. p + i - 1 = Len(ids) /\ i - 1 = m
        BY <1>1, <2>1, <3>3
      <4>2. SubSeq(ids, 1, Len(ids)) = ids
        BY <1>1
      <4> QED BY <2>2, <2>3, <3>2, <3>3, <4>1, <4>2 DEF token
    <3>4. CASE i # n
      <4>1. i \in 1 .. m /\ p + i \in 1 .. p + n - 1
        BY <1>1, <2>1, <3>4
      <4>2. ids[p + i] = Draw(job.streams[r], i - 1, SubSeq(ids, 1, p + i - 1))
        BY <4>1 DEF Holds, AreDraws
      <4> QED BY <2>2, <2>3, <3>2, <4>1, <4>2
    <3> QED BY <3>3, <3>4
  <2>6. \A i \in 1 .. n - 1 : t.ids[r][p + i] # job.eos
    <3> TAKE i \in 1 .. n - 1
    <3>1. i \in 1 .. m /\ p + i \in 1 .. p + n - 1
      BY <1>1, <2>1
    <3> QED BY <2>1, <2>2, <2>3, <3>1
  <2>7. t.ids[r][p + n] = token /\ Len(t.ids[r]) = p + n /\ n > 0 /\ n \in 0 .. n
    BY <2>2, <2>3
  <2>8. AreDraws(job, t.ids[r], n, r)
    BY <2>5 DEF AreDraws
  <2> QED BY <2>2, <2>3, <2>4, <2>6, <2>7, <2>8 DEF Holds
<1> QED BY <1>2, <1>3

LEMMA RowIsHeld ==
  ASSUME NEW job, NEW Vocabulary, job.prompt \in Seq(Vocabulary), job.limit \in Nat,
         \A stream, k, tokens : Draw(stream, k, tokens) \in Vocabulary, NEW r \in Rows(job)
  PROVE  Decoded(job).ids[r] \in Seq(Vocabulary) /\ Holds(job, job.limit, Decoded(job), r)
<1>1. PICK after : IsDecoding(job, after)
  BY DecodesStepByStep
<1> DEFINE T == {n \in 0 .. job.limit : after[n].ids[r] \in Seq(Vocabulary) /\ Holds(job, n, after[n], r)}
<1>2. 0 \in T
  <2>1. /\ after[0].ids[r] = job.prompt /\ after[0].cache[r] = job.prompt /\ r \in after[0].active
        /\ after[0].lens[r] = job.limit /\ after[0].drawn[r] = 0
    BY <1>1 DEF IsDecoding, Prefill
  <2> QED BY <2>1 DEF Holds, AreDraws
<1>3. ASSUME NEW n \in 1 .. job.limit, n - 1 \in T PROVE n \in T
  <2>1. StepOfRow(job, after[n - 1], n - 1, after[n], r)
    BY <1>1, StatesOfRows
  <2>2. after[n - 1].ids[r] \in Seq(Vocabulary) /\ Holds(job, n - 1, after[n - 1], r)
    BY <1>3
  <2>3. after[n].ids[r] \in Seq(Vocabulary) /\ Holds(job, n, after[n], r)
    BY <2>1, <2>2, RowGrows
  <2> QED BY <2>3
<1>4. job.limit \in T
  <2>1. job.limit \in 0 .. job.limit
    OBVIOUS
  <2>2. \A n \in 1 .. job.limit : n - 1 \in T => n \in T
    BY <1>3
  <2> HIDE DEF T
  <2> QED BY <1>2, <2>1, <2>2, StepByStep
<1> QED BY <1>1, <1>4 DEF IsDecoding

\* Every row of every batch is such a row, whatever the model draws: the cache that a batch is
\* decoded over never shows a row anything but its own tokens, no row draws behind its end
\* token, and the length counts the draws (batched_group_decode).
THEOREM RowsAreDrawn ==
  ASSUME NEW job, NEW Vocabulary, job.prompt \in Seq(Vocabulary), job.limit \in Nat \ {0},
         \A stream, k, tokens : Draw(stream, k, tokens) \in Vocabulary, NEW r \in Rows(job)
  PROVE  RowOf(job, Rollout(job), r)
<1> DEFINE p == Len(job.prompt)
           s == Decoded(job)
           ids == s.ids[r]
           m == s.drawn[r]
           out == Padded(job, ids)
           pad == [i \in 1 .. (Width(job) - Len(ids)) |-> Pad(job)]
<1>1. ids \in Seq(Vocabulary) /\ Holds(job, job.limit, s, r)
  BY RowIsHeld
<1> HIDE DEF s
<1>2. /\ Rollout(job).ids[r] = out /\ Rollout(job).lens[r] = s.lens[r] /\ Rollout(job).drawn[r] = m
  <2>1. Shaped(job, s)
    <3>1. PICK after : IsDecoding(job, after)
      BY DecodesStepByStep
    <3>2. job.limit \in 0 .. job.limit
      OBVIOUS
    <3>3. \A n \in 0 .. job.limit : Shaped(job, after[n])
      BY <3>1, StatesOfRows
    <3>4. s = after[job.limit]
      BY <3>1 DEF IsDecoding, s
    <3> QED BY <3>2, <3>3, <3>4
  <2> QED BY <2>1 DEF Rollout, s
<1>3. p \in Nat /\ m \in 0 .. job.limit /\ Len(ids) = p + m /\ Width(job) = p + job.limit
  BY <1>1 DEF Holds, Width
<1>4. s.lens[r] = m /\ m > 0 /\ (m < job.limit => ids[p + m] = job.eos)
  <2>1. CASE r \in s.active
    <3>1. m = job.limit /\ s.lens[r] = job.limit
      BY <1>1, <2>1 DEF Holds
    <3> QED BY <3>1
  <2>2. CASE r \notin s.active
    BY <1>1, <2>2 DEF Holds
  <2> QED BY <2>1, <2>2
<1>5. /\ out = ids \o pad /\ Len(pad) = job.limit - m /\ pad \in Seq({Pad(job)})
  <2>1. Width(job) - Len(ids) = job.limit - m /\ job.limit - m \in Nat
    BY <1>3
  <2>2. out = ids \o pad
    BY DEF Padded
  <2> QED BY <2>1, <2>2, Repeated
<1>6. /\ Len(out) = Width(job) /\ DOMAIN out = 1 .. Width(job)
      /\ \A i \in 1 .. p + m : out[i] = ids[i]
      /\ \A i \in p + m + 1 .. p + job.limit : out[i] = Pad(job)
  <2> DEFINE A == Vocabulary \cup {Pad(job)}
  <2>1. ids \in Seq(A) /\ pad \in Seq(A)
    BY <1>1, <1>5
  <2>2. \A i \in 1 .. Len(pad) : pad[i] = Pad(job)
    BY <1>3, <1>5
  <2> HIDE DEF pad, out, m, ids, A
  <2>3. /\ Len(ids \o pad) = Len(ids) + Len(pad) /\ DOMAIN (ids \o pad) = 1 .. Len(ids) + Len(pad)
        /\ \A i \in 1 .. Len(ids) : (ids \o pad)[i] = ids[i]
        /\ \A i \in Len(ids) + 1 .. Len(ids) + Len(pad) : (ids \o pad)[i] = pad[i - Len(ids)]
    BY <2>1, Joined
  <2>4. /\ Len(out) = p + job.limit /\ DOMAIN out = 1 .. p + job.limit
        /\ \A i \in 1 .. p + m : out[i] = ids[i]
        /\ \A i \in p + m + 1 .. p + job.limit : out[i] = pad[i - (p + m)]
    <3>1. out = ids \o pad /\ Len(ids) = p + m /\ Len(ids) + Len(pad) = p + job.limit
      BY <1>3, <1>5
    <3> QED BY <2>3, <3>1
  <2>5. \A i \in p + m + 1 .. p + job.limit : i - (p + m) \in 1 .. Len(pad)
    BY <1>3, <1>5
  <2> QED BY <1>3, <2>2, <2>4, <2>5
<1>7. \A i \in 1 .. m : SubSeq(out, 1, p + i - 1) = SubSeq(ids, 1, p + i - 1)
  <2> TAKE i \in 1 .. m
  <2>1. p + i - 1 \in 0 .. p + m /\ p + i - 1 \in 0 .. p + job.limit
    BY <1>3
  <2> HIDE DEF out
  <2> DEFINE k == p + i - 1
  <2>2. SubSeq(out, 1, k) = [j \in 1 .. k |-> out[j]] /\ SubSeq(ids, 1, k) = [j \in 1 .. k |-> ids[j]]
    BY <1>1, <1>3, <1>6, <2>1
  <2>3. \A j \in 1 .. k : out[j] = ids[j]
    BY <1>3, <1>6, <2>1
  <2> HIDE DEF k
  <2>4. SubSeq(out, 1, k) = SubSeq(ids, 1, k)
    BY <2>2, <2>3
  <2> QED BY <2>4 DEF k
<1> HIDE DEF out
<1>8. AreDraws(job, out, m, r)
  <2> SUFFICES ASSUME NEW i \in 1 .. m
               PROVE  out[p + i] = Draw(job.streams[r], i - 1, SubSeq(out, 1, p + i - 1))
    BY DEF AreDraws
  <2>1. ids[p + i] = Draw(job.streams[r], i - 1, SubSeq(ids, 1, p + i - 1))
    BY <1>1 DEF Holds, AreDraws
  <2>2. out[p + i] = ids[p + i]
    <3>1. p + i \in 1 .. p + m
      BY <1>3
    <3> QED BY <1>6, <3>1
  <2> QED BY <1>7, <2>1, <2>2
<1>9. /\ \A i \in 1 .. p : out[i] = job.prompt[i]
      /\ \A i \in 1 .. m - 1 : out[p + i] # job.eos
      /\ m < job.limit => out[p + m] = job.eos
      /\ \A i \in m + 1 .. job.limit : out[p + i] = Pad(job)
  <2>1. /\ \A i \in 1 .. p : ids[i] = job.prompt[i]
        /\ \A i \in 1 .. m - 1 : ids[p + i] # job.eos
    BY <1>1 DEF Holds
  <2>2. p + m \in 1 .. p + m /\ \A i \in 1 .. m - 1 : p + i \in 1 .. p + m
    BY <1>3, <1>4
  <2>3. \A i \in 1 .. p : i \in 1 .. p + m
    BY <1>3
  <2>4. \A i \in m + 1 .. job.limit : p + i \in p + m + 1 .. p + job.limit
    BY <1>3
  <2> HIDE DEF m, ids
  <2>5. \A i \in 1 .. p : out[i] = job.prompt[i]
    BY <1>6, <2>1, <2>3
  <2>6. /\ \A i \in 1 .. m - 1 : out[p + i] # job.eos
        /\ m < job.limit => out[p + m] = job.eos
    BY <1>4, <1>6, <2>1, <2>2
  <2> QED BY <1>6, <2>4, <2>5, <2>6
<1>10. m \in 1 .. job.limit
  BY <1>3, <1>4
<1> QED BY <1>2, <1>4, <1>6, <1>8, <1>9, <1>10 DEF RowOf

(***************************************************************************)
(* A window of rollouts, as it is written and as it is read.               *)
(***************************************************************************)
\* What a run passes to its collectors: sizes that are not zero, a job for every group with
\* a prompt of tokens, whose policy captures what the controls need, and a reward for every row.
Controls(c) ==
  /\ c.world \in Nat \ {0} /\ c.accum \in Nat \ {0} /\ c.size \in Nat \ {0} /\ c.width \in Nat \ {0}
  /\ c.step \in Nat /\ c.shared \in BOOLEAN /\ c.masking \in BOOLEAN /\ c.kl \in BOOLEAN /\ c.tis \in BOOLEAN

GroupJob(c, job, rewards, Vocabulary) ==
  /\ job.rows = c.size /\ job.limit = c.width /\ job.eos = c.eos
  /\ job.prompt \in Seq(Vocabulary) /\ Len(job.prompt) > 0
  /\ job.captures \in BOOLEAN /\ (c.tis => job.captures)
  /\ rewards \in Seq(Int) /\ Len(rewards) = c.size

WindowJobs(c, drawn, rewards, Vocabulary) ==
  /\ Controls(c) /\ DOMAIN rewards = RanksOf(c)
  /\ \A r \in RanksOf(c), j \in 0 .. c.accum - 1 : GroupJob(c, drawn[r][j], rewards[r][j], Vocabulary)
  /\ c.shared => \A r \in RanksOf(c), j \in 0 .. c.accum - 1 : drawn[r][j].prompt = drawn[0][j].prompt

\* Every row of the window has a number that a word can hold.
RowsFit(c) ==
  \A r \in RanksOf(c), j \in 0 .. c.accum - 1 : Index(c.step, r, j, c.accum, c.world) * c.size < Word

LEMMA OneRanksOrder ==
  ASSUME NEW c, c.world = 1, NEW parts
  PROVE  InRankOrder(c, parts) = parts[0]
<1> DEFINE seqs == [i \in 1 .. c.world |-> parts[i - 1]]
           F(f) == [i \in 1 .. Len(seqs) |-> IF i = 1 THEN seqs[i] ELSE f[i - 1] \o seqs[i]]
           flatten == CHOOSE f : f = F(f)
<1>1. Len(seqs) = 1 /\ seqs[1] = parts[0]
  OBVIOUS
<1>2. InRankOrder(c, parts) = flatten[Len(seqs)]
  BY <1>1 DEF InRankOrder, FlattenSeq
<1> HIDE DEF seqs
<1>3. \E f : f = F(f)
  <2> DEFINE f == [i \in 1 .. Len(seqs) |-> seqs[1]]
  <2>1. f = F(f)
    BY <1>1
  <2> HIDE DEF f, F
  <2> QED BY <2>1
<1>4. flatten = F(flatten)
  <2> HIDE DEF F
  <2> QED BY <1>3
<1> HIDE DEF flatten
<1>5. flatten[1] = parts[0]
  BY <1>1, <1>4
<1> QED BY <1>1, <1>2, <1>5

\* The end that the reader finds is the one that the policy has reported.
LEMMA RowEndsAtEos ==
  ASSUME NEW c, NEW job, NEW out, NEW a, NEW Vocabulary, NoEos \notin Vocabulary,
         \A stream, k, tokens : Draw(stream, k, tokens) \in Vocabulary,
         job.prompt \in Seq(Vocabulary), c.width \in Nat \ {0}, job.limit = c.width, job.eos = c.eos,
         RowOf(job, out, a)
  PROVE  EndsAtEos(c, SubSeq(out.ids[a], Len(job.prompt) + 1, Len(job.prompt) + c.width), out.lens[a])
<1> DEFINE p == Len(job.prompt)
           ids == out.ids[a]
           real == out.lens[a]
           completion == SubSeq(ids, p + 1, p + c.width)
           ends == {i \in DOMAIN completion : completion[i] = c.eos}
<1>1. p \in Nat /\ Len(ids) = p + c.width /\ real \in 1 .. c.width
  BY DEF RowOf, Width
<1>2. /\ Len(completion) = c.width /\ DOMAIN completion = 1 .. c.width
      /\ \A i \in 1 .. c.width : completion[i] = ids[p + i]
  <2> HIDE DEF p, ids
  <2>1. completion = [i \in 1 .. c.width |-> ids[p + i]]
    <3>1. p \in Nat /\ c.width \in Nat
      BY <1>1
    <3> DEFINE w == c.width
    <3> HIDE DEF w
    <3>2. SubSeq(ids, p + 1, p + w) = [i \in 1 .. w |-> ids[p + i]]
      BY <3>1, Slice DEF w
    <3> QED BY <3>2 DEF w
  <2> HIDE DEF completion
  <2> QED BY <2>1
<1>3. /\ \A i \in 1 .. real - 1 : ids[p + i] # c.eos
      /\ real < c.width => ids[p + real] = c.eos
      /\ \A i \in real + 1 .. c.width : ids[p + i] = Pad(job)
  BY DEF RowOf
<1>4. ids[p + real] \in Vocabulary
  <2>1. AreDraws(job, ids, real, a)
    BY DEF RowOf
  <2> HIDE DEF ids, real
  <2>2. ids[p + real] = Draw(job.streams[a], real - 1, SubSeq(ids, 1, p + real - 1))
    BY <1>1, <2>1 DEF AreDraws
  <2> QED BY <2>2
<1> SUFFICES EndsAtEos(c, completion, real)
  OBVIOUS
<1> HIDE DEF completion, ids, real, p
<1>5. CASE c.eos = NoEos
  BY <1>1, <1>2, <1>3, <1>4, <1>5 DEF EndsAtEos
<1>6. CASE c.eos # NoEos /\ ends = {}
  <2>1. real \in 1 .. c.width => completion[real] # c.eos
    BY <1>2, <1>6
  <2> QED BY <1>1, <1>2, <1>3, <1>6, <2>1 DEF EndsAtEos
<1>7. CASE c.eos # NoEos /\ ends # {}
  <2>1. \A i \in ends : real <= i
    <3> SUFFICES ASSUME NEW i \in ends, i < real PROVE FALSE
      BY <1>1, <1>2
    <3>1. i \in 1 .. real - 1 /\ completion[i] = c.eos /\ completion[i] = ids[p + i]
      BY <1>1, <1>2
    <3> QED BY <3>1, <1>3
  <2>2. real \in ends
    <3>1. CASE real < c.width
      BY <1>1, <1>2, <1>3, <3>1
    <3>2. CASE real = c.width
      <4>1. PICK i \in ends : TRUE
        BY <1>7
      <4>2. real <= i /\ i \in 1 .. c.width
        BY <1>2, <2>1, <4>1
      <4>3. i = real
        BY <1>1, <3>2, <4>2
      <4> QED BY <4>1, <4>3
    <3> QED BY <1>1, <3>1, <3>2
  <2>3. ends \subseteq Int
    BY <1>2
  <2> HIDE DEF ends
  <2>4. real = Min(ends)
    BY <2>1, <2>2, <2>3 DEF Min
  <2>5. \A i \in DOMAIN completion : i > real => completion[i] = c.eos
    BY <1>1, <1>2, <1>3, <1>7 DEF Pad
  <2> QED BY <1>7, <2>4, <2>5 DEF EndsAtEos, ends
<1> QED BY <1>5, <1>6, <1>7

\* What a group holds of its job, rewards and statistics.
IsGroup(c, job, out, rewards, moments, r, j, g) ==
  /\ g.accum_index = j /\ g.prompt = job.prompt /\ g.ids = out.ids /\ g.lens = out.lens
  /\ g.prompt_index = IF c.shared THEN SharedPrompt(c.step, r, j, c.accum, c.world)
                      ELSE LocalPrompt(c.step, r, j, c.accum, c.world)
  /\ g.row_base = RowBase(c.step, r, j, c.accum, c.world, c.size)
  /\ g.captured = (IF job.captures THEN {out.drawn} ELSE {}) /\ g.rewards = rewards
  /\ g.stats = IF c.shared /\ c.world > 1 THEN {moments} ELSE {}
  /\ Len(g.ids) = c.size /\ Len(g.lens) = c.size /\ Len(out.drawn) = c.size
  /\ Len(g.advantages) = c.size /\ Len(g.mask) = c.size
  /\ \A a \in 1 .. c.size :
       /\ g.advantages[a] = Advantage(rewards[a], moments)
       /\ Len(g.mask[a]) = c.width
       /\ \A col \in 1 .. c.width :
            g.mask[a][col] = IF ~(c.masking /\ a \in Truncated(job, out)) /\ col <= out.lens[a] THEN 1 ELSE 0

LEMMA GroupFields ==
  ASSUME NEW c, NEW drawn, NEW rewards, NEW r, NEW j, NEW Vocabulary,
         Controls(c), GroupJob(c, drawn[r][j], rewards[r][j], Vocabulary)
  PROVE  IsGroup(c, drawn[r][j], Rollout(drawn[r][j]), rewards[r][j], GroupMoments(c, rewards, r, j), r, j,
                 CollectGroup(c, drawn, rewards, r, j))
<1> DEFINE job == drawn[r][j]
           out == Rollout(job)
           g == CollectGroup(c, drawn, rewards, r, j)
           moments == GroupMoments(c, rewards, r, j)
<1>1. /\ job.rows = c.size /\ job.limit = c.width /\ c.size \in Nat /\ c.width \in Nat \ {0}
      /\ Rows(job) = 1 .. c.size /\ c.masking \in BOOLEAN
  BY DEF GroupJob, Controls, Rows
<1>2. /\ g.accum_index = j /\ g.prompt = job.prompt /\ g.ids = out.ids /\ g.lens = out.lens
      /\ g.prompt_index = IF c.shared THEN SharedPrompt(c.step, r, j, c.accum, c.world)
                          ELSE LocalPrompt(c.step, r, j, c.accum, c.world)
      /\ g.row_base = RowBase(c.step, r, j, c.accum, c.world, c.size)
      /\ g.captured = (IF job.captures THEN {out.drawn} ELSE {}) /\ g.rewards = rewards[r][j]
      /\ g.stats = IF c.shared /\ c.world > 1 THEN {moments} ELSE {}
      /\ g.advantages = [a \in Rows(job) |-> Advantage(rewards[r][j][a], moments)]
      /\ g.mask = IF c.masking THEN TruncationMask(job, out) ELSE LengthMask(job, out)
  BY DEF CollectGroup
<1> HIDE DEF g, moments
<1>3. Len(out.ids) = c.size /\ Len(out.lens) = c.size /\ Len(out.drawn) = c.size
  <2>1. Shaped(job, Decoded(job))
    <3>1. PICK after : IsDecoding(job, after)
      BY <1>1, DecodesStepByStep
    <3>2. \A n \in 0 .. job.limit : Shaped(job, after[n])
      BY <1>1, <3>1, StatesOfRows
    <3>3. job.limit \in 0 .. job.limit
      BY <1>1
    <3> QED BY <3>1, <3>2, <3>3 DEF IsDecoding
  <2> DEFINE s == Decoded(job)
  <2>2. /\ out.ids = [a \in Rows(job) |-> Padded(job, s.ids[a])] /\ out.lens = s.lens /\ out.drawn = s.drawn
    BY DEF Rollout
  <2> HIDE DEF s, out
  <2>3. s.lens = [a \in Rows(job) |-> s.lens[a]] /\ s.drawn = [a \in Rows(job) |-> s.drawn[a]]
    BY <2>1 DEF Shaped, s
  <2>4. DOMAIN out.ids = 1 .. c.size /\ DOMAIN out.lens = 1 .. c.size /\ DOMAIN out.drawn = 1 .. c.size
    <3>1. DOMAIN s.lens = Rows(job) /\ DOMAIN s.drawn = Rows(job)
      BY <2>3
    <3> QED BY <1>1, <2>2, <3>1
  <2>5. /\ out.ids = [a \in 1 .. c.size |-> out.ids[a]] /\ out.lens = [a \in 1 .. c.size |-> out.lens[a]]
        /\ out.drawn = [a \in 1 .. c.size |-> out.drawn[a]]
    BY <1>1, <2>2, <2>3
  <2>6. ASSUME NEW f, f = [a \in 1 .. c.size |-> f[a]] PROVE Len(f) = c.size
    BY <1>1, <2>6
  <2> QED BY <2>5, <2>6
<1> HIDE DEF out
<1>4. Len(g.advantages) = c.size /\ \A a \in 1 .. c.size : g.advantages[a] = Advantage(rewards[r][j][a], moments)
  BY <1>1, <1>2
<1>5. /\ Len(g.mask) = c.size
      /\ \A a \in 1 .. c.size :
           g.mask[a] = [col \in 1 .. c.width |->
             IF ~(c.masking /\ a \in Truncated(job, out)) /\ col <= out.lens[a] THEN 1 ELSE 0]
  <2> DEFINE short == [a \in Rows(job) |-> [col \in 1 .. job.limit |-> IF col <= out.lens[a] THEN 1 ELSE 0]]
             cut == [a \in Rows(job) |-> IF a \in Truncated(job, out) THEN [col \in 1 .. job.limit |-> 0] ELSE short[a]]
  <2>1. g.mask = IF c.masking THEN cut ELSE short
    BY <1>2 DEF TruncationMask, LengthMask
  <2>2. Len(g.mask) = c.size
    BY <1>1, <2>1
  <2>3. ASSUME NEW a \in 1 .. c.size
        PROVE  g.mask[a] = [col \in 1 .. c.width |->
                 IF ~(c.masking /\ a \in Truncated(job, out)) /\ col <= out.lens[a] THEN 1 ELSE 0]
    <3>1. g.mask[a] = IF c.masking /\ a \in Truncated(job, out) THEN [col \in 1 .. c.width |-> 0]
                      ELSE [col \in 1 .. c.width |-> IF col <= out.lens[a] THEN 1 ELSE 0]
      BY <1>1, <2>1
    <3>2. CASE c.masking /\ a \in Truncated(job, out)
      BY <3>1, <3>2
    <3>3. CASE ~(c.masking /\ a \in Truncated(job, out))
      BY <3>1, <3>3
    <3> QED BY <3>2, <3>3
  <2> QED BY <2>2, <2>3
<1>6. ASSUME NEW a \in 1 .. c.size
      PROVE  /\ Len(g.mask[a]) = c.width
             /\ \A col \in 1 .. c.width :
                  g.mask[a][col] = IF ~(c.masking /\ a \in Truncated(job, out)) /\ col <= out.lens[a] THEN 1 ELSE 0
  <2> DEFINE row == g.mask[a]
             Bit(col) == IF ~(c.masking /\ a \in Truncated(job, out)) /\ col <= out.lens[a] THEN 1 ELSE 0
  <2>1. row = [col \in 1 .. c.width |-> Bit(col)]
    BY <1>5
  <2> HIDE DEF row, Bit
  <2>2. Len(row) = c.width /\ \A col \in 1 .. c.width : row[col] = Bit(col)
    BY <1>1, <2>1
  <2> QED BY <2>2 DEF row, Bit
<1> QED BY <1>2, <1>3, <1>4, <1>5, <1>6 DEF IsGroup, g, out, moments

LEMMA GroupIsValid ==
  ASSUME NEW c, NEW drawn, NEW rewards, NEW Vocabulary, WindowJobs(c, drawn, rewards, Vocabulary), NoEos \notin Vocabulary,
         \A stream, k, tokens : Draw(stream, k, tokens) \in Vocabulary,
         NEW r \in RanksOf(c), NEW j \in 0 .. c.accum - 1
  PROVE  ValidGroup(c, CollectGroup(c, drawn, rewards, r, j))
<1> DEFINE job == drawn[r][j]
           out == Rollout(job)
           g == CollectGroup(c, drawn, rewards, r, j)
           moments == GroupMoments(c, rewards, r, j)
           p == Len(job.prompt)
<1>1. Controls(c) /\ GroupJob(c, job, rewards[r][j], Vocabulary)
  BY DEF WindowJobs
<1>2. /\ job.rows = c.size /\ job.limit = c.width /\ job.eos = c.eos /\ job.prompt \in Seq(Vocabulary) /\ p > 0
      /\ Len(rewards[r][j]) = c.size /\ p \in Nat /\ c.width \in Nat \ {0} /\ c.size \in Nat \ {0}
      /\ c.world \in Nat \ {0} /\ c.shared \in BOOLEAN /\ c.masking \in BOOLEAN
  BY <1>1 DEF Controls, GroupJob
<1>3. /\ g.accum_index = j /\ g.prompt = job.prompt /\ g.ids = out.ids /\ g.lens = out.lens
      /\ g.captured = (IF job.captures THEN {out.drawn} ELSE {}) /\ g.rewards = rewards[r][j]
      /\ g.stats = IF c.shared /\ c.world > 1 THEN {moments} ELSE {}
      /\ Len(g.ids) = c.size /\ Len(g.lens) = c.size /\ Len(out.drawn) = c.size
      /\ Len(g.advantages) = c.size /\ Len(g.mask) = c.size
      /\ \A a \in 1 .. c.size :
           /\ g.advantages[a] = Advantage(rewards[r][j][a], moments)
           /\ Len(g.mask[a]) = c.width
           /\ \A col \in 1 .. c.width :
                g.mask[a][col] = IF ~(c.masking /\ a \in Truncated(job, out)) /\ col <= out.lens[a] THEN 1 ELSE 0
  <2>1. IsGroup(c, job, out, rewards[r][j], moments, r, j, g)
    BY <1>1, GroupFields
  <2> HIDE DEF g, moments, job, out
  <2> QED BY <2>1 DEF IsGroup
<1> HIDE DEF g, moments
<1>4. StatsOf(g) = moments /\ HasItsStats(c, g)
  <2>1. CASE c.shared /\ c.world > 1
    BY <1>3, <2>1 DEF StatsOf, HasItsStats
  <2>2. CASE ~(c.shared /\ c.world > 1)
    <3>1. g.stats = {} /\ StatsOf(g) = Moments(rewards[r][j]) /\ HasItsStats(c, g)
      BY <1>3, <2>2 DEF StatsOf, HasItsStats
    <3>2. CASE ~c.shared
      BY <3>1, <3>2 DEF GroupMoments, moments
    <3>3. CASE c.shared
      <4>1. c.world = 1 /\ r = 0
        BY <1>2, <2>2, <3>3 DEF RanksOf
      <4>2. 0 \in DOMAIN rewards
        BY <4>1 DEF WindowJobs
      <4>3. InRankOrder(c, [s \in DOMAIN rewards |-> rewards[s][j]]) = rewards[0][j]
        BY <4>1, <4>2, OneRanksOrder
      <4> QED BY <3>1, <3>3, <4>1, <4>3 DEF GroupMoments, moments
    <3> QED BY <3>2, <3>3
  <2> QED BY <2>1, <2>2
<1>5. ASSUME NEW a \in 1 .. c.size PROVE RowOf(job, out, a)
  <2>1. a \in Rows(job)
    BY <1>2 DEF Rows
  <2> QED BY <1>2, <2>1, RowsAreDrawn
<1> HIDE DEF out
<1>6. ASSUME NEW a \in 1 .. c.size
      PROVE  /\ Len(out.ids[a]) = p + c.width /\ out.lens[a] \in 1 .. c.width /\ out.drawn[a] = out.lens[a]
             /\ SubSeq(out.ids[a], 1, p) = job.prompt
             /\ EndsAtEos(c, SubSeq(out.ids[a], p + 1, p + c.width), out.lens[a])
  <2>1. RowOf(job, out, a)
    BY <1>5
  <2>2. Len(out.ids[a]) = p + c.width /\ out.lens[a] \in 1 .. c.width /\ out.drawn[a] = out.lens[a]
    BY <1>2, <2>1 DEF RowOf, Width
  <2>3. SubSeq(out.ids[a], 1, p) = job.prompt
    <3>1. \A i \in 1 .. p : out.ids[a][i] = job.prompt[i]
      BY <2>1 DEF RowOf
    <3>2. SubSeq(out.ids[a], 0 + 1, 0 + p) = [i \in 1 .. p |-> out.ids[a][0 + i]]
      BY <1>2, Slice
    <3>3. 0 + 1 = 1 /\ 0 + p = p /\ \A i \in 1 .. p : 0 + i = i
      BY <1>2
    <3>4. job.prompt = [i \in 1 .. p |-> job.prompt[i]]
      <4>1. ASSUME NEW u \in Seq(Vocabulary) PROVE u = [i \in 1 .. Len(u) |-> u[i]]
        OBVIOUS
      <4> QED BY <1>2, <4>1
    <3> QED BY <3>1, <3>2, <3>3, <3>4
  <2>4. EndsAtEos(c, SubSeq(out.ids[a], p + 1, p + c.width), out.lens[a])
    BY <1>2, <2>1, RowEndsAtEos
  <2> QED BY <2>2, <2>3, <2>4
<1>7. ASSUME NEW a \in 1 .. c.size PROVE ValidRow(c, g, a)
  <2> DEFINE real == out.lens[a]
             truncated == c.masking /\ real = c.width /\ c.eos # NoEos /\ Last(out.ids[a]) # c.eos
  <2>1. truncated <=> c.masking /\ a \in Truncated(job, out)
    <3>1. a \in Rows(job)
      BY <1>2 DEF Rows
    <3>2. Last(out.ids[a]) = out.ids[a][p + c.width]
      BY <1>6 DEF Last
    <3> QED BY <1>2, <3>1, <3>2 DEF Truncated
  <2>2. \A col \in 1 .. c.width : g.mask[a][col] = IF ~truncated /\ col <= real THEN 1 ELSE 0
    BY <1>3, <2>1
  <2>3. real <= c.width
    BY <1>2, <1>6
  <2>4. g.advantages[a] = Advantage(g.rewards[a], StatsOf(g))
    BY <1>3, <1>4
  <2> HIDE DEF real
  <2> QED BY <1>3, <1>6, <2>2, <2>3, <2>4 DEF ValidRow, real
<1>8. \A a \in 1 .. c.size : Len(g.ids[a]) = Len(g.prompt) + c.width
  BY <1>3, <1>6
<1>9. {Len(g.ids), Len(g.lens), Len(g.rewards), Len(g.advantages), Len(g.mask)} = {c.size}
  BY <1>2, <1>3
<1>10. CaptureFits(c, g)
  <2>1. c.tis => job.captures
    BY <1>1 DEF GroupJob
  <2>2. \A a \in 1 .. c.size : out.drawn[a] = g.lens[a]
    BY <1>3, <1>6
  <2> HIDE DEF job
  <2> QED BY <1>3, <2>1, <2>2 DEF CaptureFits
<1> QED BY <1>2, <1>3, <1>4, <1>7, <1>8, <1>9, <1>10 DEF ValidGroup, g

LEMMA ShardIsValid ==
  ASSUME NEW c, NEW drawn, NEW rewards, NEW sampler, NEW Vocabulary, WindowJobs(c, drawn, rewards, Vocabulary), NoEos \notin Vocabulary,
         \A stream, k, tokens : Draw(stream, k, tokens) \in Vocabulary, Word \in Nat, RowsFit(c),
         NEW r \in RanksOf(c)
  PROVE  ValidShard(Window(c, drawn, rewards, sampler)[r])
<1> DEFINE Groups(q) == [i \in 1 .. c.accum |-> CollectGroup(c, drawn, rewards, q, i - 1)]
           groups == [q \in RanksOf(c) |-> Groups(q)]
           p == Window(c, drawn, rewards, sampler)[r]
           shard == c.step * c.accum * c.world + r * c.accum
           first == IF c.shared THEN c.step * c.accum ELSE shard
<1>1. /\ p.rank = r /\ p.controls = c /\ p.groups = Groups(r) /\ p.reference_logprobs = c.kl
      /\ p.old_logprobs = (LiveItems(c, p.groups) > 0)
  BY DEF Window
<1>2. Controls(c) /\ r \in Nat /\ r < c.world
  BY DEF WindowJobs, RanksOf, Controls
<1>3. Len(p.groups) = c.accum /\ \A i \in 1 .. c.accum : p.groups[i] = CollectGroup(c, drawn, rewards, r, i - 1)
  BY <1>1, <1>2 DEF Controls
<1> HIDE DEF p
<1>4. ASSUME NEW i \in 1 .. c.accum
      PROVE  /\ p.groups[i].accum_index = i - 1
             /\ p.groups[i].prompt_index = first + i - 1
             /\ (shard + i - 1) * c.size < Word
             /\ p.groups[i].row_base = (shard + i - 1) * c.size
             /\ ValidGroup(c, p.groups[i])
  <2>1. i - 1 \in 0 .. c.accum - 1 /\ c.accum \in Nat
    BY <1>2 DEF Controls
  <2>2. GroupJob(c, drawn[r][i - 1], rewards[r][i - 1], Vocabulary)
    BY <2>1 DEF WindowJobs
  <2>3. ValidGroup(c, p.groups[i])
    BY <1>3, <2>1, GroupIsValid
  <2>4. /\ p.groups[i].accum_index = i - 1
        /\ p.groups[i].prompt_index = IF c.shared THEN SharedPrompt(c.step, r, i - 1, c.accum, c.world)
                                      ELSE LocalPrompt(c.step, r, i - 1, c.accum, c.world)
        /\ p.groups[i].row_base = RowBase(c.step, r, i - 1, c.accum, c.world, c.size)
    <3> DEFINE g == CollectGroup(c, drawn, rewards, r, i - 1)
               job == drawn[r][i - 1]
               out == Rollout(job)
               moments == GroupMoments(c, rewards, r, i - 1)
    <3>1. IsGroup(c, job, out, rewards[r][i - 1], moments, r, i - 1, g)
      BY <1>2, <2>2, GroupFields
    <3>2. p.groups[i] = g
      BY <1>3
    <3> HIDE DEF g, moments, job, out
    <3> QED BY <3>1, <3>2 DEF IsGroup
  <2>5. Index(c.step, r, i - 1, c.accum, c.world) = shard + i - 1 /\ shard + i - 1 \in Nat
    <3>1. c.step \in Nat /\ c.accum \in Nat /\ c.world \in Nat
      BY <1>2 DEF Controls
    <3>2. c.step * (c.accum * c.world) = c.step * c.accum * c.world /\ c.step * c.accum * c.world \in Nat
      BY <3>1
    <3>3. r * c.accum \in Nat
      BY <1>2, <3>1
    <3> QED BY <2>1, <3>2, <3>3 DEF Index
  <2>6. c.shared => p.groups[i].prompt_index = c.step * c.accum + i - 1
    <3>1. c.step * c.accum \in Nat
      BY <1>2 DEF Controls
    <3> QED BY <2>1, <2>4, <3>1 DEF SharedPrompt
  <2>7. ~c.shared => p.groups[i].prompt_index = shard + i - 1
    BY <2>4, <2>5 DEF LocalPrompt
  <2>8. (shard + i - 1) * c.size < Word /\ (shard + i - 1) * c.size \in Nat
    <3>1. Index(c.step, r, i - 1, c.accum, c.world) * c.size < Word
      BY <2>1 DEF RowsFit
    <3>2. c.size \in Nat
      BY <1>2 DEF Controls
    <3> QED BY <2>5, <3>1, <3>2
  <2>9. p.groups[i].row_base = (shard + i - 1) * c.size
    <3> DEFINE x == (shard + i - 1) * c.size
    <3>1. p.groups[i].row_base = x % Word
      BY <2>4, <2>5 DEF RowBase
    <3> HIDE DEF x
    <3>2. x \in Nat /\ x < Word
      BY <2>8 DEF x
    <3>3. x % Word = x
      BY <3>2
    <3> QED BY <3>1, <3>3 DEF x
  <2> QED BY <2>3, <2>4, <2>6, <2>7, <2>8, <2>9
<1>5. c.accum > 0 /\ c.size > 0 /\ c.width > 0
  BY <1>2 DEF Controls
<1> HIDE DEF shard
<1> QED BY <1>1, <1>2, <1>3, <1>4, <1>5 DEF ValidShard, p, shard

\* What the collectors of a step write is read by whoever has the same controls: every check
\* of a shard, and of the shards of a window together, accepts it, however many ranks, groups
\* and rows there are and whatever was drawn and rewarded, as long as the rows of the run can
\* be counted in a machine word (collect_distributed_step, read_distributed_step).
THEOREM WindowsAreRead ==
  ASSUME NEW c, NEW drawn, NEW rewards, NEW sampler, NEW Vocabulary, WindowJobs(c, drawn, rewards, Vocabulary), NoEos \notin Vocabulary,
         \A stream, k, tokens : Draw(stream, k, tokens) \in Vocabulary, Word \in Nat, RowsFit(c)
  PROVE  Reads(c, Window(c, drawn, rewards, sampler)) /\ Preflight(c, Window(c, drawn, rewards, sampler))
<1> DEFINE Groups(q) == [i \in 1 .. c.accum |-> CollectGroup(c, drawn, rewards, q, i - 1)]
           groups == [q \in RanksOf(c) |-> Groups(q)]
           shards == Window(c, drawn, rewards, sampler)
           total == Total([i \in 1 .. c.world |-> Tokens(groups[i - 1])])
           live == Total([i \in 1 .. c.world |-> LiveItems(c, groups[i - 1])])
<1>0. Controls(c) /\ DOMAIN rewards = RanksOf(c)
  BY DEF WindowJobs
<1>1. \A r \in RanksOf(c) : ValidShard(shards[r])
  BY ShardIsValid
<1>2. DOMAIN shards = RanksOf(c)
  BY DEF Window
<1>3. ASSUME NEW r \in RanksOf(c)
      PROVE  /\ shards[r].rank = r /\ shards[r].controls = c /\ shards[r].groups = groups[r]
             /\ shards[r].window_tokens = (IF total < 1 THEN 1 ELSE total)
             /\ shards[r].live_items = live /\ shards[r].sampler = sampler
  BY DEF Window
<1> HIDE DEF shards
<1>4. \A i \in 1 .. c.world : i - 1 \in RanksOf(c)
  BY <1>0 DEF RanksOf, Controls
<1>5. CountsAgree(c, shards)
  <2>1. \A i \in 1 .. c.world : shards[i - 1].groups = groups[i - 1]
    BY <1>3, <1>4
  <2> HIDE DEF groups
  <2>2. [i \in 1 .. c.world |-> Tokens(shards[i - 1].groups)] = [i \in 1 .. c.world |-> Tokens(groups[i - 1])]
    BY <2>1
  <2>3. [i \in 1 .. c.world |-> LiveItems(c, shards[i - 1].groups)] = [i \in 1 .. c.world |-> LiveItems(c, groups[i - 1])]
    BY <2>1
  <2>4. /\ Total([i \in 1 .. c.world |-> Tokens(shards[i - 1].groups)]) = total
        /\ Total([i \in 1 .. c.world |-> LiveItems(c, shards[i - 1].groups)]) = live
    BY <2>2, <2>3
  <2>5. 0 \in RanksOf(c)
    BY <1>0 DEF RanksOf, Controls
  <2> HIDE DEF total, live
  <2> QED BY <1>3, <2>4, <2>5 DEF CountsAgree
<1>6. ASSUME c.shared, c.world > 1 PROVE GroupsAgree(c, shards)
  <2> SUFFICES ASSUME NEW i \in 1 .. c.accum, NEW r \in RanksOf(c)
               PROVE  /\ shards[r].groups[i].prompt = shards[0].groups[i].prompt
                      /\ shards[r].groups[i].stats
                           = {Moments(InRankOrder(c, [s \in DOMAIN shards |-> shards[s].groups[i].rewards]))}
    BY DEF GroupsAgree
  <2>1. i - 1 \in 0 .. c.accum - 1
    BY <1>0 DEF Controls
  <2>2. ASSUME NEW q \in RanksOf(c)
        PROVE  /\ shards[q].groups[i].prompt = drawn[q][i - 1].prompt
               /\ shards[q].groups[i].rewards = rewards[q][i - 1]
               /\ shards[q].groups[i].stats = {GroupMoments(c, rewards, q, i - 1)}
    <3> DEFINE g == CollectGroup(c, drawn, rewards, q, i - 1)
               job == drawn[q][i - 1]
               out == Rollout(job)
               moments == GroupMoments(c, rewards, q, i - 1)
    <3>1. GroupJob(c, job, rewards[q][i - 1], Vocabulary)
      BY <2>1 DEF WindowJobs
    <3>2. IsGroup(c, job, out, rewards[q][i - 1], moments, q, i - 1, g)
      BY <1>0, <3>1, GroupFields
    <3>3. shards[q].groups[i] = g
      <4>1. shards[q].groups = Groups(q)
        BY <1>3
      <4> QED BY <4>1
    <3> HIDE DEF g, moments, job, out
    <3>4. g.prompt = job.prompt /\ g.rewards = rewards[q][i - 1] /\ g.stats = {moments}
      BY <1>6, <3>2 DEF IsGroup
    <3> QED BY <3>3, <3>4 DEF job, moments
  <2>3. 0 \in RanksOf(c)
    BY <1>0 DEF RanksOf, Controls
  <2>4. drawn[r][i - 1].prompt = drawn[0][i - 1].prompt
    BY <1>6, <2>1 DEF WindowJobs
  <2>5. [s \in DOMAIN shards |-> shards[s].groups[i].rewards] = [s \in DOMAIN rewards |-> rewards[s][i - 1]]
    BY <1>0, <1>2, <2>2
  <2>6. GroupMoments(c, rewards, r, i - 1) = Moments(InRankOrder(c, [s \in DOMAIN shards |-> shards[s].groups[i].rewards]))
    BY <1>6, <2>5 DEF GroupMoments
  <2> QED BY <2>2, <2>3, <2>4, <2>6
<1>7. Together(c, shards)
  BY <1>5, <1>6 DEF Together
<1> QED BY <1>1, <1>2, <1>3, <1>7 DEF Reads, Preflight, shards

\* A group that is read back is to the loss what it was to its collector: the same mask and
\* advantages, and the same rows counted as live, dropped and truncated
\* (train_step_from_rollouts).
THEOREM GroupsAreReadAsCollected ==
  ASSUME NEW c, NEW drawn, NEW rewards, NEW Vocabulary, WindowJobs(c, drawn, rewards, Vocabulary),
         NEW r \in RanksOf(c), NEW j \in 0 .. c.accum - 1
  PROVE  LET g == CollectGroup(c, drawn, rewards, r, j) IN ReadBack(c, g) = Collected(c, drawn[r][j], g)
<1> DEFINE g == CollectGroup(c, drawn, rewards, r, j)
           job == drawn[r][j]
           out == Rollout(job)
           moments == GroupMoments(c, rewards, r, j)
           ends == {a \in DOMAIN g.ids : g.lens[a] = c.width /\ g.ids[a][Len(g.prompt) + g.lens[a]] # c.eos}
<1>1. Controls(c) /\ GroupJob(c, job, rewards[r][j], Vocabulary)
  BY DEF WindowJobs
<1>2. IsGroup(c, job, out, rewards[r][j], moments, r, j, g)
  BY <1>1, GroupFields
<1>3. DOMAIN out.ids = Rows(job) /\ job.eos = c.eos /\ job.limit = c.width
  BY <1>1 DEF Rollout, GroupJob
<1> HIDE DEF g, job, out, moments
<1>4. g.prompt = job.prompt /\ g.ids = out.ids /\ g.lens = out.lens
  BY <1>2 DEF IsGroup
<1>5. ASSUME c.eos # NoEos PROVE ends = Truncated(job, out)
  BY <1>3, <1>4, <1>5 DEF Truncated
<1>6. ASSUME c.eos = NoEos PROVE Truncated(job, out) = {}
  BY <1>3, <1>6 DEF Truncated
<1>7. (IF c.masking /\ c.eos # NoEos THEN Cardinality(ends) ELSE 0)
        = (IF c.masking THEN Cardinality(Truncated(job, out)) ELSE 0)
  BY <1>5, <1>6, FS_EmptySet
<1> DEFINE live == ~\A a \in DOMAIN g.advantages : g.advantages[a] = 0
           truncated == IF c.masking THEN Cardinality(Truncated(job, out)) ELSE 0
           dropped == Cardinality({a \in DOMAIN g.mask : Total(g.mask[a]) = 0})
           found == IF c.masking /\ c.eos # NoEos THEN Cardinality(ends) ELSE 0
<1>8. Live(g) = live
  BY DEF Live
<1>9. Collected(c, job, g) = [mask |-> g.mask, advantages |-> g.advantages, live |-> live, dropped |-> dropped,
                              truncated |-> truncated]
  BY DEF Collected, out
<1>10. ReadBack(c, g) = [mask |-> g.mask, advantages |-> g.advantages, live |-> Live(g), dropped |-> dropped,
                         truncated |-> found]
  BY DEF ReadBack
<1>11. found = truncated
  BY <1>7
<1> HIDE DEF live, dropped, found, truncated
<1>12. ReadBack(c, g) = Collected(c, job, g)
  BY <1>8, <1>9, <1>10, <1>11
<1> QED BY <1>12 DEF g, job

(***************************************************************************)
(* Checkpoints as data.                                                    *)
(***************************************************************************)
\* A state that fits a model with these vars.
FitsModel(s, vars) ==
  /\ s = [vars |-> s.vars, m |-> s.m, v |-> s.v, t |-> s.t, sampler |-> s.sampler, step |-> s.step]
  /\ Stored!Fits(s.vars, vars) /\ Len(s.vars) = Len(vars)
  /\ Stored!Fits(s.m, Stored!Floats(vars)) /\ Stored!Fits(s.v, Stored!Floats(vars))
  /\ Len(s.m) = Len(Stored!Floats(vars))

\* What a writer puts into a package besides the identity.
Payload(s, p) ==
  /\ p.adapter = s.vars /\ p.optimizer = {[m |-> s.m, v |-> s.v]}
  /\ p.manifest.step = s.step /\ p.manifest.num = Len(s.vars) /\ p.manifest.t = {s.t}
  /\ p.manifest.moments = {Len(s.m)} /\ p.manifest.sampler = {s.sampler}

LEMMA PayloadLoads ==
  ASSUME NEW s, NEW vars, NEW p, FitsModel(s, vars), Payload(s, p)
  PROVE  Stored!Prepared(p, vars) /\ Stored!Loaded(p) = s
<1>1. Stored!Prepared(p, vars)
  BY DEF Payload, FitsModel, Stored!Prepared, Stored!OptimizerFits
<1>2. Stored!Loaded(p) = s
  <2> DEFINE o == CHOOSE x \in p.optimizer : TRUE
             t == CHOOSE x \in p.manifest.t : TRUE
             sampler == CHOOSE x \in p.manifest.sampler : TRUE
  <2>1. o = [m |-> s.m, v |-> s.v] /\ t = s.t /\ sampler = s.sampler
    <3>1. o \in p.optimizer /\ t \in p.manifest.t /\ sampler \in p.manifest.sampler
      BY DEF Payload
    <3> HIDE DEF o, t, sampler
    <3> QED BY <3>1 DEF Payload
  <2>2. Stored!Loaded(p) = [vars |-> p.adapter, m |-> o.m, v |-> o.v, t |-> t, sampler |-> sampler,
                            step |-> p.manifest.step]
    BY DEF Stored!Loaded
  <2> HIDE DEF o, t, sampler
  <2>3. Stored!Loaded(p) = [vars |-> s.vars, m |-> s.m, v |-> s.v, t |-> s.t, sampler |-> s.sampler, step |-> s.step]
    BY <2>1, <2>2 DEF Payload
  <2>4. s = [vars |-> s.vars, m |-> s.m, v |-> s.v, t |-> s.t, sampler |-> s.sampler, step |-> s.step]
    BY DEF FitsModel
  <2> HIDE DEF Stored!Loaded
  <2> QED BY <2>3, <2>4, Zenon
<1> QED BY <1>1, <1>2

\* The contents of a package before there is an identity in it.
IsContents(s, recipe, version, p) ==
  /\ Payload(s, p) /\ p.manifest.version = version /\ p.manifest.recipe = recipe
  /\ p.manifest.explicit = TRUE /\ p.manifest.continuation = {} /\ p.manifest.ordinary = {}
  /\ DOMAIN p = {"adapter", "optimizer", "manifest"}
  /\ DOMAIN p.manifest = {"version", "step", "num", "t", "moments", "sampler", "recipe", "explicit",
                          "continuation", "ordinary"}

LEMMA ContentsPayload ==
  ASSUME NEW s, NEW recipe, NEW version
  PROVE  IsContents(s, recipe, version, Stored!Contents(s, recipe, version))
BY DEF IsContents, Payload, Stored!Contents, Stored!AdapterManifest, Stored!Moments

\* An ordinary checkpoint is restored, as it was saved, by a run with the same frozen policy,
\* configuration and recipe; by nobody else, and not as a continuation
\* (save_ordinary_checkpoint, load_ordinary_checkpoint).
THEOREM OrdinaryIsRestored ==
  ASSUME NEW s, NEW vars, FitsModel(s, vars), NEW binding, NEW other, NEW name, NEW learner
  PROVE  LET p == Stored!WriteOrdinary(s, binding) IN
         /\ Stored!Loaded(p) = s
         /\ Stored!OrdinaryLoads(p, vars, other) <=>
              other.frozen = binding.frozen /\ other.config = binding.config /\ other.recipe = binding.recipe
         /\ ~Stored!ContinuationRestores(p, name, vars, learner) /\ ~Stored!AdapterLoads(p, vars)
<1> DEFINE c == Stored!Contents(s, binding.recipe, 4)
           bare == Stored!Identity(s, binding)
           identity == [bare EXCEPT !.envelope = Stored!Envelope(c.manifest, bare)]
           p == [c EXCEPT !.manifest.ordinary = {identity}]
<1>0. Stored!WriteOrdinary(s, binding) = p
  BY DEF Stored!WriteOrdinary
<1>1. /\ Payload(s, c) /\ c.manifest.version = 4 /\ c.manifest.recipe = binding.recipe
      /\ c.manifest.explicit = TRUE /\ c.manifest.continuation = {} /\ c.manifest.ordinary = {}
      /\ DOMAIN c = {"adapter", "optimizer", "manifest"}
      /\ DOMAIN c.manifest = {"version", "step", "num", "t", "moments", "sampler", "recipe", "explicit",
                              "continuation", "ordinary"}
  <2>1. IsContents(s, binding.recipe, 4, c)
    BY ContentsPayload
  <2> HIDE DEF c
  <2> QED BY <2>1 DEF IsContents
<1> HIDE DEF c
<1>2. /\ bare.kind = "ordinary" /\ bare.frozen = binding.frozen /\ bare.config = binding.config
      /\ bare.schema = Stored!Schema(s.vars, binding.recipe) /\ bare.adapter = Stored!AdapterOf(s.vars)
      /\ bare.optimizer = Stored!OptimizerOf(s.t, [m |-> s.m, v |-> s.v])
      /\ bare.sampler = Stored!SamplerOf(s.sampler) /\ bare.envelope = <<>>
  BY DEF Stored!Identity, Stored!Moments
<1>3. [identity EXCEPT !.envelope = <<>>] = bare
  <2>1. ASSUME NEW a, NEW b, NEW d, NEW e, NEW f, NEW g, NEW x, NEW y, NEW z
        PROVE  [[kind |-> "ordinary", frozen |-> a, config |-> b, schema |-> d, adapter |-> e, optimizer |-> f,
                 sampler |-> g, envelope |-> x] EXCEPT !.envelope = y]
                 = [kind |-> "ordinary", frozen |-> a, config |-> b, schema |-> d, adapter |-> e, optimizer |-> f,
                    sampler |-> g, envelope |-> y]
    OBVIOUS
  <2> DEFINE With(y) == [kind |-> "ordinary", frozen |-> binding.frozen, config |-> binding.config,
                         schema |-> bare.schema, adapter |-> bare.adapter, optimizer |-> bare.optimizer,
                         sampler |-> bare.sampler, envelope |-> y]
             E == Stored!Envelope(c.manifest, bare)
  <2>2. bare = With(<<>>)
    BY DEF Stored!Identity
  <2> HIDE DEF bare, E
  <2>3. identity = With(E)
    <3>1. identity = [bare EXCEPT !.envelope = E]
      BY DEF E
    <3>2. [With(<<>>) EXCEPT !.envelope = E] = With(E)
      BY <2>1
    <3> HIDE DEF identity, With
    <3> QED BY <2>2, <3>1, <3>2
  <2>4. [With(E) EXCEPT !.envelope = <<>>] = With(<<>>)
    BY <2>1
  <2> HIDE DEF identity, With
  <2> QED BY <2>2, <2>3, <2>4
<1>4. /\ identity.kind = "ordinary" /\ identity.frozen = binding.frozen /\ identity.config = binding.config
      /\ identity.schema = Stored!Schema(s.vars, binding.recipe) /\ identity.adapter = Stored!AdapterOf(s.vars)
      /\ identity.optimizer = Stored!OptimizerOf(s.t, [m |-> s.m, v |-> s.v])
      /\ identity.sampler = Stored!SamplerOf(s.sampler)
      /\ identity.envelope = Stored!Envelope(c.manifest, bare)
  BY DEF Stored!Identity, Stored!Moments
<1> HIDE DEF bare, identity
<1>5. /\ Payload(s, p) /\ p.manifest.version = 4 /\ p.manifest.recipe = binding.recipe
      /\ p.manifest.explicit = TRUE /\ p.manifest.continuation = {} /\ p.manifest.ordinary = {identity}
  BY <1>1 DEF Payload
<1> HIDE DEF p
<1>6. identity.envelope = Stored!Envelope(p.manifest, identity)
  BY <1>1, <1>3, <1>4, <1>5 DEF Stored!Envelope, Payload
<1>7. Stored!Readable(p.manifest)
  <2> DEFINE m == p.manifest
  <2>1. /\ m.t # {} /\ m.moments # {} /\ m.sampler # {} /\ m.version = 4 /\ m.continuation = {}
        /\ m.ordinary = {identity} /\ m.explicit = TRUE
    BY <1>5 DEF Payload
  <2>2. identity.kind = "ordinary" /\ identity.envelope = Stored!Envelope(m, identity)
    BY <1>4, <1>6
  <2> HIDE DEF m
  <2> QED BY <2>1, <2>2 DEF Stored!Readable, Stored!FieldMatrix, m
<1>8. Stored!Prepared(p, vars) /\ Stored!Loaded(p) = s
  BY <1>5, PayloadLoads
<1>9. Stored!Schema(vars, other.recipe) = Stored!Schema(s.vars, binding.recipe) <=> other.recipe = binding.recipe
  <2>1. [i \in DOMAIN vars |-> Stored!Form(vars[i])] = [i \in DOMAIN s.vars |-> Stored!Form(s.vars[i])]
    BY DEF FitsModel, Stored!Fits
  <2> QED BY <2>1 DEF Stored!Schema, Stored!Sha
<1>10. Stored!OrdinaryLoads(p, vars, other) <=>
         other.frozen = binding.frozen /\ other.config = binding.config /\ other.recipe = binding.recipe
  BY <1>4, <1>5, <1>7, <1>8, <1>9 DEF Stored!OrdinaryLoads, Payload
<1>11. ~Stored!ContinuationRestores(p, name, vars, learner) /\ ~Stored!AdapterLoads(p, vars)
  BY <1>5 DEF Stored!ContinuationRestores, Stored!ContinuationLoads, Stored!AdapterLoads
<1> QED BY <1>0, <1>8, <1>10, <1>11

\* The identity in a manifest binds all that a checkpoint restores: an ordinary package that is
\* accepted under an identity which a save has written restores the state of that save, so
\* neither a file of another save nor a changed field of the manifest gets through
\* (load_ordinary_checkpoint).
THEOREM IdentityBindsTheState ==
  ASSUME NEW s, NEW vars, NEW then, FitsModel(s, then), NEW binding, NEW p, NEW o, p.optimizer = {o},
         o = [m |-> o.m, v |-> o.v], \A x, y \in p.manifest.sampler : x = y,
         Stored!OrdinaryLoads(p, vars, binding),
         p.manifest.ordinary = Stored!WriteOrdinary(s, binding).manifest.ordinary
  PROVE  Stored!Loaded(p) = s
<1> DEFINE c == Stored!Contents(s, binding.recipe, 4)
           bare == Stored!Identity(s, binding)
           identity == [bare EXCEPT !.envelope = Stored!Envelope(c.manifest, bare)]
           m == p.manifest
<1>1. m.ordinary = {identity}
  <2>1. Stored!WriteOrdinary(s, binding) = [c EXCEPT !.manifest.ordinary = {identity}]
    BY DEF Stored!WriteOrdinary
  <2>2. /\ DOMAIN c = {"adapter", "optimizer", "manifest"}
        /\ DOMAIN c.manifest = {"version", "step", "num", "t", "moments", "sampler", "recipe", "explicit",
                                "continuation", "ordinary"}
    <3>1. IsContents(s, binding.recipe, 4, c)
      BY ContentsPayload
    <3> HIDE DEF c
    <3> QED BY <3>1 DEF IsContents
  <2> HIDE DEF c, identity
  <2>3. [c EXCEPT !.manifest.ordinary = {identity}].manifest.ordinary = {identity}
    BY <2>2
  <2> QED BY <2>1, <2>3
<1>2. /\ identity.adapter = Stored!AdapterOf(s.vars)
      /\ identity.optimizer = Stored!OptimizerOf(s.t, [m |-> s.m, v |-> s.v])
      /\ identity.sampler = Stored!SamplerOf(s.sampler)
      /\ identity.envelope = Stored!Envelope(c.manifest, bare)
  BY DEF Stored!Identity, Stored!Moments
<1>3. Payload(s, c)
  <2>1. IsContents(s, binding.recipe, 4, c)
    BY ContentsPayload
  <2> HIDE DEF c
  <2> QED BY <2>1 DEF IsContents
<1> HIDE DEF c, bare, identity, m
<1>4. /\ Stored!Readable(m) /\ m.version = 4 /\ identity.adapter = Stored!AdapterOf(p.adapter)
      /\ \E t \in m.t : identity.optimizer = Stored!OptimizerOf(t, o)
      /\ \A sampler \in m.sampler : identity.sampler = Stored!SamplerOf(sampler)
  BY <1>1 DEF Stored!OrdinaryLoads, m
<1>5. m.sampler # {} /\ identity.envelope = Stored!Envelope(m, identity)
  BY <1>1, <1>4 DEF Stored!Readable, Stored!FieldMatrix
<1>6. m.step = s.step /\ m.t = {s.t}
  BY <1>2, <1>3, <1>5 DEF Stored!Envelope, Stored!Sha, Payload
<1>7. p.adapter = s.vars
  BY <1>2, <1>4 DEF Stored!AdapterOf, Stored!Sha
<1>8. o = [m |-> s.m, v |-> s.v]
  BY <1>2, <1>4 DEF Stored!OptimizerOf, Stored!Sha
<1>9. m.sampler = {s.sampler}
  <2>1. \A x \in m.sampler : x = s.sampler
    BY <1>2, <1>4 DEF Stored!SamplerOf, Stored!Sha
  <2> QED BY <1>5, <2>1
<1>10. Stored!Loaded(p) = s
  <2> DEFINE x == CHOOSE y \in p.optimizer : TRUE
             t == CHOOSE y \in p.manifest.t : TRUE
             sampler == CHOOSE y \in p.manifest.sampler : TRUE
  <2>1. x = o /\ t = s.t /\ sampler = s.sampler
    <3>1. x \in p.optimizer /\ t \in p.manifest.t /\ sampler \in p.manifest.sampler
      BY <1>6, <1>9 DEF m
    <3> HIDE DEF x, t, sampler
    <3> QED BY <3>1, <1>6, <1>9 DEF m
  <2>2. Stored!Loaded(p) = [vars |-> p.adapter, m |-> x.m, v |-> x.v, t |-> t, sampler |-> sampler,
                            step |-> p.manifest.step]
    BY DEF Stored!Loaded
  <2> HIDE DEF x, t, sampler
  <2>3. Stored!Loaded(p) = [vars |-> s.vars, m |-> s.m, v |-> s.v, t |-> s.t, sampler |-> s.sampler, step |-> s.step]
    BY <1>6, <1>7, <1>8, <2>1, <2>2 DEF m
  <2>4. s = [vars |-> s.vars, m |-> s.m, v |-> s.v, t |-> s.t, sampler |-> s.sampler, step |-> s.step]
    BY DEF FitsModel
  <2> HIDE DEF Stored!Loaded
  <2> QED BY <2>3, <2>4, Zenon
<1> QED BY <1>10
\* What a continuation says of the state and of its world.
IsContinuationOf(s, learner, parent, consumed, c) ==
  /\ c.format = 3 /\ c.kind = "rollout_ledger" /\ c.world = {learner.world} /\ c.tp = {learner.tp}
  /\ c.layout = {Layout} /\ c.completed = s.step /\ c.policy = learner.frozen
  /\ c.config = Stored!Config(learner) /\ c.schema = Stored!Schema(s.vars, learner.recipe)
  /\ c.adapter = Stored!AdapterOf(s.vars) /\ c.optimizer = Stored!OptimizerOf(s.t, Stored!Moments(s))
  /\ c.sampler = Stored!SamplerOf(s.sampler) /\ c.parent = parent /\ c.consumed = consumed
  /\ c.lineage = Stored!Lineage(parent, consumed)
IsContinuationPackage(s, learner, parent, consumed, p) ==
  /\ Payload(s, p) /\ p.manifest.version = 3 /\ p.manifest.recipe = learner.recipe
  /\ p.manifest.ordinary = {}
  /\ \E c : IsContinuationOf(s, learner, parent, consumed, c) /\ p.manifest.continuation = {c}

LEMMA ContinuationContents ==
  ASSUME NEW s, NEW learner, NEW parent, NEW consumed
  PROVE  IsContinuationPackage(s, learner, parent, consumed,
                               Stored!WriteContinuation(s, learner, parent, consumed))
<1> DEFINE b == Stored!Contents(s, learner.recipe, 3)
           c == [format |-> 3, kind |-> "rollout_ledger", world |-> {learner.world}, tp |-> {learner.tp},
                 layout |-> {Layout}, completed |-> s.step, policy |-> learner.frozen,
                 config |-> Stored!Config(learner), schema |-> Stored!Schema(s.vars, learner.recipe),
                 adapter |-> Stored!AdapterOf(s.vars),
                 optimizer |-> Stored!OptimizerOf(s.t, Stored!Moments(s)),
                 sampler |-> Stored!SamplerOf(s.sampler), parent |-> parent, consumed |-> consumed,
                 lineage |-> Stored!Lineage(parent, consumed)]
           p == [b EXCEPT !.manifest.continuation = {c}]
<1>1. Stored!WriteContinuation(s, learner, parent, consumed) = p
  BY DEF Stored!WriteContinuation
<1>2. IsContents(s, learner.recipe, 3, b)
  BY ContentsPayload
<1>3. IsContinuationOf(s, learner, parent, consumed, c)
  BY DEF IsContinuationOf
<1> HIDE DEF b, c
<1>4. /\ Payload(s, p) /\ p.manifest.version = 3 /\ p.manifest.recipe = learner.recipe
      /\ p.manifest.ordinary = {} /\ p.manifest.continuation = {c}
  BY <1>2 DEF IsContents, Payload
<1> HIDE DEF p
<1> QED BY <1>1, <1>3, <1>4 DEF IsContinuationPackage

\* A continuation is restored, as it was saved, under the name of its own step, by a learner of the
\* same world with the same frozen policy, configuration and recipe that has not fewer steps; by
\* nobody else, and not as an ordinary checkpoint (save_rollout_ledger_continuation,
\* restore_rollout_ledger_continuation).
THEOREM ContinuationIsRestored ==
  ASSUME NEW s, NEW vars, FitsModel(s, vars), NEW learner, learner.world # 0, learner.tp # 0,
         NEW parent, NEW consumed, NEW other, NEW name, NEW binding
  PROVE  LET p == Stored!WriteContinuation(s, learner, parent, consumed) IN
         /\ Stored!Loaded(p) = s
         /\ Stored!ContinuationRestores(p, name, vars, other) <=>
              /\ name = s.step /\ s.step \in 1..other.steps
              /\ other.world = learner.world /\ other.tp = learner.tp
              /\ other.frozen = learner.frozen /\ other.config = learner.config
              /\ other.recipe = learner.recipe
         /\ ~Stored!OrdinaryLoads(p, vars, binding) /\ ~Stored!AdapterLoads(p, vars)
<1> DEFINE p == Stored!WriteContinuation(s, learner, parent, consumed)
           m == p.manifest
<1>0. IsContinuationPackage(s, learner, parent, consumed, p)
  BY ContinuationContents
<1> HIDE DEF p
<1>1. PICK c : IsContinuationOf(s, learner, parent, consumed, c) /\ m.continuation = {c}
  BY <1>0 DEF IsContinuationPackage
<1>2. Payload(s, p) /\ m.version = 3 /\ m.recipe = learner.recipe /\ m.ordinary = {}
  BY <1>0 DEF IsContinuationPackage
<1>3. Stored!Prepared(p, vars) /\ Stored!Loaded(p) = s
  BY <1>2, PayloadLoads
<1>4. /\ m.t # {} /\ m.moments # {} /\ m.sampler # {} /\ m.step = s.step
  BY <1>2 DEF Payload
<1> HIDE DEF m
<1>5. Stored!Readable(m)
  BY <1>1, <1>2, <1>4 DEF Stored!Readable, Stored!FieldMatrix
<1>6. Stored!Schema(vars, other.recipe) = Stored!Schema(s.vars, learner.recipe) <=> other.recipe = learner.recipe
  <2>1. [i \in DOMAIN vars |-> Stored!Form(vars[i])] = [i \in DOMAIN s.vars |-> Stored!Form(s.vars[i])]
    BY DEF FitsModel, Stored!Fits
  <2> QED BY <2>1 DEF Stored!Schema, Stored!Sha
<1>7. Stored!Topology(c) = {<<learner.world, learner.tp, Layout>>}
  <2>1. /\ c.format = 3 /\ c.world = {learner.world} /\ c.tp = {learner.tp} /\ c.layout = {Layout}
    BY <1>1 DEF IsContinuationOf
  <2>2. c.world \ {0} # {} /\ c.tp \ {0} # {}
    BY <2>1
  <2>3. Stored!Topology(c) = c.world \X c.tp \X c.layout
    BY <2>1, <2>2 DEF Stored!Topology
  <2> QED BY <2>1, <2>3
<1>8. Stored!Config(learner) = Stored!Config(other) <=>
        other.config = learner.config /\ other.world = learner.world /\ other.tp = learner.tp
  BY DEF Stored!Config, Stored!Sha
<1>9. Stored!ContinuationBinds(p, name, vars, other) <=>
        /\ name = s.step /\ other.world = learner.world /\ other.tp = learner.tp
        /\ other.frozen = learner.frozen /\ other.config = learner.config
        /\ other.recipe = learner.recipe
  <2>1. Stored!ContinuationBinds(p, name, vars, other) <=>
          /\ m.recipe = other.recipe /\ m.step = name
          /\ c.kind = "rollout_ledger" /\ Stored!Topology(c) = {<<other.world, other.tp, Layout>>}
          /\ c.completed = m.step /\ c.policy = other.frozen /\ c.lineage = Stored!Lineage(c.parent, c.consumed)
          /\ c.config = Stored!Config(other) /\ c.schema = Stored!Schema(vars, other.recipe)
    BY <1>1, <1>5 DEF Stored!ContinuationBinds, m
  <2> QED BY <2>1, <1>1, <1>2, <1>4, <1>6, <1>7, <1>8 DEF IsContinuationOf
<1>10. Stored!ContinuationLoads(p, vars)
  BY <1>1, <1>2, <1>3, <1>5 DEF Stored!ContinuationLoads, m
<1>11. \A x \in m.continuation :
         /\ x.adapter = Stored!AdapterOf(s.vars) /\ x.optimizer = Stored!OptimizerOf(s.t, Stored!Moments(s))
         /\ x.sampler = Stored!SamplerOf(s.sampler)
  BY <1>1 DEF IsContinuationOf
<1>12. Stored!ContinuationRestores(p, name, vars, other) <=>
         Stored!ContinuationBinds(p, name, vars, other) /\ s.step \in 1..other.steps
  BY <1>3, <1>4, <1>10, <1>11 DEF Stored!ContinuationRestores, m
<1>13. ~Stored!OrdinaryLoads(p, vars, binding) /\ ~Stored!AdapterLoads(p, vars)
  BY <1>2 DEF Stored!OrdinaryLoads, Stored!AdapterLoads, m
<1> QED BY <1>3, <1>9, <1>12, <1>13 DEF p

\* A continuation binds all that it restores: a package that is restored under the continuation
\* that a save has written puts a rank into the state of that save, whatever else has happened to
\* the files of the package (restore_rollout_ledger_continuation).
THEOREM ContinuationBindsTheState ==
  ASSUME NEW s, NEW then, FitsModel(s, then), NEW learner, NEW parent, NEW consumed, NEW p, NEW name,
         NEW vars, NEW other, Stored!ContinuationRestores(p, name, vars, other),
         p.manifest.continuation = Stored!WriteContinuation(s, learner, parent, consumed).manifest.continuation
  PROVE  Stored!Loaded(p) = s
<1>1. PICK c : IsContinuationOf(s, learner, parent, consumed, c) /\ p.manifest.continuation = {c}
  BY ContinuationContents DEF IsContinuationPackage
<1> DEFINE o == CHOOSE x \in p.optimizer : TRUE
           t == CHOOSE x \in p.manifest.t : TRUE
           sampler == CHOOSE x \in p.manifest.sampler : TRUE
           r == Stored!Loaded(p)
<1>2. r = [vars |-> p.adapter, m |-> o.m, v |-> o.v, t |-> t, sampler |-> sampler, step |-> p.manifest.step]
  BY DEF Stored!Loaded
<1> HIDE DEF o, t, sampler, r
<1>3. /\ c.adapter = Stored!AdapterOf(r.vars) /\ c.optimizer = Stored!OptimizerOf(r.t, Stored!Moments(r))
      /\ c.sampler = Stored!SamplerOf(r.sampler)
  BY <1>1 DEF Stored!ContinuationRestores, r
<1>4. c.completed = p.manifest.step
  BY <1>1 DEF Stored!ContinuationRestores, Stored!ContinuationBinds
<1>5. r.step = s.step
  BY <1>1, <1>2, <1>4 DEF IsContinuationOf
<1>6. r.vars = s.vars
  BY <1>1, <1>3 DEF IsContinuationOf, Stored!AdapterOf, Stored!Sha
<1>7. r.t = s.t /\ r.m = s.m /\ r.v = s.v
  <2>1. r.t = s.t /\ Stored!Moments(r) = Stored!Moments(s)
    BY <1>1, <1>3 DEF IsContinuationOf, Stored!OptimizerOf, Stored!Sha
  <2> QED BY <2>1 DEF Stored!Moments
<1>8. r.sampler = s.sampler
  BY <1>1, <1>3 DEF IsContinuationOf, Stored!SamplerOf, Stored!Sha
<1>9. r = [vars |-> s.vars, m |-> s.m, v |-> s.v, t |-> s.t, sampler |-> s.sampler, step |-> s.step]
  BY <1>2, <1>5, <1>6, <1>7, <1>8
<1>10. s = [vars |-> s.vars, m |-> s.m, v |-> s.v, t |-> s.t, sampler |-> s.sampler, step |-> s.step]
  BY DEF FitsModel
<1> QED BY <1>9, <1>10, Zenon DEF r

(***************************************************************************)
(* The evidence of an audit.                                               *)
(***************************************************************************)
\* What a published manifest has of its request and of its measurements.
IsManifestOf(m, r, results, blocks) ==
  /\ Bound(r) /\ AuditHolds(results, r)
  /\ blocks = [i \in 1 .. Blocks |-> Block(results, i - 1, r)]
  /\ m.launch = r.launch.sha /\ m.candidate = r.candidate.record /\ m.source = r.submission
  /\ m.inspection = r.inspection /\ m.trainingSeed = r.config.seed /\ m.assets = r.verifier.assets
  /\ m.tests = r.tests /\ m.benches = r.benches /\ m.contract = r.identity.contract
  /\ m.seed = r.identity.seed /\ m.id = r.identity.id /\ m.isolation = r.verifier.isolation
  /\ m.isolationSha = r.verifier.isolationSha /\ m.metric = r.verifier.metric
  /\ m.preflight = r.verifier.preflight /\ m.device = blocks[1].reference.device
  /\ m.blocks = blocks /\ m.decision = Decision(blocks)
  /\ m.accepted <=> Decision(blocks).accepted /\ r.inspection = "clean"

LEMMA ManifestFields ==
  ASSUME NEW r, NEW results, NEW m \in Published(r, results)
  PROVE  \E blocks : IsManifestOf(m, r, results, blocks)
<1> DEFINE blocks == [i \in 1 .. Blocks |-> Block(results, i - 1, r)]
<1>1. Bound(r) /\ AuditHolds(results, r) /\ m = BundleManifest(r, blocks)
  BY DEF Published
<1>2. blocks = [i \in 1 .. Blocks |-> Block(results, i - 1, r)]
  OBVIOUS
<1> HIDE DEF blocks
<1>3. IsManifestOf(m, r, results, blocks)
  BY <1>1, <1>2 DEF IsManifestOf, BundleManifest
<1> QED BY <1>3

\* The seed of an audit is not the one of the training, which the candidate may have been fitted to
\* (artifact_secret_seed).
LEMMA SeedIsSecret ==
  ASSUME NEW contract, NEW seed, Prefix(contract) \in Int
  PROVE  SecretSeed(contract, seed) # seed
BY DEF SecretSeed

\* Who ran as what in a block, whichever of them was the first.
IsBlock(b, i, r, reference, candidate) ==
  /\ b.index = i /\ b.first = Starts(r.identity.id, i) /\ b.reference = Execution("reference", i, reference, r)
  /\ b.candidate = Execution("candidate", i, candidate, r)
  /\ b.speedup = Speedup("reference", b.reference.time, b.candidate.time)
  /\ b.win <=> b.speedup > Material

LEMMA BlockIsFair ==
  ASSUME NEW r, NEW results, DOMAIN results = 1 .. 2 * Blocks, NEW i \in 0 .. Blocks - 1
  PROVE  \E x, y \in DOMAIN results :
           x # y /\ IsBlock(Block(results, i, r), i, r, results[x], results[y])
<1> DEFINE first == Starts(r.identity.id, i)
           x == IF first = "reference" THEN 2 * i + 1 ELSE 2 * i + 2
           y == IF first = "reference" THEN 2 * i + 2 ELSE 2 * i + 1
           b == Block(results, i, r)
<1>1. x \in DOMAIN results /\ y \in DOMAIN results /\ x # y
  BY DEF Blocks
<1>2. /\ b.index = i /\ b.first = first /\ b.reference = Execution("reference", i, results[x], r)
      /\ b.candidate = Execution("candidate", i, results[y], r)
      /\ b.speedup = Speedup(first, TimeOf(results[2 * i + 1], r), TimeOf(results[2 * i + 2], r))
      /\ b.win <=> b.speedup > Material
  BY DEF Block
<1>3. b.reference.time = TimeOf(results[x], r) /\ b.candidate.time = TimeOf(results[y], r)
  <2> HIDE DEF b, x, y
  <2> QED BY <1>2 DEF Execution
<1>4. b.speedup = Speedup("reference", b.reference.time, b.candidate.time)
  <2>1. CASE first = "reference"
    BY <1>2, <1>3, <2>1
  <2>2. CASE first # "reference"
    <3> HIDE DEF b
    <3> QED BY <1>2, <1>3, <2>2 DEF Speedup
  <2> QED BY <2>1, <2>2
<1>5. IsBlock(b, i, r, results[x], results[y])
  <2> HIDE DEF b, x, y
  <2> QED BY <1>2, <1>4 DEF IsBlock
<1> HIDE DEF b, x, y
<1> QED BY <1>1, <1>5 DEF b

\* Whatever an audit publishes stands up to all that its reader checks, but for the inspection,
\* which the verdict reports: the audit was of the source of the row that the launch has signed, and of
\* all blocks as the schedule has them, whichever program went first; and its cases are not
\* those of the training (publish_artifact_bundle, validate_manifest).
THEOREM PublishedStandsUp ==
  ASSUME NEW r, NEW results, DOMAIN results = 1 .. 2 * Blocks, Prefix(r.identity.contract) \in Int,
         r.tests \in Nat, r.benches \in Nat, NEW m \in Published(r, results)
  PROVE  /\ m.source = m.candidate.source /\ m.launch = m.candidate.launch
         /\ Checks(m).seed /\ Checks(m).cases /\ Checks(m).identity /\ Checks(m).verifier /\ Checks(m).pairs
         /\ Checks(m).executions /\ Checks(m).decision /\ Checks(m).verdict
<1>1. PICK blocks : IsManifestOf(m, r, results, blocks)
  BY ManifestFields
<1>2. m.source = m.candidate.source /\ m.launch = m.candidate.launch
  BY <1>1 DEF IsManifestOf, Bound, SignedProvenance, RecordSha
<1>3. /\ m.contract = Contract(m.launch, m.candidate, m.source, m.assets)
      /\ m.seed = SecretSeed(m.contract, m.trainingSeed) /\ m.id = AuditId(m.contract, m.seed)
  BY <1>1 DEF IsManifestOf, Bound, AuditIdentity
<1>4. m.seed # m.trainingSeed
  BY <1>1, <1>3, SeedIsSecret DEF IsManifestOf
<1>5. m.tests > 0 /\ m.benches > 0
  BY <1>1 DEF IsManifestOf, Bound
<1>6. Consistent(r.verifier)
  BY <1>1 DEF IsManifestOf, Bound
<1>7. /\ DOMAIN m.blocks = 1 .. Blocks /\ Len(m.blocks) = Blocks
      /\ \A i \in 1 .. Blocks : m.blocks[i] = Block(results, i - 1, r)
  BY <1>1 DEF IsManifestOf, Blocks
<1>8. ASSUME NEW i \in 1 .. Blocks
      PROVE  \E x, y \in DOMAIN results : x # y /\ IsBlock(m.blocks[i], i - 1, r, results[x], results[y])
  <2> DEFINE k == i - 1
  <2>1. k \in 0 .. Blocks - 1 /\ m.blocks[i] = Block(results, k, r)
    BY <1>7 DEF Blocks
  <2> HIDE DEF k
  <2>2. \E x, y \in DOMAIN results :
          x # y /\ IsBlock(Block(results, k, r), k, r, results[x], results[y])
    BY <2>1, BlockIsFair
  <2> QED BY <2>1, <2>2 DEF k
<1>9. PICK z \in DOMAIN results : m.device = DeviceOf(results[z])
  <2>1. 1 \in 1 .. Blocks
    BY DEF Blocks
  <2>2. PICK x, y \in DOMAIN results : IsBlock(m.blocks[1], 0, r, results[x], results[y])
    <3>1. 1 - 1 = 0
      OBVIOUS
    <3> QED BY <1>8, <2>1, <3>1
  <2>3. m.device = m.blocks[1].reference.device
    BY <1>1 DEF IsManifestOf
  <2>4. m.blocks[1].reference = Execution("reference", 0, results[x], r)
    BY <2>2 DEF IsBlock
  <2>5. Execution("reference", 0, results[x], r).device = DeviceOf(results[x])
    BY DEF Execution
  <2> QED BY <2>3, <2>4, <2>5
<1>10. ASSUME NEW x \in DOMAIN results, NEW role, NEW block,
              NEW e, e = Execution(role, block.index, results[x], r)
       PROVE  e.role = role /\ ExecutionChecks(e, block, m)
  <2>1. ExecutionHolds(results[x], r) /\ DeviceOf(results[x]) = m.device
    BY <1>1, <1>9 DEF IsManifestOf, AuditHolds
  <2>2. /\ results[x].isolation = m.isolation /\ Hardening(results[x]) = {{m.preflight.hardening[1]}}
    BY <1>1, <2>1 DEF IsManifestOf, ExecutionHolds
  <2>3. e.metric = m.metric
    BY <1>1, <1>6, <1>10, <2>2 DEF IsManifestOf, Consistent, Execution
  <2>4. m.tests = r.tests /\ m.benches = r.benches
    BY <1>1 DEF IsManifestOf
  <2> QED BY <1>10, <2>1, <2>2, <2>3, <2>4 DEF Execution, ExecutionChecks
<1>11. ASSUME NEW i \in 1 .. Blocks PROVE BlockChecks(m.blocks[i], m)
  <2>1. PICK x, y \in DOMAIN results : IsBlock(m.blocks[i], i - 1, r, results[x], results[y])
    BY <1>8
  <2>2. m.blocks[i].reference.role = "reference" /\ ExecutionChecks(m.blocks[i].reference, m.blocks[i], m)
    <3>1. m.blocks[i].reference = Execution("reference", m.blocks[i].index, results[x], r)
      BY <2>1 DEF IsBlock
    <3> QED BY <1>10, <3>1
  <2>3. m.blocks[i].candidate.role = "candidate" /\ ExecutionChecks(m.blocks[i].candidate, m.blocks[i], m)
    <3>1. m.blocks[i].candidate = Execution("candidate", m.blocks[i].index, results[y], r)
      BY <2>1 DEF IsBlock
    <3> QED BY <1>10, <3>1
  <2> QED BY <2>1, <2>2, <2>3 DEF BlockChecks, IsBlock
<1>12. \A i \in 1 .. Blocks : m.blocks[i].index = i - 1 /\ m.blocks[i].first = Starts(m.id, i - 1)
  BY <1>1, <1>8 DEF IsBlock, IsManifestOf
<1>13. m.decision = Decision(m.blocks) /\ m.decision.blocks = Blocks
  <2>1. m.decision = Decision(m.blocks)
    BY <1>1 DEF IsManifestOf
  <2>2. Decision(m.blocks).blocks = Len(m.blocks)
    BY DEF Decision
  <2> QED BY <1>7, <2>1, <2>2
<1>14. m.accepted <=> m.decision.accepted /\ m.inspection = "clean"
  BY <1>1 DEF IsManifestOf
<1>15. /\ <<m.isolation.tier, m.isolation.boundary>> \in Boundaries
       /\ m.isolation.requester # 0 /\ m.isolation.launcher # 0 /\ m.isolationSha = m.isolation
       /\ m.preflight.isolationSha = m.isolationSha /\ Len(m.preflight.hardening) = 1
  BY <1>1, <1>6 DEF IsManifestOf, Consistent, ProvesItsTier
<1>16. Checks(m).verifier
  <2>1. m.isolation = r.verifier.isolation /\ m.metric = r.verifier.metric
    BY <1>1 DEF IsManifestOf
  <2> QED BY <1>6, <1>15, <2>1 DEF Checks, Consistent
<1> QED BY <1>2, <1>3, <1>4, <1>5, <1>7, <1>11, <1>12, <1>13, <1>14, <1>16 DEF Checks

(***************************************************************************)
(* The checkpoints of a directory.                                         *)
(***************************************************************************)
LEMMA GreatestElement ==
  ASSUME NEW N \in Nat, NEW S, S \subseteq 0 .. N, S # {}
  PROVE  \E i \in S : \A j \in S : j <= i
<1> DEFINE T == {N - i : i \in S}
<1>1. T \subseteq Nat /\ T # {}
  <2>1. \A i \in S : N - i \in Nat
    OBVIOUS
  <2> QED BY <2>1
<1> HIDE DEF T
<1>2. PICK k \in T : \A j \in T : k <= j
  BY <1>1, LeastElement
<1>3. PICK i \in S : k = N - i
  BY <1>2 DEF T
<1>4. ASSUME NEW j \in S PROVE j <= i
  <2>1. N - j \in T
    BY DEF T
  <2>2. k <= N - j
    BY <1>2, <2>1
  <2> QED BY <1>3, <2>2
<1> QED BY <1>3, <1>4

\* A resume that finds a checkpoint, or finds none, has passed over no newer one, and no name that
\* might have been one: whatever has a greater number is an adapter or a continuation, or has been
\* put aside from such a name; and what it finds is of the step that it is named for
\* (latest_checkpoint).
THEOREM NoStepIsReplayed ==
  ASSUME NEW N \in Nat, NEW listing, \A e \in listing : e.step \in 0 .. N,
         NEW latest, latest = Stored!LatestCheckpoint(listing), ~latest.error
  PROVE  /\ \A n, k \in latest.step : n = k
         /\ \A n \in latest.step : \E e \in listing : \E m \in e.manifest :
              /\ ~e.aside /\ e.dir /\ e.step = n
              /\ Stored!Readable(m) /\ m.version = 4 /\ m.step = n
         /\ \A e \in listing : (\A n \in latest.step : e.step > n) =>
              IF e.aside THEN \E f \in listing : ~f.aside /\ f.step = e.step
              ELSE \E m \in e.manifest :
                     /\ Stored!Readable(m)
                     /\ \/ m.version = 1
                        \/ m.version = 3 /\ \A c \in m.continuation : c.kind = "rollout_ledger"
<1> DEFINE ordinary == {e \in listing : Stored!IsOrdinary(e)}
           steps == {e.step : e \in ordinary}
           best == latest.step
<1>1. /\ best = {n \in steps : \A e \in ordinary : e.step <= n}
      /\ {e \in listing : Stored!Malformed(e, listing) /\ \A n \in best : e.step > n} = {}
      /\ \A e \in listing : ~Stored!Untrusted(e)
  BY DEF Stored!LatestCheckpoint, Stored!Greatest
<1>2. steps \subseteq 0 .. N
  OBVIOUS
<1>3. \A n, k \in best : n = k
  <2> SUFFICES ASSUME NEW n \in best, NEW k \in best PROVE n = k
    OBVIOUS
  <2>1. n \in Int /\ k \in Int
    BY <1>1, <1>2
  <2>2. n <= k /\ k <= n
    BY <1>1
  <2> QED BY <2>1, <2>2
<1>4. ASSUME NEW n \in best
      PROVE  \E e \in listing : \E m \in e.manifest :
               /\ ~e.aside /\ e.dir /\ e.step = n
               /\ Stored!Readable(m) /\ m.version = 4 /\ m.step = n
  <2>1. PICK e \in ordinary : e.step = n
    BY <1>1
  <2>2. PICK m \in Stored!ManifestsOf(e) : m.version = 4
    BY <2>1 DEF Stored!IsOrdinary
  <2>3. m.step = e.step
    BY <1>1, <2>1, <2>2 DEF Stored!Untrusted
  <2>4. ~e.aside /\ e.dir /\ m \in e.manifest /\ Stored!Readable(m)
    BY <2>2 DEF Stored!ManifestsOf
  <2> QED BY <2>1, <2>2, <2>3, <2>4
<1>5. ASSUME NEW e \in listing, \A n \in best : e.step > n
      PROVE  IF e.aside THEN \E f \in listing : ~f.aside /\ f.step = e.step
             ELSE \E m \in e.manifest :
                    /\ Stored!Readable(m)
                    /\ \/ m.version = 1
                       \/ m.version = 3 /\ \A c \in m.continuation : c.kind = "rollout_ledger"
  <2>1. ~Stored!Malformed(e, listing)
    BY <1>1, <1>5
  <2>2. CASE e.aside
    BY <2>1, <2>2 DEF Stored!Malformed
  <2>3. CASE ~e.aside
    <3>1. PICK m : m \in Stored!ManifestsOf(e)
      BY <2>1, <2>3 DEF Stored!Malformed
    <3>2. m \in e.manifest /\ Stored!Readable(m)
      BY <2>3, <3>1 DEF Stored!ManifestsOf
    <3>3. ~Stored!IsOrdinary(e)
      <4> SUFFICES ASSUME Stored!IsOrdinary(e) PROVE FALSE
        OBVIOUS
      <4>1. e \in ordinary /\ e.step \in steps
        OBVIOUS
      <4>2. PICK n \in steps : \A k \in steps : k <= n
        <5> HIDE DEF steps
        <5> QED BY <1>2, <4>1, GreatestElement
      <4>3. n \in best
        BY <1>1, <4>2
      <4> QED BY <1>2, <1>5, <4>1, <4>2, <4>3
    <3>4. m.version # 4
      BY <3>1, <3>3 DEF Stored!IsOrdinary
    <3>5. /\ m.continuation = {} => m.version \notin {2, 3}
          /\ \A c \in m.continuation : c.kind = "rollout_ledger"
      BY <1>1, <3>1 DEF Stored!Untrusted
    <3>6. m.version \in 1 .. 4 /\ (m.continuation # {} => m.version = 3)
      BY <3>2 DEF Stored!Readable, Stored!FieldMatrix
    <3> QED BY <2>3, <3>2, <3>4, <3>5, <3>6
  <2> QED BY <2>2, <2>3
<1> QED BY <1>3, <1>4, <1>5

(***************************************************************************)
(* The schedule of an audit.                                               *)
(***************************************************************************)
LEMMA Three ==
  ASSUME NEW x, NEW y, NEW z, x # y, x # z, y # z
  PROVE  Cardinality({x, y, z}) = 3
<1> DEFINE one == {x}
           two == one \cup {y}
           three == two \cup {z}
<1>1. y \notin one /\ z \notin two /\ three = {x, y, z}
  OBVIOUS
<1>2. IsFiniteSet(one) /\ Cardinality(one) = 1
  BY FS_Singleton
<1> HIDE DEF one
<1>3. IsFiniteSet(two) /\ Cardinality(two) = Cardinality(one) + 1
  BY <1>1, <1>2, FS_AddElement
<1> HIDE DEF two
<1>4. Cardinality(three) = Cardinality(two) + 1
  BY <1>1, <1>3, FS_AddElement
<1> HIDE DEF three
<1> QED BY <1>1, <1>2, <1>3, <1>4

\* A candidate that takes as long as the reference is not accepted, whichever program goes first
\* and however much faster a device is for the one that goes first, or second
\* (artifact_audit_schedule, artifact_acceptance_from_speedups).
THEOREM PlaceIsNoMerit ==
  ASSUME NEW starts \in BOOLEAN, NEW a \in Nat \ {0}, NEW b \in Nat \ {0},
         NEW material \in Nat, material >= 100
  PROVE  ~Accepted([i \in 1 .. Blocks |-> Speedup(First(starts, i - 1), a, b)], material)
<1> DEFINE speedups == [i \in 1 .. Blocks |-> Speedup(First(starts, i - 1), a, b)]
           wins == {i \in DOMAIN speedups : speedups[i] > material}
           Of(role) == {i \in 1 .. Blocks : First(starts, i - 1) = role}
<1>1. ASSUME NEW x \in Nat, NEW y \in Nat \ {0}, (100 * x) \div y > material PROVE x > y
  <2> SUFFICES ASSUME x <= y PROVE FALSE
    OBVIOUS
  <2> DEFINE z == 100 * x
             q == z \div y
  <2>1. q \in Int /\ q * y <= z
    <3>1. z \in Nat
      OBVIOUS
    <3> HIDE DEF z
    <3>2. q \in Int /\ z % y \in 0 .. y - 1 /\ z = q * y + (z % y)
      BY <3>1
    <3>3. q * y \in Int
      BY <3>2
    <3> HIDE DEF q
    <3> QED BY <3>1, <3>2, <3>3
  <2>2. q >= 101
    BY <1>1
  <2>3. q * y >= 101 * y
    <3>1. q - 101 \in Nat
      BY <2>1, <2>2
    <3>2. (q - 101) * y >= 0
      BY <3>1
    <3> HIDE DEF q
    <3> QED BY <2>1, <3>2
  <2> HIDE DEF q
  <2> QED BY <2>1, <2>3
<1>2. wins \subseteq Of("reference") \/ wins \subseteq Of("candidate")
  <2>1. ASSUME NEW i \in wins PROVE (First(starts, i - 1) = "reference" /\ a > b) \/ (First(starts, i - 1) = "candidate" /\ b > a)
    <3>1. i \in 1 .. Blocks /\ Speedup(First(starts, i - 1), a, b) > material
      OBVIOUS
    <3>2. CASE First(starts, i - 1) = "reference"
      BY <1>1, <3>1, <3>2 DEF Speedup
    <3>3. CASE First(starts, i - 1) # "reference"
      <4>1. First(starts, i - 1) = "candidate"
        BY <3>3 DEF First
      <4>2. (100 * b) \div a > material
        BY <3>1, <3>3 DEF Speedup
      <4> QED BY <1>1, <4>1, <4>2
    <3> QED BY <3>2, <3>3
  <2>2. wins \subseteq 1 .. Blocks
    OBVIOUS
  <2> HIDE DEF wins
  <2> QED BY <2>1, <2>2
<1>3. wins \cap {2, 4, 6} = {} \/ wins \cap {1, 3, 5} = {}
  <2>1. \A i \in {2, 4, 6}, j \in {1, 3, 5} : First(starts, i - 1) # First(starts, j - 1)
    BY DEF First
  <2>2. \A i \in {2, 4, 6}, j \in {1, 3, 5} : i \notin wins \/ j \notin wins
    BY <1>2, <2>1
  <2> HIDE DEF wins
  <2> QED BY <2>2
<1>4. IsFiniteSet(1 .. Blocks) /\ Cardinality(1 .. Blocks) = 11
  <2>1. 1 \in Int /\ Blocks \in Int /\ ~(1 > Blocks) /\ Blocks - 1 + 1 = 11
    BY DEF Blocks
  <2> QED BY <2>1, FS_Interval
<1>5. ASSUME NEW U, U \subseteq 1 .. Blocks, Cardinality(U) = 3, wins \cap U = {}
      PROVE  Cardinality(wins) <= 8
  <2>1. Cardinality((1 .. Blocks) \cap U) = 3
    <3>1. (1 .. Blocks) \cap U = U
      BY <1>5
    <3> QED BY <1>5, <3>1
  <2>2. IsFiniteSet((1 .. Blocks) \ U)
    BY <1>4, FS_Difference
  <2>3. Cardinality((1 .. Blocks) \ U) = Cardinality(1 .. Blocks) - Cardinality((1 .. Blocks) \cap U)
    BY <1>4, FS_Difference
  <2> DEFINE rest == (1 .. Blocks) \ U
  <2>4. wins \subseteq rest
    BY <1>5
  <2> HIDE DEF wins
  <2>5. IsFiniteSet(rest) /\ Cardinality(rest) = 8
    BY <1>4, <2>1, <2>2, <2>3
  <2> HIDE DEF rest
  <2> QED BY <2>4, <2>5, FS_Subset
<1>6. Cardinality(wins) <= 8 /\ Cardinality(wins) \in Nat
  <2>1. wins \subseteq 1 .. Blocks
    OBVIOUS
  <2>2. {2, 4, 6} \subseteq 1 .. Blocks /\ {1, 3, 5} \subseteq 1 .. Blocks
    BY DEF Blocks
  <2> HIDE DEF wins
  <2>3. Cardinality(wins) \in Nat
    BY <1>4, <2>1, FS_Subset, FS_CardinalityType
  <2>4. Cardinality({2, 4, 6}) = 3 /\ Cardinality({1, 3, 5}) = 3
    <3>1. 2 # 4 /\ 2 # 6 /\ 4 # 6 /\ 1 # 3 /\ 1 # 5 /\ 3 # 5
      OBVIOUS
    <3> QED BY <3>1, Three
  <2>5. CASE wins \cap {2, 4, 6} = {}
    <3> DEFINE U == {2, 4, 6}
    <3>1. U \subseteq 1 .. Blocks /\ Cardinality(U) = 3 /\ wins \cap U = {}
      BY <2>2, <2>4, <2>5
    <3> HIDE DEF U
    <3> QED BY <1>5, <2>3, <3>1
  <2>6. CASE wins \cap {1, 3, 5} = {}
    <3> DEFINE U == {1, 3, 5}
    <3>1. U \subseteq 1 .. Blocks /\ Cardinality(U) = 3 /\ wins \cap U = {}
      BY <2>2, <2>4, <2>6
    <3> HIDE DEF U
    <3> QED BY <1>5, <2>3, <3>1
  <2> QED BY <1>3, <2>3, <2>5, <2>6
<1>7. ~(Cardinality(wins) >= RequiredWins)
  <2> HIDE DEF wins
  <2> QED BY <1>6 DEF RequiredWins
<1> QED BY <1>7 DEF Accepted

(***************************************************************************)
(* The comparison of runs.                                                 *)
(***************************************************************************)
MetricsRow ==
  [step : Nat, grad : Int, secs : Int, peak : Int, delta : Int, dropped : Nat, captured : Nat]
World == Seq(Seq(MetricsRow))

\* What a world has that is not misshapen: at least one row in each of its ranks, the
\* same steps in all of them, and every probe that the budget asks for.
Shapely(w, budget) ==
  /\ 1 \in DOMAIN w /\ Versus!Shortest(w) = Len(w[1]) /\ Len(w[1]) # 0
  /\ \A r \in DOMAIN w :
       /\ Len(w[r]) = Len(w[1])
       /\ \A i \in DOMAIN w[r] :
            /\ w[r][i].step = w[1][i].step
            /\ budget.timing => w[r][i].secs > 0
            /\ budget.memory => w[r][i].peak > 0

\* Each way to be misshapen is told.
Tells(w, budget, failures) ==
  /\ Versus!Shortest(w) = 0 => "empty" \in failures
  /\ Versus!Shortest(w) # 0 =>
       /\ \A r \in DOMAIN w :
            /\ Len(w[r]) # Len(w[1]) => "rank rows" \in failures
            /\ budget.timing /\ Versus!Missing(w[r], "secs") => "no timing" \in failures
            /\ budget.memory /\ Versus!Missing(w[r], "peak") => "no memory" \in failures
       /\ \A r \in DOMAIN w, i \in 1 .. Versus!Shortest(w) :
            w[r][i].step # w[1][i].step => "rank index" \in failures

LEMMA MisshapenTells ==
  ASSUME NEW w, NEW budget
  PROVE  Tells(w, budget, Versus!Misshapen(w, budget))
<1> DEFINE failures == Versus!Misshapen(w, budget)
<1>1. ASSUME Versus!Shortest(w) = 0 PROVE "empty" \in failures
  BY <1>1 DEF Versus!Misshapen
<1>2. ASSUME Versus!Shortest(w) # 0, NEW r \in DOMAIN w, Len(w[r]) # Len(w[1])
      PROVE  "rank rows" \in failures
  BY <1>2 DEF Versus!Misshapen, Versus!If
<1>3. ASSUME Versus!Shortest(w) # 0, NEW r \in DOMAIN w, budget.timing, Versus!Missing(w[r], "secs")
      PROVE  "no timing" \in failures
  BY <1>3 DEF Versus!Misshapen, Versus!If
<1>4. ASSUME Versus!Shortest(w) # 0, NEW r \in DOMAIN w, budget.memory, Versus!Missing(w[r], "peak")
      PROVE  "no memory" \in failures
  BY <1>4 DEF Versus!Misshapen, Versus!If
<1>5. ASSUME Versus!Shortest(w) # 0, NEW r \in DOMAIN w, NEW i \in 1 .. Versus!Shortest(w),
             w[r][i].step # w[1][i].step
      PROVE  "rank index" \in failures
  <2> DEFINE rows == {<<q, k>> : q \in DOMAIN w, k \in 1 .. Versus!Shortest(w)}
  <2>1. \E x \in rows : w[x[1]][x[2]].step # w[1][x[2]].step
    <3>1. <<r, i>> \in rows
      OBVIOUS
    <3> HIDE DEF rows
    <3> QED BY <1>5, <3>1
  <2> QED BY <1>5, <2>1 DEF Versus!Misshapen, Versus!If
<1> HIDE DEF failures
<1>6. Tells(w, budget, failures)
  BY <1>1, <1>2, <1>3, <1>4, <1>5 DEF Tells
<1> QED BY <1>6 DEF failures

LEMMA WellShaped ==
  ASSUME NEW w \in World, NEW budget, Versus!Misshapen(w, budget) = {}
  PROVE  Shapely(w, budget)
<1> DEFINE lens == {Len(w[r]) : r \in DOMAIN w}
<1>0. Tells(w, budget, {})
  <2>1. Tells(w, budget, Versus!Misshapen(w, budget))
    BY MisshapenTells
  <2> QED BY <2>1
<1>1. Versus!Shortest(w) # 0
  BY <1>0 DEF Tells
<1>2. /\ \A r \in DOMAIN w : Len(w[r]) = Len(w[1])
      /\ \A r \in DOMAIN w, i \in 1 .. Versus!Shortest(w) : w[r][i].step = w[1][i].step
      /\ budget.timing => \A r \in DOMAIN w : ~Versus!Missing(w[r], "secs")
      /\ budget.memory => \A r \in DOMAIN w : ~Versus!Missing(w[r], "peak")
  BY <1>0, <1>1 DEF Tells
<1>3. 1 \in DOMAIN w
  <2>1. w # << >>
    BY <1>1 DEF Versus!Shortest
  <2> QED BY <2>1 DEF World
<1>4. Versus!Shortest(w) = Len(w[1]) /\ Len(w[1]) \in Nat
  <2>1. lens = {Len(w[1])}
    BY <1>2, <1>3
  <2>2. Versus!Shortest(w) = Versus!Min(lens)
    BY <1>3 DEF Versus!Shortest
  <2>3. Len(w[1]) \in Nat
    BY <1>3 DEF World
  <2> DEFINE n == Len(w[1])
  <2> HIDE DEF lens, n
  <2>4. Versus!Min({n}) = n
    BY <2>3 DEF Versus!Min, n
  <2> QED BY <2>1, <2>2, <2>3, <2>4 DEF n
<1>5. ASSUME NEW r \in DOMAIN w, NEW i \in DOMAIN w[r]
      PROVE  /\ w[r][i].step = w[1][i].step
             /\ budget.timing => w[r][i].secs > 0
             /\ budget.memory => w[r][i].peak > 0
  <2>1. w[r] \in Seq(MetricsRow)
    BY DEF World
  <2>2. w[r][i] \in MetricsRow /\ i \in 1 .. Len(w[1])
    BY <1>2, <2>1
  <2>3. w[r][i].secs \in Int /\ w[r][i].peak \in Int
    BY <2>2 DEF MetricsRow
  <2> QED BY <1>2, <1>4, <2>2, <2>3 DEF Versus!Missing
<1> QED BY <1>1, <1>2, <1>3, <1>4, <1>5 DEF Shapely

\* The rows of a world are the rows of each of its ranks.
LEMMA WorldRows ==
  ASSUME NEW w \in World, NEW budget, Shapely(w, budget)
  PROVE  /\ Versus!World(w) # << >> /\ Len(Versus!World(w)) = Len(w[1])
         /\ \A i \in 1 .. Len(w[1]) : Versus!World(w)[i].step = w[1][i].step
<1>1. Len(w[1]) \in Nat \ {0} /\ w[1] \in Seq(MetricsRow)
  BY DEF Shapely, World
<1>2. DOMAIN Versus!World(w) = 1 .. Len(w[1]) /\ Len(Versus!World(w)) = Len(w[1])
  BY <1>1 DEF Versus!World, Shapely
<1>3. \A i \in 1 .. Len(w[1]) : Versus!World(w)[i] = Versus!WorldRow(w, i)
  BY DEF Versus!World, Shapely
<1>4. ASSUME NEW i \in 1 .. Len(w[1]) PROVE Versus!WorldRow(w, i).step = w[1][i].step
  <2>1. w[1][i] \in MetricsRow
    BY <1>1
  <2>2. "step" \in DOMAIN w[1][i]
    BY <2>1 DEF MetricsRow
  <2> DEFINE row == w[1][i]
  <2>3. ASSUME NEW g, NEW s, NEW p, NEW d, NEW o, NEW t
        PROVE  [row EXCEPT !.grad = g, !.secs = s, !.peak = p, !.delta = d, !.dropped = o, !.captured = t].step
                 = row.step
    <3> HIDE DEF row
    <3>1. "step" \in DOMAIN row
      BY <2>2 DEF row
    <3> QED BY <3>1
  <2> QED BY <2>3 DEF Versus!WorldRow
<1>5. Versus!World(w) # << >>
  <2>1. Len(<< >>) = 0
    OBVIOUS
  <2> QED BY <1>1, <1>2, <2>1
<1> QED BY <1>2, <1>3, <1>4, <1>5

\* A number of dropped rows is told by the health of a stream.
LEMMA DroppedRowsAreTold ==
  ASSUME NEW s, NEW t, Versus!Health(s) = Versus!Health(t), Versus!SumOf(s, "dropped") > 0
  PROVE  Versus!SumOf(t, "dropped") = Versus!SumOf(s, "dropped")
<1> DEFINE x == <<"dropped", Versus!SumOf(s, "dropped")>>
<1>1. x \in Versus!Health(s)
  BY DEF Versus!Health, Versus!If
<1>2. x \in Versus!Health(t)
  BY <1>1
<1>3. x \notin Versus!Spike(t)
  BY DEF Versus!Spike
<1>4. x \notin Versus!If(Versus!SumOf(t, "captured") = 0, <<"dark">>)
  BY DEF Versus!If
<1>5. x \in Versus!If(Versus!SumOf(t, "dropped") > 0, <<"dropped", Versus!SumOf(t, "dropped")>>)
  BY <1>2, <1>3, <1>4 DEF Versus!Health
<1> QED BY <1>5 DEF Versus!If

\* A run that passes against its baseline has lost no rank, no row and no step in any of its streams,
\* has each probe that the budget asks for in each of its rows, and has dropped as many rows as
\* the baseline, unless new warnings are allowed (compare_worlds).
THEOREM NothingIsLost ==
  ASSUME NEW base \in World, NEW cand \in World, NEW budget, Versus!CompareWorlds(base, cand, budget) = {}
  PROVE  /\ DOMAIN cand = DOMAIN base
         /\ \A r \in DOMAIN base :
              /\ Len(cand[r]) = Len(base[r])
              /\ \A i \in DOMAIN base[r] :
                   /\ cand[r][i].step = base[r][i].step
                   /\ budget.timing => cand[r][i].secs > 0
                   /\ budget.memory => cand[r][i].peak > 0
              /\ ~budget.warnings /\ (Versus!SumOf(base[r], "dropped") > 0 \/ Versus!SumOf(cand[r], "dropped") > 0)
                   => Versus!SumOf(cand[r], "dropped") = Versus!SumOf(base[r], "dropped")
<1>1. /\ Len(base) = Len(cand) /\ Versus!Misshapen(base, budget) = {} /\ Versus!Misshapen(cand, budget) = {}
      /\ \A r \in DOMAIN base : ~Versus!OtherHealth(base[r], cand[r], budget)
      /\ Versus!Compare(Versus!World(base), Versus!World(cand), budget) = {}
  BY DEF Versus!CompareWorlds, Versus!If
<1>2. Shapely(base, budget) /\ Shapely(cand, budget)
  BY <1>1, WellShaped
<1> DEFINE b == Versus!World(base)
           c == Versus!World(cand)
           L == Len(base[1])
<1>3. DOMAIN cand = DOMAIN base
  BY <1>1 DEF World
<1>4. /\ Len(b) = L /\ \A i \in 1 .. L : b[i].step = base[1][i].step
      /\ Len(c) = Len(cand[1]) /\ \A i \in 1 .. Len(cand[1]) : c[i].step = cand[1][i].step
  BY <1>2, WorldRows
<1>5. L \in Nat
  <2>1. base[1] \in Seq(MetricsRow)
    BY <1>2 DEF Shapely, World
  <2> QED BY <2>1
<1>6. Len(b) = Len(c) /\ \A i \in 1 .. L : b[i].step = c[i].step
  <2> HIDE DEF b, c, L
  <2>1. Versus!CompareRows(b, c, budget) = {}
    BY <1>1 DEF Versus!Compare, b, c
  <2> DEFINE n == Versus!Min({Len(b), Len(c)})
  <2>2. /\ Versus!If(Len(b) # Len(c), "rows") = {}
        /\ Versus!If(\E i \in 1 .. n : b[i].step # c[i].step, "index") = {}
    <3>1. \A A, B, C : A \cup B \cup C = {} => A = {} /\ B = {}
      OBVIOUS
    <3> QED BY <2>1, <3>1 DEF Versus!CompareRows
  <2> HIDE DEF n
  <2>3. Len(b) = Len(c) /\ \A i \in 1 .. n : b[i].step = c[i].step
    BY <2>2 DEF Versus!If
  <2>4. n = L
    <3>1. n = Versus!Min({L})
      <4>1. {Len(b), Len(c)} = {L}
        BY <1>4, <2>3
      <4> QED BY <4>1 DEF n
    <3>2. Versus!Min({L}) = L
      BY <1>5 DEF Versus!Min
    <3> QED BY <3>1, <3>2
  <2> QED BY <2>3, <2>4
<1>7. Len(cand[1]) = L /\ \A i \in 1 .. L : cand[1][i].step = base[1][i].step
  <2> HIDE DEF b, c, L
  <2> QED BY <1>4, <1>6
<1>8. ASSUME NEW r \in DOMAIN base
      PROVE  /\ Len(cand[r]) = Len(base[r])
             /\ \A i \in DOMAIN base[r] :
                  /\ cand[r][i].step = base[r][i].step
                  /\ budget.timing => cand[r][i].secs > 0
                  /\ budget.memory => cand[r][i].peak > 0
  <2>1. r \in DOMAIN cand /\ base[r] \in Seq(MetricsRow) /\ cand[r] \in Seq(MetricsRow)
    BY <1>3 DEF World
  <2>2. Len(base[r]) = L /\ Len(cand[r]) = L
    BY <1>2, <1>7, <2>1 DEF Shapely
  <2>3. DOMAIN base[r] = 1 .. L /\ DOMAIN cand[r] = 1 .. L
    BY <2>1, <2>2
  <2> HIDE DEF b, c, L
  <2> QED BY <1>2, <1>7, <2>1, <2>2, <2>3 DEF Shapely
<1>9. ASSUME NEW r \in DOMAIN base, ~budget.warnings
      PROVE  Versus!Health(base[r]) = Versus!Health(cand[r])
  <2>1. base[r] # << >> /\ cand[r] # << >>
    <3>1. Len(base[r]) # 0 /\ Len(cand[r]) # 0
      BY <1>2, <1>8 DEF Shapely
    <3>2. Len(<< >>) = 0
      OBVIOUS
    <3> QED BY <3>1, <3>2
  <2> QED BY <1>1, <1>9, <2>1 DEF Versus!OtherHealth
<1>10. ASSUME NEW r \in DOMAIN base, ~budget.warnings,
              Versus!SumOf(base[r], "dropped") > 0 \/ Versus!SumOf(cand[r], "dropped") > 0
       PROVE  Versus!SumOf(cand[r], "dropped") = Versus!SumOf(base[r], "dropped")
  BY <1>9, <1>10, DroppedRowsAreTold
<1> HIDE DEF b, c, L
<1> QED BY <1>3, <1>8, <1>10

(***************************************************************************)
(* The evaluation of a policy.                                             *)
(***************************************************************************)
EvaluationJob ==
  [prompts : Nat, found : BOOLEAN, toggles : BOOLEAN, hookDraws : BOOLEAN, wrong : Nat,
   how : {"error", "panic"}, stuck : BOOLEAN, restores : BOOLEAN]

\* One call of an evaluation.
Turn(job, k, p) ==
  IF p.end # "going" THEN p
  ELSE IF k = job.wrong THEN Held!Wrong(job, p, Held!Calls(job)[k]) ELSE Held!Done(job, p, Held!Calls(job)[k])

IsScoring(job, after) ==
  /\ after[0] = Held!Found(job) /\ Held!Scored(job) = after[Len(Held!Calls(job))]
  /\ \A k \in 1 .. Len(Held!Calls(job)) : after[k] = Turn(job, k, after[k - 1])

LEMMA ScoresCallByCall ==
  ASSUME NEW job, Len(Held!Calls(job)) \in Nat
  PROVE  \E after : IsScoring(job, after)
<1> DEFINE N == Len(Held!Calls(job))
           F(f) == [k \in 0 .. N |-> IF k = 0 THEN Held!Found(job) ELSE Turn(job, k, f[k - 1])]
           Upto(n, f) == f = [k \in 0 .. n |-> IF k = 0 THEN Held!Found(job) ELSE Turn(job, k, f[k - 1])]
           T == {n \in 0 .. N : \E f : Upto(n, f)}
           after == CHOOSE f : f = F(f)
<1>1. 0 \in T
  <2> DEFINE f == [k \in 0 .. 0 |-> Held!Found(job)]
  <2>1. Upto(0, f)
    OBVIOUS
  <2> HIDE DEF f, Upto
  <2> QED BY <2>1
<1>2. ASSUME NEW n \in 1 .. N, n - 1 \in T PROVE n \in T
  <2>1. PICK e : Upto(n - 1, e)
    <3> HIDE DEF Upto
    <3> QED BY <1>2
  <2> DEFINE f == [k \in 0 .. n |-> IF k = n THEN Turn(job, n, e[n - 1]) ELSE e[k]]
  <2>2. \A k \in 0 .. n - 1 : e[k] = IF k = 0 THEN Held!Found(job) ELSE Turn(job, k, e[k - 1])
    BY <2>1
  <2>3. ASSUME NEW k \in 0 .. n PROVE f[k] = IF k = 0 THEN Held!Found(job) ELSE Turn(job, k, f[k - 1])
    <3>1. CASE k = n
      <4>1. f[k - 1] = e[n - 1] /\ k # 0
        BY <3>1
      <4> QED BY <3>1, <4>1
    <3>2. CASE k # n
      <4>1. k \in 0 .. n - 1 /\ f[k] = e[k] /\ (k # 0 => f[k - 1] = e[k - 1])
        BY <3>2
      <4> QED BY <2>2, <4>1
    <3> QED BY <3>1, <3>2
  <2>4. Upto(n, f)
    BY <2>3
  <2> HIDE DEF f, Upto
  <2> QED BY <2>4
<1>3. N \in T
  <2>1. N \in 0 .. N
    OBVIOUS
  <2> HIDE DEF T
  <2> QED BY <1>1, <1>2, <2>1, StepByStep
<1>4. \E f : f = F(f)
  <2>1. PICK f : Upto(N, f)
    <3> HIDE DEF Upto
    <3> QED BY <1>3
  <2>2. f = F(f)
    BY <2>1
  <2> HIDE DEF F
  <2> QED BY <2>2
<1>5. after = F(after)
  <2> HIDE DEF F
  <2> QED BY <1>4
<1>6. Held!Scored(job) = after[N]
  BY DEF Held!Scored, Turn
<1> HIDE DEF after
<1>7. ASSUME NEW k \in 0 .. N
      PROVE  after[k] = IF k = 0 THEN Held!Found(job) ELSE Turn(job, k, after[k - 1])
  BY <1>5
<1>8. IsScoring(job, after)
  BY <1>6, <1>7 DEF IsScoring
<1> QED BY <1>8

(***************************************************************************)
(* The calls, prompt after prompt.                                         *)
(***************************************************************************)
LEMMA PromptCalls ==
  ASSUME NEW i, NEW S, \A k \in 1 .. 7 : Held!Prompt(i)[k] \in S
  PROVE  Held!Prompt(i) \in Seq(S) /\ Len(Held!Prompt(i)) = 7
<1> DEFINE p == Held!Prompt(i)
<1>1. DOMAIN p = 1 .. 7 /\ Len(p) = 7 /\ p = [k \in 1 .. 7 |-> p[k]]
  BY DEF Held!Prompt
<1> HIDE DEF p
<1>2. p \in [1 .. 7 -> S]
  BY <1>1 DEF p
<1> QED BY <1>1, <1>2 DEF p

\* Sequences of seven, one after the other.
Sevens(S, n, parts) ==
  /\ DOMAIN parts = 1 .. n /\ Len(parts) = n /\ parts = [i \in 1 .. n |-> parts[i]]
  /\ \A i \in 1 .. n : parts[i] \in Seq(S) /\ Len(parts[i]) = 7

IsJoined(S, n, parts, all) ==
  /\ all \in Seq(S) /\ Len(all) = 7 * n
  /\ \A i \in 1 .. n, k \in 1 .. 7 : all[7 * (i - 1) + k] = parts[i][k]

LEMMA Flattened ==
  ASSUME NEW S, NEW n \in Nat, NEW parts, Sevens(S, n, parts)
  PROVE  IsJoined(S, n, parts, Held!FlattenSeq(parts))
<1> USE DEF Sevens, IsJoined
<1> DEFINE F(f) == [i \in 1 .. Len(parts) |-> IF i = 1 THEN parts[i] ELSE f[i - 1] \o parts[i]]
           flatten == CHOOSE f : f = F(f)
<1>1. CASE n = 0
  <2>1. Held!FlattenSeq(parts) = parts
    BY <1>1 DEF Held!FlattenSeq
  <2>2. parts = << >>
    BY <1>1
  <2>3. << >> \in Seq(S) /\ Len(<< >>) = 7 * n /\ 1 .. n = {}
    BY <1>1
  <2> DEFINE none == << >>
  <2> HIDE DEF none
  <2>4. none \in Seq(S) /\ Len(none) = 7 * n /\ Held!FlattenSeq(parts) = none
    BY <2>1, <2>2, <2>3 DEF none
  <2> QED BY <2>3, <2>4
<1>2. CASE n # 0
  <2>1. \E f : f = F(f)
    <3> DEFINE g == [i \in 1 .. n - 1 |-> [u \in Seq(S) |-> u \o parts[i + 1]]]
    <3>1. g \in [1 .. n - 1 -> [Seq(S) -> Seq(S)]]
      <4>1. ASSUME NEW i \in 1 .. n - 1, NEW u \in Seq(S) PROVE u \o parts[i + 1] \in Seq(S)
        <5>1. parts[i + 1] \in Seq(S)
          OBVIOUS
        <5> QED BY <5>1
      <4> QED BY <4>1
    <3>2. n - 1 \in Nat /\ parts[1] \in Seq(S)
      BY <1>2
    <3>3. PICK e : IsIteration(n - 1, Seq(S), parts[1], g, e)
      <4> HIDE DEF g
      <4> QED BY <3>1, <3>2, Iterates
    <3>4. /\ e \in [0 .. n - 1 -> Seq(S)] /\ e[0] = parts[1]
          /\ \A i \in 1 .. n - 1 : e[i] = e[i - 1] \o parts[i + 1]
      <4>1. e \in [0 .. n - 1 -> Seq(S)] /\ e[0] = parts[1] /\ \A i \in 1 .. n - 1 : e[i] = g[i][e[i - 1]]
        BY <3>3 DEF IsIteration
      <4>2. ASSUME NEW i \in 1 .. n - 1 PROVE e[i] = e[i - 1] \o parts[i + 1]
        <5>1. e[i - 1] \in Seq(S)
          BY <4>1
        <5>2. g[i][e[i - 1]] = e[i - 1] \o parts[i + 1]
          BY <5>1
        <5> QED BY <4>1, <5>2
      <4> QED BY <4>1, <4>2
    <3> HIDE DEF g
    <3> DEFINE f == [i \in 1 .. Len(parts) |-> e[i - 1]]
    <3>5. ASSUME NEW i \in 1 .. n PROVE f[i] = IF i = 1 THEN parts[i] ELSE f[i - 1] \o parts[i]
      <4>1. f[i] = e[i - 1]
        OBVIOUS
      <4>2. CASE i = 1
        BY <3>4, <4>1, <4>2
      <4>3. CASE i # 1
        <5>1. f[i - 1] = e[(i - 1) - 1] /\ i - 1 \in 1 .. n - 1 /\ (i - 1) + 1 = i
          BY <4>3
        <5>2. e[i - 1] = e[(i - 1) - 1] \o parts[i]
          BY <3>4, <5>1
        <5> QED BY <4>1, <4>3, <5>1, <5>2
      <4> QED BY <4>2, <4>3
    <3>6. f = F(f)
      BY <3>5
    <3> HIDE DEF f, F
    <3> QED BY <3>6
  <2>2. flatten = F(flatten)
    <3> HIDE DEF F
    <3> QED BY <2>1
  <2>3. Held!FlattenSeq(parts) = flatten[n]
    BY <1>2 DEF Held!FlattenSeq
  <2> HIDE DEF flatten
  <2> DEFINE Matches(m) == /\ flatten[m] \in Seq(S) /\ Len(flatten[m]) = 7 * m
                         /\ \A i \in 1 .. m, k \in 1 .. 7 : flatten[m][7 * (i - 1) + k] = parts[i][k]
             T == {m \in 0 .. n - 1 : Matches(m + 1)}
  <2>4. 0 \in T
    <3>1. flatten[1] = parts[1] /\ 1 \in 1 .. n
      BY <1>2, <2>2
    <3>2. \A i \in 1 .. 1, k \in 1 .. 7 : i = 1 /\ 7 * (i - 1) + k = k
      OBVIOUS
    <3>3. Matches(1)
      BY <3>1, <3>2
    <3> HIDE DEF Matches
    <3> QED BY <1>2, <3>3
  <2>5. ASSUME NEW m \in 1 .. n - 1, m - 1 \in T PROVE m \in T
    <3> DEFINE u == flatten[m]
               v == parts[m + 1]
               w == flatten[m + 1]
    <3>1. Matches(m)
      <4>1. (m - 1) + 1 = m
        OBVIOUS
      <4> HIDE DEF Matches
      <4> QED BY <2>5, <4>1
    <3>2. w = u \o v
      <4>1. m + 1 \in 1 .. Len(parts) /\ m + 1 # 1 /\ (m + 1) - 1 = m
        OBVIOUS
      <4> QED BY <2>2, <4>1
    <3>3. v \in Seq(S) /\ Len(v) = 7 /\ u \in Seq(S) /\ Len(u) = 7 * m
      <4>1. m + 1 \in 1 .. n
        OBVIOUS
      <4> QED BY <3>1, <4>1
    <3>4. \A i \in 1 .. m, k \in 1 .. 7 : u[7 * (i - 1) + k] = parts[i][k]
      BY <3>1
    <3> HIDE DEF u, v, w
    <3>5. /\ w \in Seq(S) /\ Len(w) = 7 * (m + 1)
          /\ \A j \in 1 .. 7 * m : w[j] = u[j]
          /\ \A j \in 7 * m + 1 .. 7 * m + 7 : w[j] = v[j - 7 * m]
      <4>1. /\ Len(u \o v) = Len(u) + Len(v)
            /\ \A j \in 1 .. Len(u) : (u \o v)[j] = u[j]
            /\ \A j \in Len(u) + 1 .. Len(u) + Len(v) : (u \o v)[j] = v[j - Len(u)]
        <5>1. u \in Seq(S) /\ v \in Seq(S)
          BY <3>3
        <5> QED BY ONLY <5>1, Joined
      <4>2. u \o v \in Seq(S)
        BY <3>3
      <4>3. Len(u) + Len(v) = 7 * (m + 1) /\ Len(u) = 7 * m /\ Len(u) + Len(v) = 7 * m + 7
        BY <3>3
      <4> QED BY <3>2, <4>1, <4>2, <4>3
    <3>6. ASSUME NEW i \in 1 .. m + 1, NEW k \in 1 .. 7 PROVE w[7 * (i - 1) + k] = parts[i][k]
      <4>1. CASE i = m + 1
        <5> DEFINE j == 7 * (i - 1) + k
        <5>1. i - 1 = m
          BY <4>1
        <5>2. j = 7 * m + k
          BY <5>1
        <5> HIDE DEF j
        <5>3. j \in 7 * m + 1 .. 7 * m + 7 /\ j - 7 * m = k
          BY <5>2
        <5>4. w[j] = v[k] /\ v = parts[i]
          BY <3>5, <4>1, <5>3 DEF v
        <5> QED BY <5>4 DEF j
      <4>2. CASE i # m + 1
        <5>1. i \in 1 .. m /\ 7 * (i - 1) + k \in 1 .. 7 * m
          BY <4>2
        <5> QED BY <3>4, <3>5, <5>1
      <4> QED BY <4>1, <4>2
    <3>7. Matches(m + 1)
      BY <3>5, <3>6 DEF w
    <3> HIDE DEF Matches
    <3> QED BY <3>7
  <2>6. n - 1 \in T
    <3>1. n - 1 \in Nat /\ n - 1 \in 0 .. n - 1
      BY <1>2
    <3> HIDE DEF T
    <3> QED BY <2>4, <2>5, <3>1, StepByStep
  <2>7. Matches(n)
    <3>1. (n - 1) + 1 = n
      OBVIOUS
    <3> HIDE DEF Matches
    <3> QED BY <2>6, <3>1
  <2>8. IsJoined(S, n, parts, flatten[n])
    BY <2>7 DEF IsJoined
  <2> HIDE DEF IsJoined
  <2> QED BY <2>3, <2>8
<1> HIDE DEF IsJoined
<1> QED BY <1>1, <1>2

IsCall(call) ==
  /\ call[1] \in {"encode", "adapter", "generate", "reward", "mustBeOff", "average"}
  /\ call[1] = "adapter" => call[2] \in BOOLEAN
  /\ call[1] = "generate" => call[2] \in Int

LEMMA CallsInOrder ==
  ASSUME NEW job, job.prompts \in Nat
  PROVE  /\ Len(Held!Calls(job)) = 7 * job.prompts + 3
         /\ Held!Calls(job)[1] = <<"adapter", FALSE>> /\ Held!Calls(job)[2] = <<"mustBeOff", 0>>
         /\ \A k \in 1 .. 7 * job.prompts + 3 : IsCall(Held!Calls(job)[k])
         /\ Held!Calls(job)[7 * job.prompts + 3] = <<"average", 0>>
         /\ \A i \in 1 .. job.prompts, k \in 1 .. 7 :
              Held!Calls(job)[2 + (7 * (i - 1) + k)] = Held!Prompt(i)[k]
<1> DEFINE n == job.prompts
           S == {Held!Prompt(x[1])[x[2]] : x \in (1 .. n) \X (1 .. 7)}
                  \cup {<<"adapter", FALSE>>, <<"mustBeOff", 0>>, <<"average", 0>>}
           a == << <<"adapter", FALSE>>, <<"mustBeOff", 0>> >>
           parts == [i \in 1 .. n |-> Held!Prompt(i)]
           b == Held!FlattenSeq(parts)
           c == << <<"average", 0>> >>
<1>0. \A s \in S : IsCall(s)
  <2>1. ASSUME NEW i \in 1 .. n, NEW k \in 1 .. 7 PROVE IsCall(Held!Prompt(i)[k])
    <3>1. k = 1 \/ k = 2 \/ k = 3 \/ k = 4 \/ k = 5 \/ k = 6 \/ k = 7
      OBVIOUS
    <3>2. /\ Held!Prompt(i)[1] = <<"encode", i>> /\ Held!Prompt(i)[2] = <<"adapter", FALSE>>
          /\ Held!Prompt(i)[3] = <<"generate", i>> /\ Held!Prompt(i)[4] = <<"reward", i>>
          /\ Held!Prompt(i)[5] = <<"adapter", TRUE>> /\ Held!Prompt(i)[6] = <<"generate", i>>
          /\ Held!Prompt(i)[7] = <<"reward", i>>
      BY DEF Held!Prompt
    <3>3. /\ IsCall(<<"encode", i>>) /\ IsCall(<<"adapter", FALSE>>) /\ IsCall(<<"generate", i>>)
          /\ IsCall(<<"reward", i>>) /\ IsCall(<<"adapter", TRUE>>)
      BY DEF IsCall
    <3> QED BY <3>1, <3>2, <3>3
  <2>2. IsCall(<<"adapter", FALSE>>) /\ IsCall(<<"mustBeOff", 0>>) /\ IsCall(<<"average", 0>>)
    BY DEF IsCall
  <2>3. ASSUME NEW s \in S PROVE IsCall(s)
    <3>1. CASE s \in {Held!Prompt(x[1])[x[2]] : x \in (1 .. n) \X (1 .. 7)}
      <4>1. PICK x \in (1 .. n) \X (1 .. 7) : s = Held!Prompt(x[1])[x[2]]
        BY <3>1
      <4>2. x[1] \in 1 .. n /\ x[2] \in 1 .. 7
        OBVIOUS
      <4> QED BY <2>1, <4>1, <4>2
    <3>2. CASE s = <<"adapter", FALSE>> \/ s = <<"mustBeOff", 0>> \/ s = <<"average", 0>>
      BY <2>2, <3>2
    <3> QED BY <2>3, <3>1, <3>2
  <2> QED BY <2>3
<1>1. Held!Calls(job) = a \o b \o c
  BY DEF Held!Calls
<1>2. /\ a \in Seq(S) /\ Len(a) = 2 /\ a[1] = <<"adapter", FALSE>> /\ a[2] = <<"mustBeOff", 0>>
      /\ c \in Seq(S) /\ Len(c) = 1 /\ c[1] = <<"average", 0>>
  <2> DEFINE x == <<"adapter", FALSE>>
             y == <<"mustBeOff", 0>>
             z == <<"average", 0>>
  <2>1. x \in S /\ y \in S /\ z \in S
    OBVIOUS
  <2>2. a = << x, y >> /\ c = << z >>
    OBVIOUS
  <2> HIDE DEF S, x, y, z, a, c
  <2>3. a \in Seq(S) /\ Len(a) = 2 /\ a[1] = x /\ a[2] = y
    BY <2>1, <2>2
  <2>4. c \in Seq(S) /\ Len(c) = 1 /\ c[1] = z
    BY <2>1, <2>2
  <2> QED BY <2>3, <2>4 DEF x, y, z
<1>3. ASSUME NEW i \in 1 .. n PROVE parts[i] \in Seq(S) /\ Len(parts[i]) = 7
  <2>1. ASSUME NEW k \in 1 .. 7 PROVE Held!Prompt(i)[k] \in S
    <3> DEFINE x == << i, k >>
    <3>1. x \in (1 .. n) \X (1 .. 7) /\ x[1] = i /\ x[2] = k
      OBVIOUS
    <3> HIDE DEF x
    <3>2. Held!Prompt(x[1])[x[2]] \in S
      BY <3>1
    <3> QED BY <3>1, <3>2
  <2> HIDE DEF S
  <2> QED BY <2>1, PromptCalls
<1> HIDE DEF S
<1>4. /\ b \in Seq(S) /\ Len(b) = 7 * n
      /\ \A i \in 1 .. n, k \in 1 .. 7 : b[7 * (i - 1) + k] = parts[i][k]
  <2>1. DOMAIN parts = 1 .. n /\ Len(parts) = n /\ parts = [i \in 1 .. n |-> parts[i]]
    OBVIOUS
  <2>2. \A i \in 1 .. n : parts[i] \in Seq(S) /\ Len(parts[i]) = 7
    BY <1>3
  <2>3. n \in Nat
    OBVIOUS
  <2>4. Sevens(S, n, parts)
    BY <2>1, <2>2 DEF Sevens
  <2> HIDE DEF parts, n
  <2>5. IsJoined(S, n, parts, b)
    BY <2>3, <2>4, Flattened
  <2> QED BY <2>5 DEF IsJoined
<1>5. \A i \in 1 .. n : parts[i] = Held!Prompt(i)
  OBVIOUS
<1> HIDE DEF a, b, c, parts
<1> DEFINE ab == a \o b
           abc == ab \o c
<1>6. /\ ab \in Seq(S) /\ Len(ab) = 2 + 7 * n
      /\ \A j \in 1 .. 2 : ab[j] = a[j]
      /\ \A j \in 1 .. 7 * n : ab[2 + j] = b[j]
  <2>1. /\ Len(ab) = Len(a) + Len(b) /\ \A j \in 1 .. Len(a) : ab[j] = a[j]
        /\ \A j \in Len(a) + 1 .. Len(a) + Len(b) : ab[j] = b[j - Len(a)]
    <3>1. a \in Seq(S) /\ b \in Seq(S)
      BY <1>2, <1>4
    <3> QED BY <3>1, Joined
  <2>2. ab \in Seq(S)
    BY <1>2, <1>4
  <2> HIDE DEF ab
  <2>3. ASSUME NEW j \in 1 .. 7 * n PROVE ab[2 + j] = b[j]
    <3>1. 2 + j \in 2 + 1 .. 2 + 7 * n /\ (2 + j) - 2 = j
      OBVIOUS
    <3> QED BY <1>2, <1>4, <2>1, <3>1
  <2> QED BY <1>2, <1>4, <2>1, <2>2, <2>3
<1> HIDE DEF ab
<1>7. /\ abc \in Seq(S) /\ Len(abc) = 7 * n + 3 /\ \A j \in 1 .. 2 + 7 * n : abc[j] = ab[j]
      /\ abc[7 * n + 3] = c[1]
  <2>1. /\ Len(abc) = Len(ab) + Len(c) /\ \A j \in 1 .. Len(ab) : abc[j] = ab[j]
        /\ \A j \in Len(ab) + 1 .. Len(ab) + Len(c) : abc[j] = c[j - Len(ab)]
    <3>1. ab \in Seq(S) /\ c \in Seq(S)
      BY <1>2, <1>6
    <3> QED BY <3>1, Joined
  <2>2. abc \in Seq(S)
    BY <1>2, <1>6
  <2> HIDE DEF abc
  <2>3. Len(ab) = 2 + 7 * n /\ Len(c) = 1
    BY <1>2, <1>6
  <2>4. abc[7 * n + 3] = c[1]
    <3>1. 7 * n + 3 \in Len(ab) + 1 .. Len(ab) + Len(c) /\ (7 * n + 3) - Len(ab) = 1
      BY <2>3
    <3> QED BY <2>1, <3>1
  <2> QED BY <2>1, <2>2, <2>3, <2>4
<1> HIDE DEF abc
<1>8. ASSUME NEW i \in 1 .. n, NEW k \in 1 .. 7 PROVE abc[2 + (7 * (i - 1) + k)] = Held!Prompt(i)[k]
  <2> DEFINE j == 7 * (i - 1) + k
  <2>1. j \in 1 .. 7 * n
    OBVIOUS
  <2> HIDE DEF j
  <2>2. ab[2 + j] = b[j] /\ abc[2 + j] = ab[2 + j]
    BY <1>6, <1>7, <2>1
  <2>3. b[j] = Held!Prompt(i)[k]
    BY <1>4, <1>5 DEF j
  <2> QED BY <2>2, <2>3 DEF j
<1>9. Held!Calls(job) = abc
  BY <1>1 DEF abc, ab
<1>10. abc[1] = <<"adapter", FALSE>> /\ abc[2] = <<"mustBeOff", 0>>
  <2>1. 1 \in 1 .. 2 + 7 * n /\ 2 \in 1 .. 2 + 7 * n /\ 1 \in 1 .. 2 /\ 2 \in 1 .. 2
    OBVIOUS
  <2> QED BY <1>2, <1>6, <1>7, <2>1
<1>11. \A k \in 1 .. 7 * n + 3 : IsCall(abc[k])
  <2>1. \A k \in 1 .. 7 * n + 3 : abc[k] \in S
    BY <1>7
  <2> QED BY <1>0, <2>1
<1>12. abc[7 * n + 3] = <<"average", 0>>
  BY <1>2, <1>7
<1> QED BY <1>7, <1>8, <1>9, <1>10, <1>11, <1>12

(***************************************************************************)
(* What a call does to the policy.                                         *)
(***************************************************************************)
Group == [adapter : BOOLEAN, base : Int]

IsPolicy(p) ==
  /\ DOMAIN p = {"adapter", "draws", "groups", "end"}
  /\ p.adapter \in BOOLEAN /\ p.groups \in Seq(Group) /\ p.end \in {"going", "error", "panic"}

LEMMA SetsAdapter ==
  ASSUME NEW job \in EvaluationJob, NEW p, IsPolicy(p), NEW on \in BOOLEAN
  PROVE  LET q == Held!SetAdapter(job, p, on) IN
         /\ IsPolicy(q) /\ q.adapter = (IF job.toggles THEN on ELSE p.adapter)
         /\ q.groups = p.groups /\ q.end = p.end
<1> DEFINE q == Held!SetAdapter(job, p, on)
<1>1. /\ DOMAIN q = {"adapter", "draws", "groups", "end"}
      /\ q.adapter = (IF job.toggles THEN on ELSE p.adapter) /\ q.groups = p.groups /\ q.end = p.end
  BY DEF Held!SetAdapter, IsPolicy
<1> HIDE DEF q
<1>2. IsPolicy(q)
  BY <1>1 DEF IsPolicy, EvaluationJob
<1> QED BY <1>1, <1>2 DEF q

LEMMA TurnsAdapter ==
  ASSUME NEW job \in EvaluationJob, NEW p, IsPolicy(p), NEW call, IsCall(call), call[1] = "adapter"
  PROVE  LET q == Held!Done(job, p, call) IN
         /\ IsPolicy(q) /\ q.adapter = (IF job.toggles THEN call[2] ELSE p.adapter)
         /\ q.groups = p.groups /\ q.end = p.end
<1>1. call[2] \in BOOLEAN
  BY DEF IsCall
<1>2. Held!Done(job, p, call) = Held!SetAdapter(job, p, call[2])
  BY DEF Held!Done
<1> QED BY <1>1, <1>2, SetsAdapter

LEMMA Generates ==
  ASSUME NEW job \in EvaluationJob, NEW p, IsPolicy(p), NEW call, IsCall(call), call[1] = "generate"
  PROVE  LET q == Held!Done(job, p, call) IN
         /\ IsPolicy(q) /\ q.adapter = p.adapter /\ q.end = p.end
         /\ q.groups = Append(p.groups, [adapter |-> p.adapter, base |-> call[2] - 1])
<1> DEFINE q == Held!Done(job, p, call)
           g == [adapter |-> p.adapter, base |-> call[2] - 1]
<1>1. /\ DOMAIN q = {"adapter", "draws", "groups", "end"}
      /\ q.adapter = p.adapter /\ q.end = p.end /\ q.groups = Append(p.groups, g)
  BY DEF Held!Done, IsPolicy
<1>2. g \in Group
  BY DEF IsPolicy, IsCall, Group
<1> HIDE DEF q, g
<1>3. Append(p.groups, g) \in Seq(Group)
  BY <1>2 DEF IsPolicy
<1>4. IsPolicy(q)
  BY <1>1, <1>3 DEF IsPolicy
<1> QED BY <1>1, <1>4 DEF q, g

LEMMA ChecksAdapter ==
  ASSUME NEW job \in EvaluationJob, NEW p, IsPolicy(p), NEW call, IsCall(call), call[1] = "mustBeOff"
  PROVE  LET q == Held!Done(job, p, call) IN
         /\ IsPolicy(q) /\ q.adapter = p.adapter /\ q.groups = p.groups
         /\ q.end = IF p.adapter THEN "error" ELSE p.end
<1> DEFINE q == Held!Done(job, p, call)
<1>1. /\ DOMAIN q = {"adapter", "draws", "groups", "end"}
      /\ q.adapter = p.adapter /\ q.groups = p.groups /\ q.end = IF p.adapter THEN "error" ELSE p.end
  BY DEF Held!Done, IsPolicy
<1> HIDE DEF q
<1>2. IsPolicy(q)
  BY <1>1 DEF IsPolicy
<1> QED BY <1>1, <1>2 DEF q

LEMMA LeavesPolicy ==
  ASSUME NEW job, NEW p, NEW call, call[1] \in {"encode", "reward", "average"}
  PROVE  Held!Done(job, p, call) = p
BY DEF Held!Done

LEMMA DoesItsCall ==
  ASSUME NEW job \in EvaluationJob, NEW p, IsPolicy(p), NEW call, IsCall(call)
  PROVE  LET q == Held!Done(job, p, call) IN
         IsPolicy(q) /\ (~ job.toggles => q.adapter = p.adapter)
<1>1. CASE call[1] = "adapter"
  BY <1>1, TurnsAdapter
<1>2. CASE call[1] = "generate"
  BY <1>2, Generates
<1>3. CASE call[1] = "mustBeOff"
  BY <1>3, ChecksAdapter
<1>4. CASE call[1] \in {"encode", "reward", "average"}
  BY <1>4, LeavesPolicy
<1> QED BY <1>1, <1>2, <1>3, <1>4 DEF IsCall

LEMMA GoesWrong ==
  ASSUME NEW job \in EvaluationJob, NEW p, IsPolicy(p), NEW call, IsCall(call)
  PROVE  LET q == Held!Wrong(job, p, call) IN
         IsPolicy(q) /\ (~ job.toggles => q.adapter = p.adapter) /\ q.end \in {"error", "panic"}
<1> DEFINE d == Held!Done(job, p, call)
           q == Held!Wrong(job, p, call)
<1>1. IsPolicy(d) /\ (~ job.toggles => d.adapter = p.adapter)
  BY DoesItsCall
<1>2. q = [d EXCEPT !.end = IF call[1] = "adapter" THEN "panic" ELSE job.how]
  BY DEF Held!Wrong
<1> HIDE DEF d, q
<1>3. /\ DOMAIN q = {"adapter", "draws", "groups", "end"}
      /\ q.adapter = d.adapter /\ q.groups = d.groups
      /\ q.end = IF call[1] = "adapter" THEN "panic" ELSE job.how
  BY <1>1, <1>2 DEF IsPolicy
<1>4. q.end \in {"error", "panic"}
  BY <1>3 DEF EvaluationJob
<1>5. IsPolicy(q)
  BY <1>1, <1>3, <1>4 DEF IsPolicy
<1> QED BY <1>1, <1>3, <1>4, <1>5 DEF q

LEMMA EveryCall ==
  ASSUME NEW job \in EvaluationJob
  PROVE  /\ job.prompts \in Nat /\ Len(Held!Calls(job)) \in Nat
         /\ \A k \in 1 .. Len(Held!Calls(job)) : IsCall(Held!Calls(job)[k])
<1> DEFINE N == Len(Held!Calls(job))
<1>1. job.prompts \in Nat
  BY DEF EvaluationJob
<1>2. N = 7 * job.prompts + 3
  BY <1>1, CallsInOrder
<1>3. \A k \in 1 .. 7 * job.prompts + 3 : IsCall(Held!Calls(job)[k])
  BY <1>1, CallsInOrder
<1> HIDE DEF N
<1>4. N \in Nat /\ \A k \in 1 .. N : IsCall(Held!Calls(job)[k])
  BY <1>1, <1>2, <1>3
<1> QED BY <1>1, <1>4 DEF N

LEMMA PolicyThroughout ==
  ASSUME NEW job \in EvaluationJob, NEW after, IsScoring(job, after)
  PROVE  \A k \in 0 .. Len(Held!Calls(job)) :
           IsPolicy(after[k]) /\ (~ job.toggles => after[k].adapter = job.found)
<1> DEFINE N == Len(Held!Calls(job))
           T == {k \in 0 .. N : IsPolicy(after[k]) /\ (~ job.toggles => after[k].adapter = job.found)}
<1>1. N \in Nat /\ \A k \in 1 .. N : IsCall(Held!Calls(job)[k])
  BY EveryCall
<1> HIDE DEF N
<1>2. 0 \in T
  <2>1. IsPolicy(Held!Found(job)) /\ Held!Found(job).adapter = job.found
    BY DEF Held!Found, IsPolicy, EvaluationJob
  <2>2. after[0] = Held!Found(job)
    BY DEF IsScoring
  <2> QED BY <1>1, <2>1, <2>2
<1>3. ASSUME NEW k \in 1 .. N, k - 1 \in T PROVE k \in T
  <2> DEFINE p == after[k - 1]
  <2>1. IsPolicy(p) /\ (~ job.toggles => p.adapter = job.found)
    BY <1>3
  <2>2. after[k] = Turn(job, k, p)
    BY DEF IsScoring, N
  <2>3. IsCall(Held!Calls(job)[k])
    BY <1>1
  <2> HIDE DEF p
  <2>4. IsPolicy(after[k]) /\ (~ job.toggles => after[k].adapter = p.adapter)
    BY <2>1, <2>2, <2>3, DoesItsCall, GoesWrong DEF Turn
  <2> QED BY <1>1, <2>1, <2>4
<1>4. \A k \in 0 .. N : k \in T
  <2> HIDE DEF T
  <2> QED BY <1>1, <1>2, <1>3, StepByStep
<1> QED BY <1>4 DEF N

(***************************************************************************)
(* An evaluation that is still going has made every call and none of them  *)
(* went wrong.                                                             *)
(***************************************************************************)
LEMMA WentThrough ==
  ASSUME NEW job \in EvaluationJob, NEW after, IsScoring(job, after),
         after[Len(Held!Calls(job))].end = "going"
  PROVE  \A k \in 1 .. Len(Held!Calls(job)) :
           after[k].end = "going" /\ after[k] = Held!Done(job, after[k - 1], Held!Calls(job)[k])
<1> DEFINE N == Len(Held!Calls(job))
           T == {j \in 0 .. N : after[N - j].end = "going"}
<1>1. N \in Nat /\ \A k \in 1 .. N : IsCall(Held!Calls(job)[k])
  BY EveryCall
<1>2. \A k \in 1 .. N : after[k] = Turn(job, k, after[k - 1])
  BY DEF IsScoring
<1>3. after[N].end = "going"
  OBVIOUS
<1>p. \A k \in 0 .. N : IsPolicy(after[k])
  BY PolicyThroughout
<1> HIDE DEF N
<1>4. 0 \in T
  <2>1. N - 0 = N
    BY <1>1
  <2> QED BY <1>1, <1>3, <2>1
<1>5. ASSUME NEW j \in 1 .. N, j - 1 \in T PROVE j \in T
  <2> DEFINE k == N - (j - 1)
  <2>1. k \in 1 .. N /\ k - 1 = N - j /\ after[k].end = "going"
    BY <1>1, <1>5
  <2> HIDE DEF k
  <2>2. after[k - 1].end = "going"
    BY <1>2, <2>1 DEF Turn
  <2> QED BY <2>1, <2>2
<1>6. \A j \in 0 .. N : j \in T
  <2> HIDE DEF T
  <2> QED BY <1>1, <1>4, <1>5, StepByStep
<1>7. \A k \in 0 .. N : after[k].end = "going"
  <2>1. ASSUME NEW k \in 0 .. N PROVE after[k].end = "going"
    <3>1. N - k \in 0 .. N /\ N - (N - k) = k
      BY <1>1
    <3> QED BY <1>6, <3>1
  <2> QED BY <2>1
<1>8. ASSUME NEW k \in 1 .. N PROVE after[k] = Held!Done(job, after[k - 1], Held!Calls(job)[k])
  <2>1. k - 1 \in 0 .. N /\ k \in 0 .. N
    BY <1>1
  <2>2. after[k].end # "error" /\ after[k].end # "panic"
    BY <1>7, <2>1
  <2>3. Held!Wrong(job, after[k - 1], Held!Calls(job)[k]).end \in {"error", "panic"}
    BY <1>1, <1>p, <2>1, GoesWrong
  <2>4. after[k] # Held!Wrong(job, after[k - 1], Held!Calls(job)[k])
    BY <2>2, <2>3
  <2> QED BY <1>2, <1>7, <2>1, <2>4 DEF Turn
<1>9. \A k \in 1 .. N : k \in 0 .. N
  BY <1>1
<1> QED BY <1>7, <1>8, <1>9 DEF N

LEMMA DrawsInPairs ==
  ASSUME NEW job \in EvaluationJob, job.toggles \/ job.found, NEW after, IsScoring(job, after),
         after[Len(Held!Calls(job))].end = "going"
  PROVE  LET groups == after[Len(Held!Calls(job))].groups IN
         /\ job.toggles /\ Len(groups) = 2 * job.prompts
         /\ \A i \in 1 .. job.prompts :
              /\ groups[2 * (i - 1) + 1] = [adapter |-> FALSE, base |-> i - 1]
              /\ groups[2 * (i - 1) + 2] = [adapter |-> TRUE, base |-> i - 1]
<1> DEFINE n == job.prompts
           N == Len(Held!Calls(job))
           call(k) == Held!Calls(job)[k]
           g(i, on) == [adapter |-> on, base |-> i - 1]
           Matches(m) ==
             LET groups == after[2 + 7 * m].groups IN
             /\ Len(groups) = 2 * m
             /\ \A i \in 1 .. m : groups[2 * (i - 1) + 1] = g(i, FALSE) /\ groups[2 * (i - 1) + 2] = g(i, TRUE)
           T == {m \in 0 .. n : Matches(m)}
<1>1. n \in Nat /\ N = 7 * n + 3
  BY EveryCall, CallsInOrder
<1>2. \A k \in 1 .. N : IsCall(call(k))
  BY EveryCall
<1>3. call(1) = <<"adapter", FALSE>> /\ call(2) = <<"mustBeOff", 0>> /\ call(7 * n + 3) = <<"average", 0>>
  BY <1>1, CallsInOrder
<1>4. \A i \in 1 .. n, k \in 1 .. 7 : call(2 + (7 * (i - 1) + k)) = Held!Prompt(i)[k]
  BY <1>1, CallsInOrder
<1>5. \A k \in 1 .. N : after[k].end = "going" /\ after[k] = Held!Done(job, after[k - 1], call(k))
  BY WentThrough
<1>6. \A k \in 0 .. N : IsPolicy(after[k])
  BY PolicyThroughout
<1>7. after[0] = Held!Found(job)
  BY DEF IsScoring
<1>8. after[N].groups = after[2 + 7 * n].groups
  <2>1. N \in 1 .. N /\ N - 1 = 2 + 7 * n
    BY <1>1
  <2>2. after[N] = Held!Done(job, after[2 + 7 * n], <<"average", 0>>)
    BY <1>1, <1>3, <1>5, <2>1
  <2>3. <<"average", 0>>[1] \in {"encode", "reward", "average"}
    OBVIOUS
  <2> QED BY <2>2, <2>3, LeavesPolicy
<1> HIDE DEF N, call
<1>9. job.toggles /\ after[2].groups = << >>
  <2>0. 0 \in 0 .. N /\ 1 \in 1 .. N /\ 2 \in 1 .. N /\ 1 \in 0 .. N
    BY <1>1
  <2>1. /\ after[1] = Held!Done(job, after[0], call(1)) /\ after[2] = Held!Done(job, after[1], call(2))
        /\ after[2].end = "going"
    <3>1. 1 - 1 = 0 /\ 2 - 1 = 1
      OBVIOUS
    <3> QED BY <1>5, <2>0, <3>1
  <2>2. IsPolicy(after[0]) /\ IsPolicy(after[1]) /\ IsCall(call(1)) /\ IsCall(call(2))
    BY <1>2, <1>6, <2>0
  <2>3. call(1)[1] = "adapter" /\ call(1)[2] = FALSE /\ call(2)[1] = "mustBeOff"
    <3>1. /\ <<"adapter", FALSE>>[1] = "adapter" /\ <<"adapter", FALSE>>[2] = FALSE
          /\ <<"mustBeOff", 0>>[1] = "mustBeOff"
      OBVIOUS
    <3> DEFINE x == <<"adapter", FALSE>>
               y == <<"mustBeOff", 0>>
    <3>2. call(1) = x /\ call(2) = y /\ x[1] = "adapter" /\ x[2] = FALSE /\ y[1] = "mustBeOff"
      BY <1>3, <3>1
    <3> HIDE DEF x, y
    <3> QED BY <3>2
  <2>4. /\ after[1].adapter = (IF job.toggles THEN FALSE ELSE after[0].adapter)
        /\ after[1].groups = after[0].groups
    <3>1. /\ after[1].adapter = (IF job.toggles THEN call(1)[2] ELSE after[0].adapter)
          /\ after[1].groups = after[0].groups
      <4>1. call(1)[1] = "adapter"
        BY <2>3
      <4> QED BY <2>1, <2>2, <4>1, TurnsAdapter
    <3>2. call(1)[2] = FALSE
      BY <2>3
    <3> QED BY <3>1, <3>2
  <2>5. /\ after[2].groups = after[1].groups
        /\ after[2].end = IF after[1].adapter THEN "error" ELSE after[1].end
    BY <2>1, <2>2, <2>3, ChecksAdapter
  <2>6. after[0].adapter = job.found /\ after[0].groups = << >>
    BY <1>7 DEF Held!Found
  <2>7. job.toggles
    BY <2>1, <2>4, <2>5, <2>6 DEF EvaluationJob
  <2>8. after[2].groups = << >>
    BY <2>4, <2>5, <2>6
  <2> QED BY <2>7, <2>8
<1>10. 0 \in T
  <2>1. 2 + 7 * 0 = 2 /\ 1 .. 0 = {} /\ 2 * 0 = 0 /\ Len(<< >>) = 0
    OBVIOUS
  <2>2. Matches(0)
    BY <1>9, <2>1
  <2> HIDE DEF Matches
  <2> QED BY <1>1, <2>2
<1>11. ASSUME NEW m \in 1 .. n, m - 1 \in T PROVE m \in T
  <2> DEFINE b == 2 + 7 * (m - 1)
             q(k) == after[b + k]
  <2>1. Matches(m - 1)
    <3> HIDE DEF Matches
    <3> QED BY <1>11
  <2>2. ASSUME NEW k \in 1 .. 7
        PROVE  /\ q(k) = Held!Done(job, q(k - 1), Held!Prompt(m)[k]) /\ IsPolicy(q(k - 1))
               /\ IsCall(Held!Prompt(m)[k])
    <3>1. b + k \in 1 .. N /\ (b + k) - 1 \in 0 .. N /\ (b + k) - 1 = b + (k - 1)
      BY <1>1
    <3>2. call(b + k) = Held!Prompt(m)[k]
      <4>1. b + k = 2 + (7 * (m - 1) + k)
        OBVIOUS
      <4> QED BY <1>4, <4>1
    <3> HIDE DEF b
    <3> QED BY <1>2, <1>5, <1>6, <3>1, <3>2
  <2>3. /\ Held!Prompt(m)[1] = <<"encode", m>> /\ Held!Prompt(m)[2] = <<"adapter", FALSE>>
        /\ Held!Prompt(m)[3] = <<"generate", m>> /\ Held!Prompt(m)[4] = <<"reward", m>>
        /\ Held!Prompt(m)[5] = <<"adapter", TRUE>> /\ Held!Prompt(m)[6] = <<"generate", m>>
        /\ Held!Prompt(m)[7] = <<"reward", m>>
    BY DEF Held!Prompt
  <2>4. q(0) = after[2 + 7 * (m - 1)] /\ q(7) = after[2 + 7 * m]
    <3>1. b + 0 = 2 + 7 * (m - 1) /\ b + 7 = 2 + 7 * m
      OBVIOUS
    <3> QED BY <3>1
  <2> HIDE DEF q
  <2>5. /\ q(1) = Held!Done(job, q(0), <<"encode", m>>)
        /\ q(2) = Held!Done(job, q(1), <<"adapter", FALSE>>)
        /\ q(3) = Held!Done(job, q(2), <<"generate", m>>)
        /\ q(4) = Held!Done(job, q(3), <<"reward", m>>)
        /\ q(5) = Held!Done(job, q(4), <<"adapter", TRUE>>)
        /\ q(6) = Held!Done(job, q(5), <<"generate", m>>)
        /\ q(7) = Held!Done(job, q(6), <<"reward", m>>)
    <3>1. /\ 1 - 1 = 0 /\ 2 - 1 = 1 /\ 3 - 1 = 2 /\ 4 - 1 = 3 /\ 5 - 1 = 4 /\ 6 - 1 = 5 /\ 7 - 1 = 6
          /\ 1 \in 1 .. 7 /\ 2 \in 1 .. 7 /\ 3 \in 1 .. 7 /\ 4 \in 1 .. 7 /\ 5 \in 1 .. 7
          /\ 6 \in 1 .. 7 /\ 7 \in 1 .. 7
      OBVIOUS
    <3> QED BY <2>2, <2>3, <3>1
  <2>6. IsPolicy(q(0)) /\ IsPolicy(q(1)) /\ IsPolicy(q(2)) /\ IsPolicy(q(4)) /\ IsPolicy(q(5))
    <3>1. /\ 1 - 1 = 0 /\ 2 - 1 = 1 /\ 3 - 1 = 2 /\ 5 - 1 = 4 /\ 6 - 1 = 5
          /\ 1 \in 1 .. 7 /\ 2 \in 1 .. 7 /\ 3 \in 1 .. 7 /\ 5 \in 1 .. 7 /\ 6 \in 1 .. 7
      OBVIOUS
    <3> QED BY <2>2, <3>1
  <2>7. q(1) = q(0) /\ q(4) = q(3) /\ q(7) = q(6)
    <3>1. <<"encode", m>>[1] = "encode" /\ <<"reward", m>>[1] = "reward"
      OBVIOUS
    <3> QED BY <2>5, <3>1, LeavesPolicy
  <2>8. /\ q(2).adapter = FALSE /\ q(2).groups = q(1).groups
        /\ q(5).adapter = TRUE /\ q(5).groups = q(4).groups
    <3> DEFINE x == <<"adapter", FALSE>>
               y == <<"adapter", TRUE>>
    <3>1. x[1] = "adapter" /\ x[2] = FALSE /\ y[1] = "adapter" /\ y[2] = TRUE
      OBVIOUS
    <3>2. IsCall(x) /\ IsCall(y)
      BY DEF IsCall
    <3>3. q(2) = Held!Done(job, q(1), x) /\ q(5) = Held!Done(job, q(4), y)
      BY <2>5
    <3> HIDE DEF x, y
    <3>4. /\ q(2).adapter = (IF job.toggles THEN x[2] ELSE q(1).adapter)
          /\ q(2).groups = q(1).groups
      BY <2>6, <3>1, <3>2, <3>3, TurnsAdapter
    <3>5. /\ q(5).adapter = (IF job.toggles THEN y[2] ELSE q(4).adapter)
          /\ q(5).groups = q(4).groups
      BY <2>6, <3>1, <3>2, <3>3, TurnsAdapter
    <3> QED BY <1>9, <3>1, <3>4, <3>5
  <2>9. /\ q(3).groups = Append(q(2).groups, g(m, FALSE))
        /\ q(6).groups = Append(q(5).groups, g(m, TRUE))
    <3> DEFINE x == <<"generate", m>>
    <3>1. x[1] = "generate" /\ x[2] = m /\ IsCall(x)
      BY DEF IsCall
    <3>2. q(3) = Held!Done(job, q(2), x) /\ q(6) = Held!Done(job, q(5), x)
      BY <2>5
    <3> HIDE DEF x
    <3>3. q(3).groups = Append(q(2).groups, [adapter |-> q(2).adapter, base |-> x[2] - 1])
      BY <2>6, <3>1, <3>2, Generates
    <3>4. q(6).groups = Append(q(5).groups, [adapter |-> q(5).adapter, base |-> x[2] - 1])
      BY <2>6, <3>1, <3>2, Generates
    <3> QED BY <2>8, <3>1, <3>3, <3>4
  <2> DEFINE u == q(0).groups
             v == q(7).groups
             x == g(m, FALSE)
             y == g(m, TRUE)
  <2>10. v = Append(Append(u, x), y)
    BY <2>7, <2>8, <2>9
  <2>11. u \in Seq(Group) /\ Len(u) = 2 * (m - 1)
    BY <2>1, <2>4, <2>6 DEF IsPolicy
  <2>12. \A i \in 1 .. m - 1 : u[2 * (i - 1) + 1] = g(i, FALSE) /\ u[2 * (i - 1) + 2] = g(i, TRUE)
    BY <2>1, <2>4
  <2>13. x \in Group /\ y \in Group
    BY DEF Group
  <2> HIDE DEF u, v, x, y
  <2>14. /\ Len(v) = 2 * m /\ v[2 * (m - 1) + 1] = x /\ v[2 * (m - 1) + 2] = y
         /\ \A j \in 1 .. 2 * (m - 1) : v[j] = u[j]
    <3> DEFINE ux == Append(u, x)
    <3>1. /\ ux \in Seq(Group) /\ Len(ux) = 2 * (m - 1) + 1 /\ ux[2 * (m - 1) + 1] = x
          /\ \A j \in 1 .. 2 * (m - 1) : ux[j] = u[j]
      BY <2>11, <2>13
    <3> HIDE DEF ux
    <3>2. v = Append(ux, y)
      BY <2>10 DEF ux
    <3>3. /\ Len(v) = 2 * (m - 1) + 2 /\ v[2 * (m - 1) + 2] = y
          /\ \A j \in 1 .. 2 * (m - 1) + 1 : v[j] = ux[j]
      <4>1. /\ Len(v) = Len(ux) + 1 /\ v[Len(ux) + 1] = y
            /\ \A j \in 1 .. Len(ux) : v[j] = ux[j]
        BY <2>13, <3>1, <3>2
      <4> QED BY <3>1, <4>1
    <3> QED BY <3>1, <3>3
  <2>15. ASSUME NEW i \in 1 .. m
         PROVE  v[2 * (i - 1) + 1] = g(i, FALSE) /\ v[2 * (i - 1) + 2] = g(i, TRUE)
    <3>1. CASE i = m
      BY <2>14, <3>1 DEF x, y
    <3>2. CASE i # m
      <4>1. /\ i \in 1 .. m - 1 /\ 2 * (i - 1) + 1 \in 1 .. 2 * (m - 1)
            /\ 2 * (i - 1) + 2 \in 1 .. 2 * (m - 1)
        BY <3>2
      <4> QED BY <2>12, <2>14, <4>1
    <3> QED BY <3>1, <3>2
  <2>16. Matches(m)
    BY <2>4, <2>14, <2>15 DEF v
  <2> HIDE DEF Matches
  <2> QED BY <2>16
<1>12. n \in T
  <2>1. n \in 0 .. n
    BY <1>1
  <2> HIDE DEF T, n
  <2> QED BY <1>1, <1>10, <1>11, <2>1, StepByStep
<1> QED BY <1>8, <1>9, <1>12 DEF N

\* An evaluation leaves the policy as it found it, whatever call fails and however: the
\* adapter is in the mode it was found in, unless the hook that puts it back panics, and
\* then the evaluation does not return; an error that is returned has put the
\* sampler back, and one that could not is reported as such.  An evaluation that
\* returns its figures has compared the two policies on the same rows: for every
\* prompt, in order, a group without the adapter and then a group with it, both at that
\* prompt's base (eval.rs).
THEOREM PolicyIsLeftAsFound ==
  ASSUME NEW job \in EvaluationJob, job.toggles \/ job.found
  PROVE  LET p == Held!Evaluated(job) IN
         /\ IF job.stuck THEN p.end = "panic" ELSE p.adapter = job.found
         /\ p.end = "error" => p.draws = 0
         /\ p.end = "discard" => ~ job.restores
         /\ p.end = "going" =>
              /\ job.toggles /\ Len(p.groups) = 2 * job.prompts
              /\ \A i \in 1 .. job.prompts :
                   /\ p.groups[2 * (i - 1) + 1] = [adapter |-> FALSE, base |-> i - 1]
                   /\ p.groups[2 * (i - 1) + 2] = [adapter |-> TRUE, base |-> i - 1]
<1> DEFINE s == Held!Scored(job)
           r == Held!Restored(job)
           p == Held!Evaluated(job)
           Pairs(groups) ==
             /\ job.toggles /\ Len(groups) = 2 * job.prompts
             /\ \A i \in 1 .. job.prompts :
                  /\ groups[2 * (i - 1) + 1] = [adapter |-> FALSE, base |-> i - 1]
                  /\ groups[2 * (i - 1) + 2] = [adapter |-> TRUE, base |-> i - 1]
<1>1. PICK after : IsScoring(job, after)
  BY EveryCall, ScoresCallByCall
<1>2. s = after[Len(Held!Calls(job))]
  BY <1>1 DEF IsScoring
<1>3. IsPolicy(s) /\ (~ job.toggles => s.adapter = job.found)
  <2>1. Len(Held!Calls(job)) \in 0 .. Len(Held!Calls(job))
    BY EveryCall
  <2> QED BY <1>1, <1>2, <2>1, PolicyThroughout
<1>4. s.end = "going" => Pairs(s.groups)
  BY <1>1, <1>2, DrawsInPairs
<1> HIDE DEF Pairs, s
<1>5. CASE ~ job.stuck
  <2>1. IsPolicy(r) /\ r.adapter = job.found /\ r.groups = s.groups /\ r.end = s.end
    <3>1. r = Held!SetAdapter(job, s, job.found)
      BY <1>5 DEF Held!Restored, s
    <3>2. job.found \in BOOLEAN
      BY DEF EvaluationJob
    <3> QED BY <1>3, <3>1, <3>2, SetsAdapter
  <2>2. p = IF r.end # "error" THEN r
            ELSE IF job.restores THEN [r EXCEPT !.draws = 0] ELSE [r EXCEPT !.end = "discard"]
    BY DEF Held!Evaluated
  <2> HIDE DEF r, p
  <2>3. p.adapter = job.found /\ (p.end = "error" => p.draws = 0) /\ (p.end = "discard" => ~ job.restores)
    BY <2>1, <2>2 DEF IsPolicy
  <2>4. p.end = "going" => Pairs(p.groups)
    BY <1>4, <2>1, <2>2 DEF IsPolicy
  <2> QED BY <1>5, <2>3, <2>4 DEF Pairs, p
<1>6. CASE job.stuck
  <2>1. r = [s EXCEPT !.end = "panic"]
    BY <1>6 DEF Held!Restored, s
  <2>2. p = IF r.end # "error" THEN r
            ELSE IF job.restores THEN [r EXCEPT !.draws = 0] ELSE [r EXCEPT !.end = "discard"]
    BY DEF Held!Evaluated
  <2> HIDE DEF r, p
  <2>3. p.end = "panic"
    BY <1>3, <2>1, <2>2 DEF IsPolicy
  <2> QED BY <1>6, <2>3 DEF p
<1> QED BY <1>5, <1>6
=============================================================================
