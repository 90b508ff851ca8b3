----------------------------- MODULE RunComparison -----------------------------
(***************************************************************************)
(* The regression check of one run against another                         *)
(* (src/crates/ferrl/src/telemetry.rs): whether a candidate is as good as  *)
(* its baseline under a budget.  A stream is a sequence of metrics rows, a *)
(* world a sequence of streams, one for each rank.                         *)
(*                                                                         *)
(* Of a row there are the step, the norm of the gradient, the seconds of   *)
(* the step, peak and delta of the memory, rows that were dropped, and the *)
(* tokens that were captured, all of them integers; of the health warnings *)
(* the spike, the dropped rows and the dark telemetry.  A mean over ranks  *)
(* is kept as their sum.  A ratio is a number of hundredths, and a limit   *)
(* has no slack.                                                           *)
(***************************************************************************)
EXTENDS Integers, Sequences, FiniteSetsExt, SequencesExt

CONSTANT SpikeFactor

Cells(stream, cell) == [i \in DOMAIN stream |-> stream[i][cell]]
SumOf(stream, cell) == FoldSeq(+, 0, Cells(stream, cell))
PeakOf(stream, cell) == Max({stream[i][cell] : i \in DOMAIN stream})
If(p, failure) == IF p THEN {failure} ELSE {}

(***************************************************************************)
(* The health of a stream.                                                 *)
(***************************************************************************)
Positive(stream) == SelectSeq(Cells(stream, "grad"), LAMBDA g : g > 0)
MedianOf(grads) == IF grads = << >> THEN 0 ELSE SortSeq(grads, <)[Len(grads) \div 2 + 1]

\* The last of the worst rows.
Worst(stream) == stream[Max({i \in DOMAIN stream : \A k \in DOMAIN stream : stream[k].grad <= stream[i].grad})]

Spike(stream) ==
  LET median == MedianOf(Positive(stream)) IN
  IF median > 0 /\ Worst(stream).grad > SpikeFactor * median
  THEN {<<"spike", Worst(stream).step, Worst(stream).grad, median>>} ELSE {}

Health(stream) ==
  LET dropped == SumOf(stream, "dropped") IN
  Spike(stream)
    \cup If(dropped > 0, <<"dropped", dropped>>)
    \cup If(SumOf(stream, "captured") = 0, <<"dark">>)

(***************************************************************************)
(* Two streams.  The result is the set of what fails.                      *)
(***************************************************************************)
LiveUpdate(b, c, budget) ==
  If(budget.live /\ \E s \in {b, c} : Len(Positive(s)) < budget.steps, "live")

\* A probe that is missing in one row is a failure, not a row to pass over.
Missing(s, cell) == \E i \in DOMAIN s : s[i][cell] <= 0

Timing(b, c, budget) ==
  IF ~budget.timing THEN {}
  ELSE IF Missing(b, "secs") \/ Missing(c, "secs") THEN {"no timing"}
  ELSE If(SumOf(c, "secs") * 100 > SumOf(b, "secs") * budget.secs, "slow")

Memory(b, c, budget) ==
  LET used == IF Missing(b, "peak") \/ Missing(c, "peak") THEN {"no memory"}
              ELSE If(PeakOf(c, "peak") * 100 > PeakOf(b, "peak") * budget.peak, "peak")
      grown == IF Missing(b, "delta") \/ Missing(c, "delta") THEN {"no memory"}
               ELSE If(PeakOf(c, "delta") * 100 > PeakOf(b, "delta") * budget.delta, "delta")
  IN  IF ~budget.memory THEN {}
      ELSE IF "no memory" \in used \/ budget.delta = 0 THEN used ELSE used \cup grown

Drift(b, c, budget) ==
  LET apart == Last(c).grad - Last(b).grad IN
  If(budget.drift # 0 /\ \E d \in {apart, -apart} : d * 100 > Last(b).grad * budget.drift, "drift")

CompareRows(base, cand, budget) ==
  LET n == Min({Len(base), Len(cand)})
      b == SubSeq(base, budget.warmup + 1, n)
      c == SubSeq(cand, budget.warmup + 1, n)
  IN  If(Len(base) # Len(cand), "rows")
        \cup If(\E i \in 1 .. n : base[i].step # cand[i].step, "index")
        \cup IF n = 0 THEN {}
             ELSE IF budget.warmup >= n THEN {"warmup"}
             ELSE LiveUpdate(b, c, budget) \cup Timing(b, c, budget)
                    \cup Memory(b, c, budget) \cup Drift(b, c, budget)

OtherHealth(base, cand, budget) ==
  ~budget.warnings /\ base # << >> /\ cand # << >> /\ Health(base) # Health(cand)

Compare(base, cand, budget) ==
  If(base = << >> \/ cand = << >>, "empty")
    \cup If(OtherHealth(base, cand, budget), "health")
    \cup CompareRows(base, cand, budget)

(***************************************************************************)
(* Two worlds.                                                             *)
(***************************************************************************)
Shortest(world) == IF world = << >> THEN 0 ELSE Min({Len(world[r]) : r \in DOMAIN world})

\* The row of a world: the slowest rank, the largest memory, and a gradient only if
\* every rank has one.
WorldRow(world, i) ==
  LET cells == [r \in DOMAIN world |-> world[r][i]]
  IN  [world[1][i] EXCEPT
         !.grad = IF \A r \in DOMAIN world : cells[r].grad > 0 THEN SumOf(cells, "grad") ELSE 0,
         !.secs = PeakOf(cells, "secs"), !.peak = PeakOf(cells, "peak"),
         !.delta = PeakOf(cells, "delta"), !.dropped = SumOf(cells, "dropped"),
         !.captured = SumOf(cells, "captured")]

World(world) == [i \in 1 .. Shortest(world) |-> WorldRow(world, i)]

\* A world by itself: its ranks have the same steps and all that the budget asks for,
\* warmup or not.
Misshapen(world, budget) ==
  LET rows == {<<r, i>> : r \in DOMAIN world, i \in 1 .. Shortest(world)}
      none(cell) == \E r \in DOMAIN world : Missing(world[r], cell)
  IN  IF Shortest(world) = 0 THEN {"empty"}
      ELSE If(\E r \in DOMAIN world : Len(world[r]) # Len(world[1]), "rank rows")
             \cup If(\E x \in rows : world[x[1]][x[2]].step # world[1][x[2]].step, "rank index")
             \cup If(budget.timing /\ none("secs"), "no timing")
             \cup If(budget.memory /\ none("peak"), "no memory")
             \cup If(budget.delta # 0 /\ none("delta"), "no memory")

CompareWorlds(base, cand, budget) ==
  If(Len(base) # Len(cand), "ranks")
    \cup If(Len(base) = Len(cand) /\ \E r \in DOMAIN base : OtherHealth(base[r], cand[r], budget), "rank health")
    \cup Misshapen(base, budget) \cup Misshapen(cand, budget)
    \cup Compare(World(base), World(cand), budget)
=============================================================================
