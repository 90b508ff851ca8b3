------------------------------ MODULE PureChecks ------------------------------
(***************************************************************************)
(* The pure functions against what they are for, evaluated by TLC over     *)
(* small arguments.                                                        *)
(***************************************************************************)
LOCAL INSTANCE Integers
LOCAL INSTANCE Sequences
LOCAL INSTANCE FiniteSets
LOCAL INSTANCE FiniteSetsExt
LOCAL INSTANCE SequencesExt
LOCAL Work == INSTANCE WorkAssignment WITH Word <- 24
LOCAL Rate == INSTANCE Schedules
LOCAL Choose == INSTANCE CandidateChoice
LOCAL Token(stream, k, tokens) == (stream[k] + FoldSeq(+, 0, tokens)) % 3
LOCAL Group == INSTANCE GroupDecode WITH Draw <- Token, NoEos <- -1
LOCAL Loss == INSTANCE LossWeights
LOCAL Same(a, b) == a.num * b.den = b.num * a.den
LOCAL File == INSTANCE ShardReads WITH ChunkBytes <- 4
LOCAL Health == INSTANCE RunHealth
LOCAL Eval == INSTANCE Evaluation
LOCAL Versus == INSTANCE RunComparison WITH SpikeFactor <- 4

\* Two steps of two ranks with three groups of two rows fill the word exactly.
ASSUME RowsFillTheWord ==
  {Work!Row(Work!RowBase(s, r, j, 3, 2, 2), a) : s \in 0..1, r \in 0..1, j \in 0..2, a \in 0..1}
    = 0..23

\* The rows of a step are those of one process, however many ranks there are.
ASSUME SplitsAgree ==
  \A accum \in 1..3, world \in 1..3, s \in 0..2 :
    {Work!Index(s, r, j, accum, world) : r \in 0..(world - 1), j \in 0..(accum - 1)}
      = {Work!Index(s, 0, k, accum * world, 1) : k \in 0..(accum * world - 1)}

\* An axis is accepted when its shards cover it, and only then.
ASSUME ShardsCover ==
  \A length \in 1..9, world \in 1..4 :
    LET cut == [r \in 0..(world - 1) |-> {x \in 0..(length - 1) : Work!InShard(x, length, world, r)}]
    IN  Work!ShardAccepts(length, world)
          <=> \A x \in 0..(length - 1) : \E r \in 0..(world - 1) : x \in cut[r]

\* In every order at least as many rows are held out as asked for, if there are
\* as many, and without the last group taken there would be too few.
ASSUME JustEnoughIsHeldOut ==
  \A size \in [1..3 -> 1..3], wanted \in 0..10, order \in {<<1, 2, 3>>, <<3, 1, 2>>, <<2, 3, 1>>} :
    LET k == Work!HeldOut(order, size, wanted)
        all == Work!RowsInLast(order, size, 3)
    IN  /\ Work!RowsInLast(order, size, k) >= Work!Least(wanted, all)
        /\ k > 0 => Work!RowsInLast(order, size, k - 1) < wanted

\* A valid schedule takes the value of each of its points at the step of it.
ASSUME SchedulesHitTheirPoints ==
  \A p \in [1..3 -> [step : 0..4, value : 0..2]] :
    Rate!ValidPoints(p, 5) =>
      \A i \in 1..3 :
        Rate!At(p, p[i].step).num = p[i].value * Rate!At(p, p[i].step).den

\* Squaring multiplies beta as often as there are steps.
ASSUME SquaringIsPower == \A step \in 0..20 : Rate!PowerBySquaring(step) = step

\* The candidate chosen is the first of those with the best metric among the
\* correct ones that win, in whatever order they come; without one the reason is
\* that of the last candidate that was measured.
ASSUME ChoiceIsTheFirstBest ==
  \A higher \in BOOLEAN, margin \in 0..1,
     vs \in [1..3 -> [measured : BOOLEAN, correct : BOOLEAN, metric : 1..4]] :
    LET contract == [higher |-> higher, baseline |-> 2, margin |-> margin]
        Gain(i) == Choose!Improvement(contract, vs[i].metric)
        winners == {i \in 1..3 : vs[i].measured /\ vs[i].correct /\ Gain(i) > margin}
        measured == {i \in 1..3 : vs[i].measured}
        last == CHOOSE i \in measured : \A j \in measured : j <= i
        chosen == Choose!Choice(contract, vs)
    IN  /\ IF winners = {} THEN chosen.best = 0
           ELSE /\ chosen.best \in winners
                /\ \A i \in winners :
                     Gain(i) < Gain(chosen.best) \/ (Gain(i) = Gain(chosen.best) /\ chosen.best <= i)
        /\ winners = {} =>
             chosen.reason = IF measured = {} THEN "CandidatesRejected"
                             ELSE IF ~vs[last].correct THEN "HeldOutIncorrect"
                             ELSE "NoMaterialMetricWin"

\* A candidate that is no faster than the reference is not accepted because it
\* runs second, or first, on a device that is then twice as fast.
ASSUME PlaceIsNoMerit ==
  \A starts \in BOOLEAN, fast \in {"first", "second"} :
    LET Run(first) == IF fast = "first" THEN Choose!Speedup(first, 5, 10)
                      ELSE Choose!Speedup(first, 10, 5)
    IN  ~Choose!Accepted([i \in 1..Choose!Blocks |-> Run(Choose!First(starts, i - 1))], 102)

\* One that is twice as fast wherever it runs is accepted, even with two bad blocks.
ASSUME MeritIsSeen ==
  \A starts \in BOOLEAN, bad \in SUBSET (1..Choose!Blocks) : Cardinality(bad) <= 3 =>
    LET Run(i) == IF Choose!First(starts, i - 1) = "reference"
                  THEN Choose!Speedup("reference", 10, IF i \in bad THEN 10 ELSE 5)
                  ELSE Choose!Speedup("candidate", IF i \in bad THEN 10 ELSE 5, 10)
    IN  Choose!Accepted([i \in 1..Choose!Blocks |-> Run(i)], 102) <=> Cardinality(bad) <= 2

(***************************************************************************)
(* Decoding.                                                               *)
(***************************************************************************)
LOCAL Jobs ==
  [rows : {2}, prompt : {<<1>>, <<2, 2>>}, limit : {1, 3}, eos : {-1, 0, 1},
   streams : [1..2 -> [0..2 -> 0..2]]]

\* A row by itself and without a cache (generate_uncached): the tokens so far, and
\* nothing more behind the end token.
LOCAL Alone(job, r) ==
  LET ids[n \in 0..job.limit] ==
        IF n = 0 THEN job.prompt
        ELSE IF n > 1 /\ Last(ids[n - 1]) = job.eos THEN ids[n - 1]
        ELSE Append(ids[n - 1], Token(job.streams[r], n - 1, ids[n - 1]))
  IN  ids[job.limit]

\* The batch gives every row the tokens that it gets by itself, with the log-
\* probability of every real token and of no other, and the cache holds what the
\* next position is computed from.
ASSUME BatchIsRowByRow ==
  \A job \in Jobs :
    LET out == Group!Rollout(job)
        s == Group!Decoded(job)
    IN  /\ Group!WellFormed(job, out)
        /\ \A r \in 1..2 :
             /\ out.ids[r] = Group!Padded(job, Alone(job, r))
             /\ out.lens[r] = Len(Alone(job, r)) - Len(job.prompt)
             /\ s.offset = Len(s.cache[r]) /\ s.offset < Group!Width(job)

\* A row is masked as truncated when it has no end token, although one could end
\* it, and not when its end token is the last that fits; what is kept is what was
\* drawn.
ASSUME TruncatedHasNoEnd ==
  \A job \in Jobs :
    LET out == Group!Rollout(job)
        mask == Group!TruncationMask(job, out)
    IN  \A r \in 1..2 :
          LET ends == job.eos \in {Alone(job, r)[i] : i \in (Len(job.prompt) + 1)..Len(Alone(job, r))}
          IN  Loss!Kept(mask[r]) = IF job.eos = -1 \/ ends THEN out.drawn[r] ELSE 0

(***************************************************************************)
(* The loss.                                                               *)
(***************************************************************************)
LOCAL Losses == {"grpo", "dr_grpo", "dapo"}
LOCAL Masks == [1..3 -> {<<0, 0>>, <<1, 0>>, <<1, 1>>}]

\* However the backward pass is cut, every token has the weight that it has uncut.
ASSUME CutIsUncut ==
  \A loss \in Losses, mask \in Masks, size \in 1..4, row \in 1..3 :
    Same(Loss!Weight(loss, mask, row, 5, size, 2, 2), Loss!Weight(loss, mask, row, 5, 0, 2, 2))

\* In a window of one group on each of two ranks, a sequence that has tokens weighs
\* as much as any other for GRPO, a token as much as any other for Dr.GRPO and DAPO,
\* and for DAPO they weigh one together.  Whole is a multiple of every denominator.
LOCAL Whole == 27720

ASSUME WindowWeighsOne ==
  \A loss \in Losses, a \in Masks, b \in Masks :
    LET rows == a \o b
        tokens == Loss!WindowTokens([i \in 1..6 |-> Loss!Kept(rows[i])])
        Share(g, r) == LET w == Loss!Weight(loss, g, r, tokens, 2, 1, 2)
                       IN  (Whole * Loss!Kept(g[r]) * w.num) \div w.den
        total == MapThenSumSet(LAMBDA r : Share(a, r) + Share(b, r), 1..3)
        filled == Cardinality({i \in 1..6 : rows[i] # <<0, 0>>})
    IN  /\ loss = "grpo" => total * 6 = Whole * filled
        /\ loss = "dr_grpo" => total * 12 = Whole * tokens
        /\ loss = "dapo" => total = IF tokens = 0 THEN 0 ELSE Whole

(***************************************************************************)
(* Reading weights.                                                        *)
(***************************************************************************)
LOCAL Matrices == [full : (1..3) \X (1..4), element : 1..2, start : {0, 3, 8}]

\* Every rank gets the bytes of its band, each at its place, and if the file has
\* digests it reads every chunk that holds one of them once and no other chunk.
ASSUME BandsArriveWhole ==
  \A m \in Matrices, world \in 1..2, rank \in 0..1, behind \in {0, 2} :
    LET want == {<<i, j>> \in (1..3) \X (1..4) : File!Readable(m, <<i, j>>, world)}
        fileLen == m.start + m.full[1] * m.full[2] * m.element + behind
    IN  \A w \in want : rank < world =>
          LET ranges == File!Ranges(m, w, world, rank)
              swept == File!Sweep(ranges, fileLen)
              top == IF w[1] < m.full[1] THEN rank * w[1] ELSE 0
              left == IF w[2] < m.full[2] THEN rank * w[2] ELSE 0
              band == {<<((i * w[2]) + j) * m.element + b,
                         m.start + (((top + i) * m.full[2]) + left + j) * m.element + b>> :
                         i \in 0..(w[1] - 1), j \in 0..(w[2] - 1), b \in 0..(m.element - 1)}
          IN  /\ File!Ordered(ranges)
              /\ swept.copied = band /\ ~swept.missing /\ swept.next > Len(ranges)
              /\ ToSet(swept.read) = {x[2] \div 4 : x \in band}
              /\ IsInjective(swept.read)

(***************************************************************************)
(* Health and evaluation.                                                  *)
(***************************************************************************)
LOCAL Shape == [rows |-> 2, prompts |-> 1]
LOCAL Policy == [correctness_collapse |-> [window |-> 1, min |-> 60, action |-> "fail"],
                 source_dominance |-> [max |-> 50, action |-> "warn"]]
LOCAL Run == << [step |-> 0], [step |-> 1] >>
LOCAL Record == [step : 0..1, prompt : {0}, row : 0..1, source : {"a", "b"}, correct : {"yes", "no", "unknown"}]
LOCAL Logs == {log \in [1..4 -> Record] : \A i \in 1..4 : log[i].step = (i - 1) \div 2 /\ log[i].row = (i - 1) % 2}

LOCAL Graver == [healthy |-> 0, warn |-> 1, fail |-> 2]

\* A run does not pass because it has lost a candidate, or has logged another one of
\* that step in its place.
ASSUME LostEvidenceHealsNothing ==
  \A log \in Logs, lost \in 1..4 :
    LET Grave(l) == Graver[Health!Verdict(Policy, Run, l, Shape)]
    IN  /\ Grave(log) <= Grave(RemoveAt(log, lost))
        /\ \A twice \in 1..4 : log[twice].step = log[lost].step =>
             Grave(log) <= Grave([log EXCEPT ![lost] = log[twice]])
        /\ Grave(log) <= Grave(<<>>)

\* The median of any gradients is one of them, with no more than half on a side.
ASSUME MedianIsInTheMiddle ==
  \A grads \in [1..4 -> 0..3] :
    LET run == [i \in 1..4 |-> [grad |-> grads[i]]]
        live == SortSeq(SelectSeq(grads, LAMBDA g : g > 0), LAMBDA g, h : g < h)
    IN  {grads[i] : i \in {j \in 1..4 : Health!IsMedian(run, j)}}
          = IF live = <<>> THEN {} ELSE {live[(Len(live) \div 2) + 1]}

LOCAL Evaluations ==
  [prompts : {2}, found : BOOLEAN, toggles : BOOLEAN, hookDraws : BOOLEAN, wrong : 0..17,
   how : {"error", "panic"}, stuck : BOOLEAN, restores : BOOLEAN]

\* Whatever call fails, the policy is in the mode in which it was found, unless the
\* hook that puts it back panics, and then so does the evaluation; after an error that
\* is returned its sampler too is where it was, or the error tells that the policy has
\* to be discarded; and a report compares groups without the adapter and with it that
\* were drawn at the same rows, each prompt at rows of its own.
ASSUME EvaluationLeavesNoTrace ==
  \A job \in Evaluations : job.toggles \/ job.found =>
    LET p == Eval!Evaluated(job)
    IN  /\ IF job.stuck THEN p.end = "panic" ELSE p.adapter = job.found
        /\ p.end = "error" => p.draws = 0
        /\ p.end = "discard" => ~job.restores
        /\ p.end = "going" =>
             /\ job.toggles
             /\ {p.groups[i] : i \in 1..Len(p.groups)} = [adapter : BOOLEAN, base : 0..1]
             /\ Len(p.groups) = 4

(***************************************************************************)
(* The comparison of runs.                                                 *)
(***************************************************************************)
LOCAL Metrics(step, x) ==
  [step |-> step, grad |-> x[1], secs |-> x[2], peak |-> x[3], delta |-> 1, dropped |-> x[4], captured |-> 1]
LOCAL Rows == {<<0, 1, 1, 0>>, <<1, 1, 1, 0>>, <<1, 0, 1, 0>>, <<5, 1, 1, 0>>, <<1, 2, 2, 0>>, <<1, 1, 1, 1>>}
LOCAL Fine(step) == Metrics(step, <<1, 1, 1, 0>>)
LOCAL Streams == {<<Metrics(0, x)>> : x \in Rows} \cup
                 {<<Metrics(0, x), Metrics(k, y), Fine(2)>> : k \in {1, 2}, x, y \in Rows}
LOCAL Bases == {<<Metrics(0, x), Fine(1), Fine(2)>> : x \in Rows}
LOCAL Budgets ==
  [live : {TRUE}, steps : {1, 3}, timing : {TRUE}, memory : {TRUE}, warnings : {FALSE}, warmup : 0..1,
   secs : {100}, peak : {100}, delta : {0}, drift : {50}]
LOCAL Second == {<<m, Fine(1), Fine(2)>> : m \in {Fine(0), Metrics(0, <<1, 1, 1, 1>>)}}
LOCAL Worlds(S) == {<<s>> : s \in S} \cup {<<s, t>> : s \in S, t \in Second}
LOCAL Passes(b, c, budget) == Versus!CompareWorlds(b, c, budget) = {}

\* A run passes against itself exactly when it has what the budget asks for.
ASSUME ARunIsNoRegression ==
  \A b \in Worlds(Streams), budget \in Budgets :
    Passes(b, b, budget) <=>
      /\ \A r \in DOMAIN b :
           /\ Len(b[r]) = Len(b[1])
           /\ \A i \in DOMAIN b[r] : b[r][i].step = b[1][i].step /\ b[r][i].secs > 0
      /\ budget.warmup < Len(b[1])
      /\ budget.steps <= Cardinality({i \in (budget.warmup + 1)..Len(b[1]) : \A r \in DOMAIN b : b[r][i].grad > 0})

\* What passes has lost no rank, no row and no step, in any of its streams, and drops
\* no more than its baseline.
ASSUME NothingIsLost ==
  \A b \in Worlds(Bases), c \in Worlds(Streams), budget \in Budgets :
    Passes(b, c, budget) =>
      /\ DOMAIN c = DOMAIN b
      /\ \A r \in DOMAIN b :
           /\ Len(c[r]) = Len(b[r])
           /\ \A i \in DOMAIN b[r] : c[r][i].step = b[r][i].step
           /\ Versus!SumOf(c[r], "dropped") = Versus!SumOf(b[r], "dropped")

\* A candidate that does not pass does not pass either when it is slower or larger in
\* one row of one rank.
ASSUME WorseIsNotBetter ==
  \A b \in Worlds(Bases), c \in Worlds(Streams), budget \in Budgets :
    Versus!Misshapen(c, budget) = {} /\ ~Passes(b, c, budget) =>
      \A r \in DOMAIN c : \A i \in DOMAIN c[r] :
        /\ ~Passes(b, [c EXCEPT ![r][i].secs = @ + 1], budget)
        /\ ~Passes(b, [c EXCEPT ![r][i].peak = @ + 1], budget)

\* The world of one rank is compared as its stream is, but for the warmup, in which
\* nothing may be missing either.
ASSUME OneRankIsAStream ==
  \A b \in Bases, c \in Streams, budget \in Budgets :
    Passes(<<b>>, <<c>>, budget)
      <=> /\ Versus!Compare(b, c, budget) = {}
          /\ Versus!Misshapen(<<b>>, budget) = {} /\ Versus!Misshapen(<<c>>, budget) = {}

\* The order of the ranks does not matter.
ASSUME RanksAreAlike ==
  \A b \in Worlds(Bases), c \in Worlds(Streams), budget \in Budgets :
    Len(b) = Len(c) => Passes(Reverse(b), Reverse(c), budget) = Passes(b, c, budget)

(***************************************************************************)
(* Windows of rollouts as data: what collectors write against what readers *)
(* accept.                                                                 *)
(***************************************************************************)
LOCAL Data == INSTANCE WindowData WITH Draw <- Token, NoEos <- -1, Word <- 24

LOCAL Controls ==
  {c \in [step : {1}, world : {1, 2}, accum : {1, 2}, size : {2}, width : {2}, eos : {-1, 0},
           shared : BOOLEAN, masking : BOOLEAN, kl : BOOLEAN, tis : BOOLEAN] :
     c.masking = (c.eos = 0 /\ ~c.kl) /\ c.tis = (c.shared # c.masking)}

\* Rank r draws streams x[r], the other way around in the second group; the ranks
\* share their prompts or not.  A policy may capture what nobody needs.
LOCAL Drawable == <<[k \in 0..1 |-> 2 - k], [k \in 0..1 |-> 0]>>
LOCAL Drawn(c, x, prompts) ==
  [r \in 0..(c.world - 1) |-> [j \in 0..(c.accum - 1) |->
    [rows |-> 2, prompt |-> prompts[r], limit |-> c.width, eos |-> c.eos, captures |-> c.tis \/ c.kl,
     streams |-> [a \in 1..2 |-> Drawable[IF j = 0 THEN x[r][a] ELSE x[r][3 - a]]]]]]
LOCAL Rewarded(c, y) ==
  [r \in 0..(c.world - 1) |-> [j \in 0..(c.accum - 1) |-> IF j = 0 THEN y[r] ELSE <<1, 1>>]]
LOCAL Draws(c) == [0..(c.world - 1) -> {<<1, 2>>, <<2, 2>>}]
LOCAL Rewards(c) == [0..(c.world - 1) -> {<<0, 0>>, <<0, 1>>, <<1, 1>>}]
LOCAL OnePrompt == [r \in 0..1 |-> <<1>>]
LOCAL TwoPrompts == [r \in 0..1 |-> <<1 + r>>]

\* What collectors write passes their own check and every reader's, and a learner
\* reads back the groups that their collector would have trained on; only ranks that
\* do not share the prompt that they should share are refused, by both.
ASSUME WrittenWindowsAreRead ==
  \A c \in Controls : \A x \in Draws(c), y \in Rewards(c) :
   \A prompts \in IF c.world = 1 \/ y[0] # y[1] THEN {OnePrompt} ELSE {OnePrompt, TwoPrompts} :
    LET drawn == Drawn(c, x, prompts)
        shards == Data!Window(c, drawn, Rewarded(c, y), 0)
        fits == c.shared /\ c.world > 1 => prompts = OnePrompt
    IN  /\ Data!Preflight(c, shards) = fits
        /\ Data!Reads(c, shards) = fits
        /\ \A r \in 0..(c.world - 1), j \in 0..(c.accum - 1) :
             LET g == shards[r].groups[j + 1]
             IN  Data!ReadBack(c, g) = Data!Collected(c, drawn[r][j], g)

\* Shards of two windows of one step are read together only when they are the window
\* of their own rollouts.
ASSUME OnlyWholeWindowsAreRead ==
  \A c \in {d \in Controls : d.world = 2 /\ d.accum = 1 /\ d.eos = 0 /\ d.masking} :
     \A x \in Draws(c), y, z \in Rewards(c) : \A after \in IF y = z THEN 0..1 ELSE {0} :
    LET mine == Data!Window(c, Drawn(c, x, OnePrompt), Rewarded(c, y), 0)
        other == Data!Window(c, Drawn(c, [r \in 0..1 |-> x[1 - r]], OnePrompt), Rewarded(c, z), after)
        mixed == [r \in 0..1 |-> IF r = 0 THEN mine[0] ELSE other[1]]
    IN  Data!Reads(c, mixed)
          <=> mixed = Data!Window(c, Drawn(c, [r \in 0..1 |-> x[0]], OnePrompt),
                                  Rewarded(c, [r \in 0..1 |-> IF r = 0 THEN y[0] ELSE z[1]]), 0)

\* One wrong entry in one shard, and nobody reads the window.
LOCAL Spoilt(p) ==
  ({[p EXCEPT !.rank = 1 - @], [p EXCEPT !.window_tokens = @ + 1], [p EXCEPT !.live_items = @ + 1],
    [p EXCEPT !.old_logprobs = ~@], [p EXCEPT !.reference_logprobs = ~@],
    [p EXCEPT !.controls.step = @ + 1], [p EXCEPT !.groups = Reverse(@)],
    [p EXCEPT !.groups[1].prompt_index = @ + 1], [p EXCEPT !.groups[2].row_base = @ + 1],
    [p EXCEPT !.groups[1].lens[2] = @ - 1], [p EXCEPT !.groups[2].mask[1][1] = 1 - @],
    [p EXCEPT !.groups[1].advantages[1] = @ + 1], [p EXCEPT !.groups[1].rewards[1] = @ + 1],
    [p EXCEPT !.groups[1].prompt = <<2>>], [p EXCEPT !.groups[1].captured = {[a \in 1..2 |-> p.groups[1].lens[a] - 1]}],
    [p EXCEPT !.groups[1].stats = IF @ = {} THEN {Data!Moments(p.groups[1].rewards)} ELSE {}],
    [p EXCEPT !.groups[1].ids = [a \in 1..2 |->       \* a token behind the end token
       IF p.groups[1].lens[a] = 1 THEN <<@[a][1], @[a][2], 1>> ELSE @[a]]]}
   \cup (IF p.controls.tis THEN {[p EXCEPT !.groups[2].captured = {}]} ELSE {})
   \cup (IF p.controls.world > 1 THEN {[p EXCEPT !.sampler = @ + 1]} ELSE {})) \ {p}
ASSUME SpoiltWindowsAreRefused ==
  \A c \in {d \in Controls : d.accum = 2} : \A x \in Draws(c), r \in 0..(c.world - 1) :
    LET shards == Data!Window(c, Drawn(c, x, OnePrompt), Rewarded(c, [s \in 0..1 |-> <<0, 1>>]), 0)
    IN  \A p \in Spoilt(shards[r]) : ~Data!Reads(c, [shards EXCEPT ![r] = p])

\* A window behind the last row that the word holds is not written.
ASSUME WrappedRowsAreNotWritten ==
  \A c \in {[d EXCEPT !.step = 3] : d \in {d \in Controls : d.world = 2 /\ d.accum = 2}} : \A x \in Draws(c) :
    ~Data!Preflight(c, Data!Window(c, Drawn(c, x, OnePrompt), Rewarded(c, [s \in 0..1 |-> <<0, 1>>]), 0))
=============================================================================
