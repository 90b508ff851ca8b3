------------------------------ MODULE WindowData ------------------------------
(***************************************************************************)
(* A window of rollouts as data: what the collectors of one step write     *)
(* (src/crates/ferrl/src/trainer.rs), and what a learner that reads it     *)
(* checks (rollout_ledger.rs).  RolloutLedger says when the files of a     *)
(* window can be seen; this module says what is in them.                   *)
(*                                                                         *)
(* The controls c are the step, the world (its number of ranks), accum     *)
(* groups a rank of size rows and width columns, the end token, and four   *)
(* switches: shared (the ranks share the prompt and the statistics of a    *)
(* group), masking (of truncated rows), kl (beta is positive) and tis (the *)
(* log-probabilities of the draws are needed). drawn[r][j] is the job of   *)
(* rank r and group j, and whether its policy captures those, rewards[r][j]*)
(* the rewards of its rows, and sampler the state that the ranks have found*)
(* to be the same after them. Rewards are integers. An advantage is kept   *)
(* without its positive denominators: its sign is right, and two are equal *)
(* when the advantages are, under the same statistics.                     *)
(***************************************************************************)
EXTENDS GroupDecode, WorkAssignment, SequencesExt

RanksOf(c) == 0 .. (c.world - 1)
InRankOrder(c, parts) == FlattenSeq([i \in 1 .. c.world |-> parts[i - 1]])
Total(s) == FoldSeq(+, 0, s)

\* finite_moments: the count, the mean and the deviation determine these and are
\* determined by them.
Moments(rewards) ==
  [count |-> Len(rewards), sum |-> Total(rewards), squares |-> Total([i \in DOMAIN rewards |-> rewards[i] * rewards[i]])]

Advantage(reward, moments) == reward * moments.count - moments.sum

(***************************************************************************)
(* The collectors.                                                         *)
(***************************************************************************)
\* The rewards go around rank by rank, so that every rank has them in this order.
GroupMoments(c, rewards, r, j) ==
  IF c.shared THEN Moments(InRankOrder(c, [s \in DOMAIN rewards |-> rewards[s][j]])) ELSE Moments(rewards[r][j])

CollectGroup(c, drawn, rewards, r, j) ==
  LET job == drawn[r][j]
      out == Rollout(job)
      moments == GroupMoments(c, rewards, r, j)
  IN  [accum_index |-> j,
       prompt_index |-> IF c.shared THEN SharedPrompt(c.step, r, j, c.accum, c.world)
                        ELSE LocalPrompt(c.step, r, j, c.accum, c.world),
       row_base |-> RowBase(c.step, r, j, c.accum, c.world, c.size),
       prompt |-> job.prompt, ids |-> out.ids, lens |-> out.lens,
       captured |-> IF job.captures THEN {out.drawn} ELSE {},
       rewards |-> rewards[r][j],
       stats |-> IF c.shared /\ c.world > 1 THEN {moments} ELSE {},   \* options, both
       advantages |-> [a \in Rows(job) |-> Advantage(rewards[r][j][a], moments)],
       mask |-> IF c.masking THEN TruncationMask(job, out) ELSE LengthMask(job, out)]

Live(group) == \E a \in DOMAIN group.advantages : group.advantages[a] # 0
Counted(c, group) == c.kl \/ Live(group)

Tokens(groups) == Total([j \in DOMAIN groups |-> Total(groups[j].lens)])
LiveItems(c, groups) == Cardinality({j \in DOMAIN groups : Counted(c, groups[j])})

\* What every rank writes.  The counts are sums over the ranks, but a rank decides by
\* its own groups whether it will score with the old policy.
Window(c, drawn, rewards, sampler) ==
  LET groups == [r \in RanksOf(c) |-> [i \in 1 .. c.accum |-> CollectGroup(c, drawn, rewards, r, i - 1)]]
      tokens == Total([i \in 1 .. c.world |-> Tokens(groups[i - 1])])
  IN  [r \in RanksOf(c) |->
         [rank |-> r, controls |-> c,
          window_tokens |-> IF tokens < 1 THEN 1 ELSE tokens,
          live_items |-> Total([i \in 1 .. c.world |-> LiveItems(c, groups[i - 1])]),
          old_logprobs |-> LiveItems(c, groups[r]) > 0,
          reference_logprobs |-> c.kl,
          sampler |-> sampler,
          groups |-> groups[r]]]

(***************************************************************************)
(* The reader.                                                             *)
(***************************************************************************)
EndsAtEos(c, completion, real) ==
  LET ends == {i \in DOMAIN completion : completion[i] = c.eos}
  IN  IF c.eos = NoEos \/ ends = {} THEN real = Len(completion)
      ELSE /\ real = Min(ends)
           /\ \A i \in DOMAIN completion : i > real => completion[i] = c.eos

\* The statistics that the advantages of a group were computed from.
HasItsStats(c, g) == (g.stats # {}) <=> (c.shared /\ c.world > 1)
StatsOf(g) == IF g.stats = {} THEN Moments(g.rewards) ELSE CHOOSE m \in g.stats : TRUE

\* validate_behavior_capture: one for every draw of every row, or none at all.
CaptureFits(c, g) ==
  /\ c.tis => g.captured # {}
  /\ \A drawn \in g.captured : Len(drawn) = c.size /\ \A a \in 1 .. c.size : drawn[a] = g.lens[a]

ValidRow(c, g, a) ==
  LET p == Len(g.prompt)
      real == g.lens[a]
      truncated == c.masking /\ real = c.width /\ c.eos # NoEos /\ Last(g.ids[a]) # c.eos
  IN  /\ SubSeq(g.ids[a], 1, p) = g.prompt
      /\ real <= c.width /\ EndsAtEos(c, SubSeq(g.ids[a], p + 1, p + c.width), real)
      /\ g.advantages[a] = Advantage(g.rewards[a], StatsOf(g))
      /\ Len(g.mask[a]) = c.width
      /\ \A col \in 1 .. c.width : g.mask[a][col] = IF ~truncated /\ col <= real THEN 1 ELSE 0

ValidGroup(c, g) ==
  /\ Len(g.prompt) > 0
  /\ {Len(g.ids), Len(g.lens), Len(g.rewards), Len(g.advantages), Len(g.mask)} = {c.size}
  /\ \A a \in 1 .. c.size : Len(g.ids[a]) = Len(g.prompt) + c.width
  /\ HasItsStats(c, g) /\ CaptureFits(c, g)
  /\ \A a \in 1 .. c.size : ValidRow(c, g, a)

\* A shard by itself.  Here an index that does not fit is refused.
ValidShard(p) ==
  LET c == p.controls
      shard == c.step * c.accum * c.world + p.rank * c.accum
      first == IF c.shared THEN c.step * c.accum ELSE shard
  IN  /\ c.accum > 0 /\ c.size > 0 /\ c.width > 0
      /\ p.rank < c.world
      /\ p.reference_logprobs = c.kl
      /\ Len(p.groups) = c.accum
      /\ \A i \in 1 .. c.accum :
           /\ p.groups[i].accum_index = i - 1
           /\ p.groups[i].prompt_index = first + i - 1
           /\ (shard + i - 1) * c.size < Word
           /\ p.groups[i].row_base = (shard + i - 1) * c.size
           /\ ValidGroup(c, p.groups[i])
      /\ p.old_logprobs = (LiveItems(c, p.groups) > 0)

\* The shards together.
CountsAgree(c, shards) ==
  LET tokens == Total([i \in 1 .. c.world |-> Tokens(shards[i - 1].groups)])
  IN  \A r \in RanksOf(c) :
        /\ shards[r].window_tokens = (IF tokens < 1 THEN 1 ELSE tokens)
        /\ shards[r].live_items = Total([i \in 1 .. c.world |-> LiveItems(c, shards[i - 1].groups)])
        /\ shards[r].sampler = shards[0].sampler

GroupsAgree(c, shards) ==
  \A i \in 1 .. c.accum, r \in RanksOf(c) :
    /\ shards[r].groups[i].prompt = shards[0].groups[i].prompt
    /\ shards[r].groups[i].stats = {Moments(InRankOrder(c, [s \in DOMAIN shards |-> shards[s].groups[i].rewards]))}

Together(c, shards) == CountsAgree(c, shards) /\ (c.shared /\ c.world > 1 => GroupsAgree(c, shards))

\* What the collectors check before anything of a window can be seen.
Preflight(c, shards) == (\A r \in RanksOf(c) : ValidShard(shards[r])) /\ Together(c, shards)

\* read_distributed_step, and read_step in a world of one: the reader has its own
\* controls and takes nothing else for them.
Reads(c, shards) ==
  /\ DOMAIN shards = RanksOf(c)
  /\ \A r \in RanksOf(c) : shards[r].rank = r /\ shards[r].controls = c /\ ValidShard(shards[r])
  /\ Together(c, shards)

(***************************************************************************)
(* What a group is to the loss: as its collector would have trained on it, *)
(* and as it is read back.                                                 *)
(***************************************************************************)
Collected(c, job, group) ==
  [mask |-> group.mask, advantages |-> group.advantages,
   live |-> ~\A a \in DOMAIN group.advantages : group.advantages[a] = 0,
   dropped |-> Cardinality({a \in DOMAIN group.mask : Total(group.mask[a]) = 0}),
   truncated |-> IF c.masking THEN Cardinality(Truncated(job, Rollout(job))) ELSE 0]

ReadBack(c, g) ==
  [mask |-> g.mask, advantages |-> g.advantages, live |-> Live(g),
   dropped |-> Cardinality({a \in DOMAIN g.mask : Total(g.mask[a]) = 0}),
   truncated |-> IF c.masking /\ c.eos # NoEos
                 THEN Cardinality({a \in DOMAIN g.ids : g.lens[a] = c.width /\ g.ids[a][Len(g.prompt) + g.lens[a]] # c.eos})
                 ELSE 0]
=============================================================================
