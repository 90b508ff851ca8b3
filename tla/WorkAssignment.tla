---------------------------- MODULE WorkAssignment ----------------------------
(***************************************************************************)
(* Which work goes where, without any state: the prompts and the random    *)
(* rows of a window (src/crates/ferrl/src/trainer.rs, select_prompt), the  *)
(* shard of a tensor axis (tensor_parallel.rs, shard_axis), the device of  *)
(* a verifier worker (trimul.rs), the rows held out (data.rs).             *)
(***************************************************************************)
EXTENDS Integers, Sequences, FiniteSetsExt

CONSTANT Word      \* 2^64: indices of rows wrap

(***************************************************************************)
(* Prompts and rows.  A window is one step; in it each of world ranks      *)
(* samples accum groups of size rows.                                      *)
(***************************************************************************)
\* The place of a group in the order of all groups of a run.
Index(step, rank, j, accum, world) == step * (accum * world) + (rank * accum + j)

\* Local scope: every group has a prompt of its own; samples are cycled through.
LocalPrompt(step, rank, j, accum, world) == Index(step, rank, j, accum, world)

\* DistributedSamePrompt: the ranks share the prompt, each samples rows of its own.
SharedPrompt(step, rank, j, accum, world) == step * accum + j

SampleOf(prompt, samples) == prompt % samples

RowBase(step, rank, j, accum, world, size) ==
  (Index(step, rank, j, accum, world) * size) % Word

\* fork_substreams_at: the row whose number seeds the random stream.
Row(base, i) == (base + i) % Word

(***************************************************************************)
(* Shards.                                                                 *)
(***************************************************************************)
ShardAccepts(length, world) == length # 0 /\ length % world = 0
ShardLength(length, world) == length \div world
ShardStart(length, world, rank) == rank * ShardLength(length, world)
InShard(x, length, world, rank) ==
  /\ ShardStart(length, world, rank) <= x
  /\ x < ShardStart(length, world, rank) + ShardLength(length, world)

(***************************************************************************)
(* Verifier workers: completions are graded in chunks of width, one thread *)
(* each, and the number of a completion picks the device.                  *)
(***************************************************************************)
Chunk(completion, width) == completion \div width
Device(completion, devices) == completion % devices

(***************************************************************************)
(* The split.  order is the shuffled order of the groups of equivalent     *)
(* samples, size[g] the samples of group g.                                *)
(***************************************************************************)
\* The samples in the last k groups.
RowsInLast(order, size, k) ==
  MapThenSumSet(LAMBDA i : size[order[i]], (Len(order) - k + 1) .. Len(order))

Least(a, b) == IF a < b THEN a ELSE b

\* train_eval_split_by_key: whole groups from the end, until enough is held out.
HeldOut(order, size, wanted) ==
  LET target == Least(wanted, RowsInLast(order, size, Len(order)))
      taken[k \in 0 .. Len(order)] ==    \* k groups are taken already
        IF k = Len(order) \/ RowsInLast(order, size, k) >= target THEN k ELSE taken[k + 1]
  IN  taken[0]
=============================================================================
