------------------------------ MODULE LossWeights ------------------------------
(***************************************************************************)
(* What one token counts in the gradient of a window                       *)
(* (src/crates/ferrl/src/trainer.rs).  The gradient of a window is a sum   *)
(* over ranks, groups, rows and columns of a term of that token times a    *)
(* weight.  The weight depends on the masks and lengths of its group and   *)
(* of the window, on the loss, and on how the backward pass is cut.  It is *)
(* a fraction, neither reduced nor rounded.                                *)
(*                                                                         *)
(* A group has a mask, rows of columns of zeros and ones, and the lengths  *)
(* of its completions.                                                     *)
(***************************************************************************)
EXTENDS Integers, Sequences, FiniteSetsExt

Frac(num, den) == [num |-> num, den |-> den]
Times(a, b) == Frac(a.num * b.num, a.den * b.den)

AtLeastOne(n) == IF n < 1 THEN 1 ELSE n
Fewer(a, b) == IF a < b THEN a ELSE b

Kept(row) == MapThenSumSet(LAMBDA c : row[c], DOMAIN row)

\* masked_mean_tensor: the weight of a kept column of a row of the mask, where tokens
\* is the count of the window.
Reduction(loss, mask, row, tokens) ==
  IF loss = "grpo" THEN Frac(1, AtLeastOne(Kept(mask[row])) * Len(mask))
  ELSE IF loss = "dr_grpo" THEN Frac(1, Len(mask) * Len(mask[row]))
  ELSE Frac(1, AtLeastOne(tokens))

\* item_backward_uncut: Dapo has been divided by the whole window already.
Shared(loss, accum, world) == IF loss = "dapo" THEN Frac(1, 1) ELSE Frac(1, accum * world)

\* item_backward_microbatched: the rows that are cut out with a row, and their scale.
CutStart(row, size) == ((row - 1) \div size) * size
CutLength(rows, row, size) == Fewer(size, rows - CutStart(row, size))
CutScale(loss, rows, row, size) ==
  IF loss = "dapo" THEN Frac(1, 1) ELSE Frac(CutLength(rows, row, size), rows)
CutMask(mask, row, size) ==
  [i \in 1 .. CutLength(Len(mask), row, size) |-> mask[CutStart(row, size) + i]]

\* item_backward_with_execution.  Size 0 is no cut.
Weight(loss, mask, row, tokens, size, accum, world) ==
  IF size > 0 /\ size < Len(mask)
  THEN Times(Times(Reduction(loss, CutMask(mask, row, size), row - CutStart(row, size), tokens),
                   CutScale(loss, Len(mask), row, size)),
             Shared(loss, accum, world))
  ELSE Times(Reduction(loss, mask, row, tokens), Shared(loss, accum, world))

\* run_window: the lengths of all completions on all ranks, degenerate groups and
\* masked rows included.
WindowTokens(lens) == MapThenSumSet(LAMBDA i : lens[i], DOMAIN lens)
=============================================================================
