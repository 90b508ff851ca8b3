------------------------------ MODULE GroupDecode ------------------------------
(***************************************************************************)
(* A group of rollouts, decoded as one batch over a cache                  *)
(* (src/crates/ferrl/src/lm_policy.rs, batched_group_decode), and the mask *)
(* that its loss will have (trainer.rs).  A row that has drawn the end     *)
(* token retires: it draws no more, but it stays in the batch and is fed   *)
(* padding.  What the model computes from the tokens in the cache and what *)
(* the sampler draws from that is one operator, Draw.                      *)
(*                                                                         *)
(* A job is a record of rows (how many), the prompt, the limit of new      *)
(* tokens, the end token or NoEos, and the random stream of every row.     *)
(***************************************************************************)
EXTENDS Integers, Sequences, FiniteSetsExt

CONSTANTS Draw(_, _, _),   \* the token drawn as k-th from a stream after these tokens
          NoEos            \* the job has no end token

Rows(job) == 1 .. job.rows
Width(job) == Len(job.prompt) + job.limit
Pad(job) == IF job.eos = NoEos THEN 0 ELSE job.eos

\* The prompt is the same for all rows.
Prefill(job) ==
  [ids |-> [r \in Rows(job) |-> job.prompt],      \* what the rollout will hold
   cache |-> [r \in Rows(job) |-> job.prompt],    \* what the model has been fed
   offset |-> Len(job.prompt),                    \* where it will put the next token
   active |-> Rows(job),
   lens |-> [r \in Rows(job) |-> job.limit],
   drawn |-> [r \in Rows(job) |-> 0]]             \* draws, each with its log-probability

Feed(job, s) ==
  [r \in Rows(job) |->
     IF r \in s.active THEN Draw(job.streams[r], s.drawn[r], s.cache[r]) ELSE Pad(job)]

\* One step of all rows.  The cache is not advanced behind the last token.
DecodeStep(job, s, step) ==
  LET feed == Feed(job, s)
      stop == {r \in s.active : feed[r] = job.eos}
      t == [s EXCEPT
        !.ids = [r \in Rows(job) |-> IF r \in s.active THEN Append(@[r], feed[r]) ELSE @[r]],
        !.drawn = [r \in Rows(job) |-> IF r \in s.active THEN @[r] + 1 ELSE @[r]],
        !.lens = [r \in Rows(job) |-> IF r \in stop THEN step + 1 ELSE @[r]],
        !.active = @ \ stop]
  IN  IF t.active = {} \/ step + 1 = job.limit THEN t
      ELSE [t EXCEPT !.cache = [r \in Rows(job) |-> Append(@[r], feed[r])], !.offset = @ + 1]

Decoded(job) ==
  LET after[n \in 0 .. job.limit] ==
        IF n = 0 THEN Prefill(job)
        ELSE IF after[n - 1].active = {} THEN after[n - 1]
        ELSE DecodeStep(job, after[n - 1], n - 1)
  IN  after[job.limit]

Padded(job, ids) == ids \o [i \in 1 .. (Width(job) - Len(ids)) |-> Pad(job)]

\* What the policy returns.
Rollout(job) ==
  LET s == Decoded(job)
  IN  [ids |-> [r \in Rows(job) |-> Padded(job, s.ids[r])], lens |-> s.lens, drawn |-> s.drawn]

(***************************************************************************)
(* The mask of the loss.                                                   *)
(***************************************************************************)
LengthMask(job, out) == [r \in Rows(job) |-> [c \in 1 .. job.limit |-> IF c <= out.lens[r] THEN 1 ELSE 0]]

\* A row is taken for truncated by its length and its last token.
Truncated(job, out) ==
  {r \in Rows(job) :
     job.eos # NoEos /\ out.lens[r] = job.limit /\ out.ids[r][Len(job.prompt) + out.lens[r]] # job.eos}

TruncationMask(job, out) ==
  [r \in Rows(job) |->
     IF r \in Truncated(job, out) THEN [c \in 1 .. job.limit |-> 0] ELSE LengthMask(job, out)[r]]

\* completion_dims: what the trainer accepts.
WellFormed(job, out) ==
  /\ job.rows > 0 /\ Len(job.prompt) > 0 /\ job.limit > 0
  /\ \A r \in Rows(job) :
       /\ Len(out.ids[r]) = Width(job)
       /\ out.lens[r] <= job.limit /\ out.drawn[r] = out.lens[r]
=============================================================================
