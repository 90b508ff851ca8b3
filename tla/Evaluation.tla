------------------------------- MODULE Evaluation -------------------------------
(***************************************************************************)
(* The held-out evaluation of a policy (src/crates/ferrl/src/eval.rs): for *)
(* each prompt a group without the adapter and a group with it.  Any call  *)
(* may fail, or panic, and the policy has to be left as it was found.      *)
(*                                                                         *)
(* A job has the prompts (how many), the adapter mode in which the policy  *)
(* is found, whether the policy can disable its adapter at all, whether    *)
(* its adapter hook draws from the sampler, the call that goes wrong (0    *)
(* for none) and how ("error" or "panic"), whether the hook panics when it *)
(* is to restore the mode (stuck), and whether the sampler can be restored.*)
(***************************************************************************)
EXTENDS Integers, Sequences, SequencesExt

\* score_all, prompt after prompt, and what evaluate does around it.
Prompt(i) ==
  << <<"encode", i>>, <<"adapter", FALSE>>, <<"generate", i>>, <<"reward", i>>,
     <<"adapter", TRUE>>, <<"generate", i>>, <<"reward", i>> >>

Calls(job) ==
  << <<"adapter", FALSE>>, <<"mustBeOff", 0>> >>
    \o FlattenSeq([i \in 1 .. job.prompts |-> Prompt(i)]) \o << <<"average", 0>> >>

Found(job) == [adapter |-> job.found, draws |-> 0, groups |-> <<>>, end |-> "going"]

SetAdapter(job, p, on) ==
  [p EXCEPT !.adapter = IF job.toggles THEN on ELSE @, !.draws = IF job.hookDraws THEN @ + 1 ELSE @]

\* What a call does to the policy.  A group is remembered with the adapter mode and
\* the rows it was drawn at: those of its prompt.
Done(job, p, call) ==
  IF call[1] = "adapter" THEN SetAdapter(job, p, call[2])
  ELSE IF call[1] = "generate"
  THEN [p EXCEPT !.draws = @ + 1, !.groups = Append(@, [adapter |-> p.adapter, base |-> call[2] - 1])]
  ELSE IF call[1] = "mustBeOff" /\ p.adapter THEN [p EXCEPT !.end = "error"]
  ELSE p

\* A call that goes wrong may have done its work.
Wrong(job, p, call) ==
  [Done(job, p, call) EXCEPT !.end = IF call[1] = "adapter" THEN "panic" ELSE job.how]

Scored(job) ==
  LET calls == Calls(job)
      after[k \in 0 .. Len(calls)] ==
        IF k = 0 THEN Found(job)
        ELSE LET p == after[k - 1] IN
             IF p.end # "going" THEN p
             ELSE IF k = job.wrong THEN Wrong(job, p, calls[k]) ELSE Done(job, p, calls[k])
  IN  after[Len(calls)]

\* AdapterRestore, and the rollback of the sampler, which comes after it and only
\* for an error that is returned.  The hook is called once, even if it panics.
Restored(job) ==
  IF job.stuck THEN [Scored(job) EXCEPT !.end = "panic"] ELSE SetAdapter(job, Scored(job), job.found)

Evaluated(job) ==
  LET p == Restored(job)
  IN  IF p.end # "error" THEN p
      ELSE IF job.restores THEN [p EXCEPT !.draws = 0]
      ELSE [p EXCEPT !.end = "discard"]
=============================================================================
