----------------------------- MODULE CheckpointData -----------------------------
(***************************************************************************)
(* Checkpoints as data (src/crates/ferrl/src/checkpoint.rs): what the      *)
(* writers put into a package, what its readers accept, and which package  *)
(* of a directory they take.  CheckpointPublication says when the files of *)
(* a package can be seen; this module says what is in them.  There are     *)
(* adapters alone (format 1), continuations of separated training (format  *)
(* 3, trainer.rs) and ordinary checkpoints (format 4).                     *)
(*                                                                         *)
(* A tensor has its shape, whether its elements are floats, and a value.   *)
(* A state has the adapter vars, a sequence of tensors; the moments m and  *)
(* v of Adam, sequences for those that are floats, and its counter t; the  *)
(* sampler; and the completed steps.  A package has its files: adapter,    *)
(* optimizer (a set, as it may be missing) and manifest.  An optional      *)
(* field of a manifest is a set of at most one value.  Digests do not      *)
(* collide; that they are written in hexadecimal is left out.              *)
(***************************************************************************)
EXTENDS Integers, Sequences, FiniteSetsExt

CONSTANT Layout    \* ROLLOUT_LEDGER_CONTINUATION_LAYOUT

Sha(domain, content) == <<domain, content>>

Form(tensor) == [shape |-> tensor.shape, float |-> tensor.float]
Fits(tensors, vars) ==
  /\ DOMAIN tensors = DOMAIN vars
  /\ \A i \in DOMAIN vars : Form(tensors[i]) = Form(vars[i])
Floats(vars) == SelectSeq(vars, LAMBDA tensor : tensor.float)

Schema(vars, recipe) == Sha("schema", <<recipe, [i \in DOMAIN vars |-> Form(vars[i])]>>)
AdapterOf(vars) == Sha("adapter", vars)
OptimizerOf(t, optimizer) == Sha("optimizer", <<t, optimizer>>)
SamplerOf(sampler) == Sha("sampler", sampler)

\* All of the state that a manifest speaks of.
Envelope(m, identity) ==
  Sha("envelope", <<m.version, m.step, m.num, m.recipe, m.t, m.moments, [identity EXCEPT !.envelope = <<>>]>>)

(***************************************************************************)
(* The writers.                                                            *)
(***************************************************************************)
Moments(s) == [m |-> s.m, v |-> s.v]
AdapterManifest(s, recipe) ==
  [version |-> 1, step |-> s.step, num |-> Len(s.vars), t |-> {}, moments |-> {}, sampler |-> {},
   recipe |-> recipe, explicit |-> TRUE, continuation |-> {}, ordinary |-> {}]
WriteAdapter(s, recipe) ==
  [adapter |-> s.vars, optimizer |-> {}, manifest |-> AdapterManifest(s, recipe)]

Contents(s, recipe, version) ==
  [adapter |-> s.vars, optimizer |-> {Moments(s)},
   manifest |-> [AdapterManifest(s, recipe) EXCEPT
     !.version = version, !.t = {s.t}, !.moments = {Len(s.m)}, !.sampler = {s.sampler}]]

\* binding has the digests of the frozen policy and of the configuration, and the recipe.
Identity(s, binding) ==
  [kind |-> "ordinary", frozen |-> binding.frozen, config |-> binding.config,
   schema |-> Schema(s.vars, binding.recipe), adapter |-> AdapterOf(s.vars),
   optimizer |-> OptimizerOf(s.t, Moments(s)), sampler |-> SamplerOf(s.sampler), envelope |-> <<>>]

WriteOrdinary(s, binding) ==
  LET p == Contents(s, binding.recipe, 4)
      identity == Identity(s, binding)
  IN  [p EXCEPT !.manifest.ordinary = {[identity EXCEPT !.envelope = Envelope(p.manifest, identity)]}]

\* A learner has its world, the world of its tensor parallelism, the digests of the
\* frozen policy and of the configuration, the recipe, and the number of steps.
Config(learner) == Sha("config", <<learner.config, learner.world, learner.tp>>)
Lineage(parent, consumed) == Sha("lineage", <<parent, consumed>>)

WriteContinuation(s, learner, parent, consumed) ==
  [Contents(s, learner.recipe, 3) EXCEPT !.manifest.continuation =
     {[format |-> 3, kind |-> "rollout_ledger", world |-> {learner.world}, tp |-> {learner.tp},
       layout |-> {Layout}, completed |-> s.step, policy |-> learner.frozen, config |-> Config(learner),
       schema |-> Schema(s.vars, learner.recipe), adapter |-> AdapterOf(s.vars),
       optimizer |-> OptimizerOf(s.t, Moments(s)), sampler |-> SamplerOf(s.sampler),
       parent |-> parent, consumed |-> consumed, lineage |-> Lineage(parent, consumed)]}]

(***************************************************************************)
(* The readers.  A state is loaded into live vars.                         *)
(***************************************************************************)
FieldMatrix(m) ==
  /\ \A field \in {m.t, m.moments, m.sampler} : (field = {}) = (m.version = 1)
  /\ m.continuation # {} => m.version = 3
  /\ (m.ordinary = {}) = (m.version # 4)
  /\ m.version = 4 =>
       /\ m.explicit
       /\ \A identity \in m.ordinary :
            identity.kind = "ordinary" /\ identity.envelope = Envelope(m, identity)

Readable(m) == m.version \in 1..4 /\ FieldMatrix(m)

OptimizerFits(optimizer, num, vars) ==
  /\ num = Len(Floats(vars))
  /\ Fits(optimizer.m, Floats(vars)) /\ Fits(optimizer.v, Floats(vars))

\* All that is checked before any of the vars is set.
Prepared(p, vars) ==
  /\ p.manifest.num = Len(vars) /\ Fits(p.adapter, vars)
  /\ p.manifest.version # 1 =>
       \E optimizer \in p.optimizer, num \in p.manifest.moments : OptimizerFits(optimizer, num, vars)

Loaded(p) ==
  LET m == p.manifest
      optimizer == CHOOSE o \in p.optimizer : TRUE
      The(field) == CHOOSE x \in field : TRUE
  IN  [vars |-> p.adapter, m |-> optimizer.m, v |-> optimizer.v, t |-> The(m.t),
       sampler |-> The(m.sampler), step |-> m.step]

\* An adapter alone leaves the rest of the state as it is.
AdapterLoads(p, vars) == Readable(p.manifest) /\ p.manifest.version = 1 /\ Prepared(p, vars)

OrdinaryLoads(p, vars, binding) ==
  LET m == p.manifest IN
  /\ Readable(m) /\ m.version = 4
  /\ m.recipe = binding.recipe
  /\ \A identity \in m.ordinary :
       /\ identity.frozen = binding.frozen /\ identity.config = binding.config
       /\ identity.schema = Schema(vars, binding.recipe)
       /\ identity.adapter = AdapterOf(p.adapter)
       /\ \E optimizer \in p.optimizer, t \in m.t : identity.optimizer = OptimizerOf(t, optimizer)
       /\ \A sampler \in m.sampler : identity.sampler = SamplerOf(sampler)
  /\ Prepared(p, vars)

ContinuationLoads(p, vars) ==
  Readable(p.manifest) /\ p.manifest.version = 3 /\ p.manifest.continuation # {} /\ Prepared(p, vars)

\* Older continuations say less of the world they belong to.
Topology(c) ==
  CASE c.format = 1 /\ c.world = {} /\ c.tp = {} /\ c.layout = {} -> {<<1, 1, Layout>>}
    [] c.format = 2 /\ c.world \ {0} # {} /\ c.tp = {} /\ c.layout = {} -> c.world \X {1} \X {Layout}
    [] c.format = 3 /\ c.world \ {0} # {} /\ c.tp \ {0} # {} -> c.world \X c.tp \X c.layout
    [] OTHER -> {}

\* What is known before the payload is read; name is the step that the directory is
\* named for.
ContinuationBinds(p, name, vars, learner) ==
  LET m == p.manifest IN
  /\ Readable(m) /\ m.recipe = learner.recipe /\ m.step = name
  /\ \E c \in m.continuation :
       /\ c.kind = "rollout_ledger" /\ Topology(c) = {<<learner.world, learner.tp, Layout>>}
       /\ c.completed = m.step /\ c.policy = learner.frozen
       /\ c.lineage = Lineage(c.parent, c.consumed)
       /\ c.config = Config(learner) /\ c.schema = Schema(vars, learner.recipe)

\* The digests of the payload are compared with the state after it has been loaded, and
\* a state that differs is rolled back.
ContinuationRestores(p, name, vars, learner) ==
  /\ ContinuationBinds(p, name, vars, learner) /\ ContinuationLoads(p, vars)
  /\ p.manifest.step \in 1..learner.steps
  /\ LET s == Loaded(p) IN \A c \in p.manifest.continuation :
       /\ c.adapter = AdapterOf(s.vars) /\ c.optimizer = OptimizerOf(s.t, Moments(s))
       /\ c.sampler = SamplerOf(s.sampler)

(***************************************************************************)
(* Discovery in a listing, a set of entries.  An entry is named for a      *)
(* step, without leading zeros; it is an aside of that name or the name    *)
(* itself, a directory or not, and has a manifest or none that could be    *)
(* read.  The outcome is an error, or a step, or none.                     *)
(***************************************************************************)
ManifestsOf(e) == IF e.aside \/ ~e.dir THEN {} ELSE {m \in e.manifest : Readable(m)}
Greatest(entries) == {n \in {e.step : e \in entries} : \A e \in entries : e.step <= n}

IsOrdinary(e) == \E m \in ManifestsOf(e) : m.version = 4

\* Neither an older format nor a wrong step is passed over, whichever step it has.
Untrusted(e) == \E m \in ManifestsOf(e) :
  \/ \E c \in m.continuation : c.kind # "rollout_ledger"
  \/ m.continuation = {} /\ m.version \in {2, 3}
  \/ m.version = 4 /\ m.step # e.step

Malformed(e, listing) ==
  IF e.aside THEN ~\E f \in listing : ~f.aside /\ f.step = e.step
  ELSE ManifestsOf(e) = {}

LatestCheckpoint(listing) ==
  LET best == Greatest({e \in listing : IsOrdinary(e)})
      newer == {e \in listing : Malformed(e, listing) /\ \A n \in best : e.step > n}
  IN  [error |-> newer # {} \/ \E e \in listing : Untrusted(e), step |-> best]

IsContinuation(e) ==
  \E m \in ManifestsOf(e) : \E c \in m.continuation :
    /\ Topology(c) # {} /\ (c.format = 3 => c.layout = {Layout})
    /\ c.kind = "rollout_ledger" /\ c.completed = m.step /\ m.step = e.step

\* Whatever else is in the directory is passed over.
LatestContinuation(listing) == [error |-> FALSE, step |-> Greatest({e \in listing : IsContinuation(e)})]
=============================================================================
