----------------------------- MODULE PackageChecks -----------------------------
(***************************************************************************)
(* Checkpoints as data: what is written against what is read, evaluated by *)
(* TLC over small packages and directories.                                *)
(***************************************************************************)
LOCAL INSTANCE Integers
LOCAL INSTANCE Sequences
LOCAL INSTANCE FiniteSets
LOCAL Data == INSTANCE CheckpointData WITH Layout <- "inner"

\* Two parameters, the second of them with or without moments.
LOCAL Tensor(shape, float, value) == [shape |-> shape, float |-> float, value |-> value]
LOCAL State(float, a, x, t, z, step) ==
  LET one(value) == Tensor(1, TRUE, value)
      two(value) == Tensor(2, TRUE, value)
      moments(value) == IF float THEN <<one(value), two(value)>> ELSE <<one(value)>>
  IN  [vars |-> <<one(a), Tensor(2, float, 0)>>, m |-> moments(x), v |-> moments(1 - x),
       t |-> t, sampler |-> z, step |-> step]
LOCAL States(float) == {State(float, a, x, t, z, step) : a, x, z \in 0..1, t \in 1..2, step \in 1..2}
LOCAL Live(float) == State(float, 2, 2, 1, 2, 1).vars

LOCAL Binding == [frozen |-> "policy", config |-> "config", recipe |-> {"qv"}]
LOCAL Learner == [world |-> 2, tp |-> 1, frozen |-> "policy", config |-> "config", recipe |-> {"qv"}, steps |-> 2]
LOCAL Ordinary(s) == Data!WriteOrdinary(s, Binding)
LOCAL Continuation(s) == Data!WriteContinuation(s, Learner, "parent", "window")

LOCAL Restores(p, name, float) == Data!ContinuationRestores(p, name, Live(float), Learner)
LOCAL OtherBindings ==
  {[Binding EXCEPT !.frozen = "other"], [Binding EXCEPT !.config = "other"], [Binding EXCEPT !.recipe = {}]}
LOCAL OtherLearners ==
  {[Learner EXCEPT !.frozen = "other"], [Learner EXCEPT !.config = "other"], [Learner EXCEPT !.recipe = {}],
   [Learner EXCEPT !.world = 1], [Learner EXCEPT !.tp = 2], [Learner EXCEPT !.steps = 0]}

\* A package loads as what was written, into nothing else, and for no other reader.
ASSUME WrittenPackagesLoad ==
  \A float \in BOOLEAN : \A s \in States(float) :
    LET o == Ordinary(s)
        c == Continuation(s)
        a == Data!WriteAdapter(s, {"qv"})
    IN  /\ \A p \in {o, c} : Data!Loaded(p) = s
        /\ \A live \in BOOLEAN :
             /\ Data!OrdinaryLoads(o, Live(live), Binding) = (live = float)
             /\ Restores(c, s.step, live) = (live = float)
             /\ Data!AdapterLoads(a, Live(live)) = (live = float)
        /\ \A binding \in OtherBindings : ~Data!OrdinaryLoads(o, Live(float), binding)
        /\ \A learner \in OtherLearners : ~Data!ContinuationRestores(c, s.step, Live(float), learner)
        /\ ~Restores(c, 3 - s.step, float)
        /\ \A p \in {c, a} : ~Data!OrdinaryLoads(p, Live(float), Binding)
        /\ \A p \in {o, a} : ~Data!ContinuationLoads(p, Live(float)) /\ ~Restores(p, s.step, float)
        /\ \A p \in {o, c} : ~Data!AdapterLoads(p, Live(float))

\* Files of different packages are not taken for one.
ASSUME MixesAreRefused ==
  \A r, s, t \in {State(TRUE, a, x, n, z, 1) : a, x, z \in 0..1, n \in 1..2} :
    \A write \in {"ordinary", "continuation"} :
      LET Written(u) == IF write = "ordinary" THEN Ordinary(u) ELSE Continuation(u)
          p == [adapter |-> Written(r).adapter, optimizer |-> Written(s).optimizer,
                manifest |-> Written(t).manifest]
      IN  (IF write = "ordinary" THEN Data!OrdinaryLoads(p, Live(TRUE), Binding) ELSE Restores(p, 1, TRUE))
            <=> r.vars = t.vars /\ s.m = t.m /\ s.v = t.v

\* A package that anything of is changed is refused by its reader.
LOCAL Other(x) == IF x = 1 THEN 2 ELSE 1
LOCAL SpoiltManifests(m) ==
  {[m EXCEPT !.version = 1], [m EXCEPT !.version = 2], [m EXCEPT !.version = 3], [m EXCEPT !.version = 4],
   [m EXCEPT !.step = Other(@)], [m EXCEPT !.num = @ + 1], [m EXCEPT !.t = {}], [m EXCEPT !.t = {3}],
   [m EXCEPT !.moments = {}], [m EXCEPT !.moments = {1}], [m EXCEPT !.sampler = {}], [m EXCEPT !.sampler = {2}],
   [m EXCEPT !.recipe = {}], [m EXCEPT !.recipe = {"qk"}], [m EXCEPT !.continuation = {}], [m EXCEPT !.ordinary = {}]}
LOCAL Damaged(p) ==
  {[p EXCEPT !.adapter = SubSeq(@, 1, 1)], [p EXCEPT !.adapter[1].value = 2], [p EXCEPT !.adapter[1].shape = 2],
   [p EXCEPT !.optimizer = {}], [p EXCEPT !.optimizer = {[o EXCEPT !.m = o.v, !.v = o.m] : o \in @}],
   [p EXCEPT !.optimizer = {[o EXCEPT !.m = SubSeq(@, 1, 1)] : o \in @}]}
LOCAL SpoiltIdentities(i) ==
  {[i EXCEPT !.kind = "other"], [i EXCEPT !.frozen = "other"], [i EXCEPT !.config = "other"],
   [i EXCEPT !.schema[2][1] = {}], [i EXCEPT !.adapter[2][1].value = 2], [i EXCEPT !.optimizer[2][1] = 3],
   [i EXCEPT !.sampler[2] = 2], [i EXCEPT !.envelope[2][2] = 3]}
LOCAL SpoiltContinuations(c) ==
  {[c EXCEPT !.format = 1], [c EXCEPT !.format = 2], [c EXCEPT !.format = 4], [c EXCEPT !.kind = "other"],
   [c EXCEPT !.world = {}], [c EXCEPT !.world = {1}], [c EXCEPT !.tp = {2}], [c EXCEPT !.layout = {"outer"}],
   [c EXCEPT !.completed = Other(@)], [c EXCEPT !.policy = "other"], [c EXCEPT !.config[2][2] = 3],
   [c EXCEPT !.schema[2][1] = {}], [c EXCEPT !.adapter[2][1].value = 2], [c EXCEPT !.optimizer[2][1] = 3],
   [c EXCEPT !.sampler[2] = 2], [c EXCEPT !.parent = "other"], [c EXCEPT !.consumed = "other"],
   [c EXCEPT !.lineage[2][1] = "other"]}
ASSUME SpoiltPackagesAreRefused ==
  \A s \in States(TRUE) :
    LET o == Ordinary(s)
        c == Continuation(s)
    IN  /\ \A p \in (Damaged(o)
                       \cup {[o EXCEPT !.manifest = m] : m \in SpoiltManifests(o.manifest) \cup {[o.manifest EXCEPT !.explicit = FALSE]}}
                       \cup UNION {{[o EXCEPT !.manifest.ordinary = {j}] : j \in SpoiltIdentities(i)} : i \in o.manifest.ordinary}) \ {o} :
             ~Data!OrdinaryLoads(p, Live(TRUE), Binding)
        /\ \A p \in (Damaged(c)
                       \cup {[c EXCEPT !.manifest = m] : m \in SpoiltManifests(c.manifest)}
                       \cup UNION {{[c EXCEPT !.manifest.continuation = {j}] : j \in SpoiltContinuations(i)} : i \in c.manifest.continuation}) \ {c} :
             ~Restores(p, s.step, TRUE)

(***************************************************************************)
(* Directories.                                                            *)
(***************************************************************************)
LOCAL Entry(step, manifests) == [aside |-> FALSE, step |-> step, dir |-> TRUE, manifest |-> manifests]
LOCAL At(step) == State(TRUE, 0, 0, 1, 0, step)
LOCAL AdapterAt(n) == Entry(n, {Data!WriteAdapter(At(n), {"qv"}).manifest})
LOCAL OrdinaryAt(n) == Entry(n, {Ordinary(At(n)).manifest})
LOCAL ContinuationAt(n) == Entry(n, {Continuation(At(n)).manifest})
LOCAL ClaimAt(n) == Entry(n, {})
LOCAL FileAt(n) == [ClaimAt(n) EXCEPT !.dir = FALSE]
LOCAL AsideAt(n) == [OrdinaryAt(n) EXCEPT !.aside = TRUE]
LOCAL MisplacedAt(n) == Entry(n, {Ordinary(At(n + 1)).manifest})
LOCAL StrayAt(n) == Entry(n, {Continuation(At(n + 1)).manifest})

\* All that a run that was killed, and then another, may have left of a step.
LOCAL Left(n) ==
  {{}, {OrdinaryAt(n)}, {ContinuationAt(n)}, {AdapterAt(n)}, {ClaimAt(n)}, {FileAt(n)}, {AsideAt(n)},
   {OrdinaryAt(n), AsideAt(n)}, {ClaimAt(n), AsideAt(n)}, {MisplacedAt(n)}, {StrayAt(n)}}
LOCAL Listings == {a \cup b \cup c : a \in Left(1), b \in Left(2), c \in Left(3)}
LOCAL StepsOf(listing, Kind(_)) == {n \in 1..3 : Kind(n) \in listing}

\* A resume goes back behind no ordinary checkpoint, and behind no name that might have
\* been one; what is passed over is a continuation or an adapter.
ASSUME NoStepIsReplayed ==
  \A listing \in Listings :
    LET latest == Data!LatestCheckpoint(listing) IN
    ~latest.error =>
      /\ latest.step \subseteq StepsOf(listing, OrdinaryAt)
      /\ \A e \in listing :
           (\A n \in latest.step : e.step > n) => e \in {AdapterAt(e.step), ContinuationAt(e.step), StrayAt(e.step)}

\* Damage to one entry changes the outcome to an error or not at all, if the entry is
\* an ordinary checkpoint; a continuation is then passed over for an older one.
ASSUME DamageIsSeen ==
  \A listing \in Listings, n \in 1..3 :
    LET before == Data!LatestCheckpoint(listing)
        after == Data!LatestCheckpoint((listing \ {OrdinaryAt(n)}) \cup {ClaimAt(n)})
        older == Data!LatestContinuation((listing \ {ContinuationAt(n)}) \cup {ClaimAt(n)})
    IN  /\ OrdinaryAt(n) \in listing => after = before \/ after.error
        /\ ContinuationAt(n) \in listing => \A k \in older.step : k \in StepsOf(listing, ContinuationAt) \ {n}

\* Neither discovery takes the packages of the other.
ASSUME KindsStayApart ==
  \A listing \in Listings :
    /\ Data!LatestCheckpoint(listing \ {ContinuationAt(n) : n \in 1..3}) = Data!LatestCheckpoint(listing)
    /\ LET steps == StepsOf(listing, ContinuationAt)
       IN  Data!LatestContinuation(listing).step = {n \in steps : \A k \in steps : k <= n}
=============================================================================
