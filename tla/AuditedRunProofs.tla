------------------------------ MODULE AuditedRunProofs -----------------------------
(***************************************************************************)
(* Whatever launches, audits and discoveries do, in whatever order they    *)
(* fail, the output is the slot that ArtifactSlot specifies: the first     *)
(* part.  The second part is about the launches alone: their ranks stay in *)
(* lockstep, what lies in a run directory is evidence of one launch, and   *)
(* an id that is read by a later launch is of one that never formed.       *)
(***************************************************************************)
EXTENDS AuditedRun, FiniteSetTheorems, WellFoundedInduction, TLAPS

\* The steps in which a publisher has the output for itself.
Working == {"stage", "anchor", "measure", "link", "fence", "commit", "settle"}

TypeInv ==
  /\ at \in [Publishers -> Working \cup Ended \cup {"claim", "search"}]
  /\ owner \in Publishers \cup {NoOne}
  /\ durable \subseteq entries

\* Whoever works on the output has made it.
Exclusive == \A p \in Publishers : at[p] \in Working => owner = p

\* The fence finds the payload complete, and after it the payload cannot be lost.
Fenced == \A p \in Publishers :
  /\ at[p] = "fence" => Payload \subseteq entries
  /\ at[p] \in {"commit", "settle"} => Payload \subseteq durable /\ anchored
  /\ at[p] = "settle" => Manifest \in entries

\* A manifest stands over a bundle that cannot be lost, of a publisher past its link.
Safe ==
  /\ Payload \subseteq durable /\ anchored
  /\ owner # NoOne /\ at[owner] \in {"settle", "published", "indeterminate", "dead"}
Backed == Manifest \in entries => Safe

\* What was reported cannot be lost at all.
Kept == \A p \in Publishers : at[p] = "published" => owner = p /\ Manifest \in durable

ArtifactInv == TypeInv /\ Exclusive /\ Fenced /\ Backed /\ Kept

LEMMA InitHolds == AuditedInit => ArtifactInv
BY DEF AuditedInit, ArtifactInit, ArtifactInv, TypeInv, Exclusive, Fenced, Backed, Safe, Kept, Working, Ended

LEMMA PowerFailsHolds == ASSUME ArtifactInv, PowerFails PROVE ArtifactInv'
<1> USE ArtifactAssumption DEF ArtifactInv, TypeInv, Exclusive, Fenced, Backed, Safe, Kept
<1>1. /\ at' = [p \in Publishers |-> IF at[p] \in Ended THEN at[p] ELSE "dead"]
      /\ owner' \in {owner, NoOne} /\ durable' = entries'
  BY DEF PowerFails
<1>2. \A p \in Publishers : at'[p] \in Ended
  BY <1>1 DEF Ended
<1>3. TypeInv'
  BY <1>1, <1>2
<1>4. Exclusive' /\ Fenced'
  BY <1>2 DEF Ended, Working
<1>5. CASE \E lost \in SUBSET (entries \ durable) : entries' = entries \ lost /\ anchored' = (owner # NoOne) /\ owner' = owner
  <2>1. durable \subseteq entries' /\ entries' \subseteq entries
    BY <1>5
  <2>2. Backed'
    <3>1. ASSUME Manifest \in entries' PROVE Safe'
      <4>1. Payload \subseteq durable /\ owner # NoOne /\ owner \in Publishers
            /\ at[owner] \in {"settle", "published", "indeterminate", "dead"}
        BY <2>1, <3>1
      <4>2. at'[owner] \in {"published", "indeterminate", "dead"}
        BY <4>1, <1>1 DEF Ended
      <4>3. QED
        BY <4>1, <4>2, <2>1, <1>1, <1>5
    <3>2. QED
      BY <3>1
  <2>3. Kept'
    BY <1>1, <1>5, <2>1
  <2>4. QED
    BY <1>3, <1>4, <2>2, <2>3
<1>6. CASE ~anchored /\ entries' = {} /\ owner' = NoOne
  <2>1. Manifest \notin entries
    BY <1>6
  <2>2. \A p \in Publishers : at'[p] # "published"
    BY <1>1, <2>1
  <2>3. QED
    BY <1>3, <1>4, <1>6, <2>2
<1>7. QED
  BY <1>5, <1>6 DEF PowerFails

LEMMA StepHolds == ASSUME ArtifactInv, [AuditedNext]_auditedVars PROVE ArtifactInv'
<1> USE ArtifactAssumption DEF ArtifactInv, TypeInv, Exclusive, Fenced, Backed, Safe, Kept
<1> DEFINE Move == \E p \in Publishers :
             \/ Claim(p) \/ MakeStage(p) \/ Anchor(p) \/ Measure(p) \/ Link(p) \/ Fence(p) \/ Commit(p)
             \/ Settle(p) \/ PublisherDies(p) \/ LoadCandidate(p) \/ Discover(p) \/ Search(p)
<1>1. ASSUME UNCHANGED artifactVars PROVE ArtifactInv'
  BY <1>1 DEF artifactVars
<1>2. ASSUME Clear PROVE ArtifactInv'
  <2>1. /\ owner' = NoOne /\ entries' = {} /\ durable' = {} /\ at' = at
        /\ owner \in Publishers /\ at[owner] \in Ended /\ Manifest \notin entries
    BY <1>2 DEF Clear
  <2>2. \A p \in Publishers : at[p] \notin Working /\ at[p] # "published"
    BY <2>1 DEF Ended, Working
  <2>3. \A p \in Publishers : at[p] \notin {"fence", "commit", "settle"}
    BY <2>2 DEF Working
  <2>4. QED
    BY <2>1, <2>2, <2>3
<1>3. ASSUME NEW p \in Publishers, Claim(p) PROVE ArtifactInv'
  <2>1. \E step \in {"failed", "stage", "anchor"} : at' = [at EXCEPT ![p] = step] /\ (step # "failed" => owner' = p)
    BY <1>3 DEF Claim, Goes
  <2>2. at[p] = "claim" /\ entries' = entries /\ durable' = durable /\ anchored' = anchored /\ owner' \in {owner, p}
    BY <1>3 DEF Claim
  <2>3. owner # NoOne => owner' = owner
    BY <1>3 DEF Claim
  <2>4. \A q \in Publishers : at[q] \in Working => owner # NoOne
    OBVIOUS
  <2>5. QED
    BY <2>1, <2>2, <2>3, <2>4 DEF Working, Ended
<1>4. ASSUME NEW p \in Publishers, MakeStage(p) \/ Anchor(p) \/ Measure(p) PROVE ArtifactInv'
  <2>1. \E step \in {"failed", "anchor", "measure", "link"} : at' = [at EXCEPT ![p] = step]
    BY <1>4 DEF MakeStage, Anchor, Measure, Goes
  <2>2. /\ at[p] \in {"stage", "anchor", "measure"} /\ owner' = owner /\ entries' = entries /\ durable' = durable
        /\ anchored' \in {anchored, TRUE}
    BY <1>4 DEF MakeStage, Anchor, Measure
  <2>3. QED
    BY <2>1, <2>2 DEF Working, Ended
<1>5. ASSUME NEW p \in Publishers, Link(p) PROVE ArtifactInv'
  <2>1. \E step \in {"failed", "link", "fence"} : at' = [at EXCEPT ![p] = step] /\ (step = "fence" => Payload \subseteq entries)
    BY <1>5 DEF Link, Goes
  <2>2. /\ at[p] = "link" /\ owner' = owner /\ durable' = durable /\ anchored' = anchored
        /\ entries \subseteq entries' /\ entries' \subseteq entries \cup Payload
    BY <1>5 DEF Link
  <2>3. owner = p /\ Manifest \notin entries'
    BY <2>2 DEF Working
  <2>4. QED
    BY <2>1, <2>2, <2>3 DEF Working, Ended
<1>6. ASSUME NEW p \in Publishers, Fence(p) PROVE ArtifactInv'
  <2>1. at[p] = "fence" /\ owner = p /\ Manifest \notin entries
    BY <1>6 DEF Fence, Working
  <2>2. /\ owner' = owner /\ entries' = entries
        /\ \/ at' = [at EXCEPT ![p] = "failed"] /\ durable' \in {durable, entries} /\ anchored' = anchored
           \/ at' = [at EXCEPT ![p] = "commit"] /\ durable' = entries /\ anchored' = TRUE
    BY <1>6 DEF Fence, Goes
  <2>3. \A q \in Publishers \ {p} : at[q] \notin Working /\ at[q] # "published"
    BY <2>1
  <2>4. QED
    BY <2>1, <2>2, <2>3 DEF Working, Ended
<1>7. ASSUME NEW p \in Publishers, Commit(p) PROVE ArtifactInv'
  <2>1. at[p] = "commit" /\ owner = p /\ Payload \subseteq durable /\ anchored
    BY <1>7 DEF Commit, Working
  <2>2. /\ owner' = owner /\ durable' = durable /\ anchored' = anchored
        /\ \/ at' = [at EXCEPT ![p] = "failed"] /\ entries' = entries
           \/ at' = [at EXCEPT ![p] = "settle"] /\ entries' = entries \cup {Manifest}
    BY <1>7 DEF Commit, Goes
  <2>3. Manifest \notin entries
    BY <2>1
  <2>4. QED
    BY <2>1, <2>2, <2>3 DEF Working, Ended
<1>8. ASSUME NEW p \in Publishers, Settle(p) PROVE ArtifactInv'
  <2>1. at[p] = "settle" /\ owner = p /\ Payload \subseteq durable /\ anchored
    BY <1>8 DEF Settle, Working
  <2>2. /\ owner' = owner /\ entries' = entries /\ anchored' = anchored
        /\ \/ at' = [at EXCEPT ![p] = "indeterminate"] /\ durable' \in {durable, entries}
           \/ at' = [at EXCEPT ![p] = "published"] /\ durable' = entries
    BY <1>8 DEF Settle, Goes
  <2>3. Manifest \in entries
    BY <2>1
  <2>4. QED
    BY <2>1, <2>2, <2>3 DEF Working, Ended
<1>9. ASSUME NEW p \in Publishers, PublisherDies(p) PROVE ArtifactInv'
  BY <1>9 DEF PublisherDies, Goes, Working, Ended
<1>10. ASSUME NEW p \in Publishers, LoadCandidate(p) \/ Discover(p) \/ Search(p) PROVE ArtifactInv'
  <2>1. /\ at[p] \in {"idle", "search"}
        /\ \E step \in {"claim", "search", "failed"} : at' = [at EXCEPT ![p] = step]
        /\ UNCHANGED <<owner, entries, anchored, durable>>
    BY <1>10 DEF LoadCandidate, Discover, Search, Becomes
  <2>2. QED
    BY <2>1 DEF Working, Ended
<1>11. CASE Move
  BY <1>3, <1>4, <1>5, <1>6, <1>7, <1>8, <1>9, <1>10, <1>11
<1>12. CASE PowerFails
  BY <1>12, PowerFailsHolds
<1>13. [AuditedNext]_auditedVars => Move \/ PowerFails \/ Clear \/ UNCHANGED artifactVars
  BY DEF AuditedNext, PublisherNext, Finished, auditedVars, Move
<1>14. QED
  BY <1>1, <1>2, <1>11, <1>12, <1>13

(***************************************************************************)
(* Each step is one of the slot, or none.                                  *)
(***************************************************************************)
\* What the refinement makes of a state.
Seen == IF Manifest \notin entries THEN NoOne
        ELSE IF Payload \subseteq entries THEN owner ELSE Manifest
Told == {p \in Publishers : at[p] = "published"}

LEMMA SeenOwner == ASSUME ArtifactInv PROVE Seen = IF Manifest \in entries THEN owner ELSE NoOne
BY DEF ArtifactInv, TypeInv, Backed, Safe, Seen

\* Of the publication's steps only Commit and Settle do anything to the slot.
LEMMA QuietSteps ==
  ASSUME ArtifactInv, NEW p \in Publishers,
         \/ Claim(p) \/ MakeStage(p) \/ Anchor(p) \/ Measure(p) \/ Link(p) \/ Fence(p)
         \/ PublisherDies(p) \/ LoadCandidate(p) \/ Discover(p) \/ Search(p)
  PROVE  Seen' = Seen /\ Told' = Told
<1> USE ArtifactAssumption
<1>1. \E step \in {"failed", "stage", "anchor", "measure", "link", "fence", "commit", "dead", "claim", "search"} :
        at' = [at EXCEPT ![p] = step]
  <2> USE ArtifactAssumption DEF Goes, ArtifactInv, TypeInv
  <2>1. CASE Claim(p) \/ MakeStage(p) \/ Anchor(p) \/ Measure(p)
    BY <2>1 DEF Claim, MakeStage, Anchor, Measure
  <2>2. CASE Link(p)
    <3>1. at' = at => at' = [at EXCEPT ![p] = "link"]
      BY <2>2 DEF Link
    <3>2. QED
      BY <2>2, <3>1 DEF Link
  <2>3. CASE Fence(p) \/ PublisherDies(p)
    BY <2>3 DEF Fence, PublisherDies
  <2>4. CASE LoadCandidate(p) \/ Discover(p) \/ Search(p)
    BY <2>4 DEF LoadCandidate, Discover, Search, Becomes
  <2>5. QED
    BY <2>1, <2>2, <2>3, <2>4
<1>2. at[p] # "published"
  BY DEF Claim, MakeStage, Anchor, Measure, Link, Fence, PublisherDies, LoadCandidate, Discover, Search,
         Becomes, Ended
<1>3. Told' = Told
  BY <1>1, <1>2 DEF Told, ArtifactInv, TypeInv
<1>4. CASE Claim(p)
  <2>1. entries' = entries /\ (owner # NoOne => owner' = owner)
    BY <1>4 DEF Claim
  <2>2. owner = NoOne => Manifest \notin entries
    BY DEF ArtifactInv, Backed, Safe
  <2>3. QED
    BY <1>3, <2>1, <2>2 DEF Seen
<1>5. CASE Link(p)
  <2>1. /\ at[p] = "link" /\ entries \subseteq entries' /\ entries' \subseteq entries \cup Payload
    BY <1>5 DEF Link
  <2>2. Manifest \notin entries /\ Manifest \notin entries'
    BY <2>1 DEF ArtifactInv, TypeInv, Exclusive, Backed, Safe, Working
  <2>3. QED
    BY <1>3, <2>2 DEF Seen
<1>6. CASE ~(Claim(p) \/ Link(p))
  <2>1. UNCHANGED <<owner, entries>>
    BY <1>6 DEF MakeStage, Anchor, Measure, Fence, PublisherDies, LoadCandidate, Discover, Search, Becomes
  <2>2. QED
    BY <1>3, <2>1 DEF Seen
<1>7. QED
  BY <1>3, <1>4, <1>5, <1>6

LEMMA CommitPublishes ==
  ASSUME ArtifactInv, NEW p \in Publishers, Commit(p)
  PROVE  Told' = Told /\ (Seen' = Seen \/ (Seen = NoOne /\ Seen' = p))
<1> USE ArtifactAssumption DEF ArtifactInv, TypeInv
<1>1. at[p] = "commit" /\ owner = p /\ Manifest \notin entries /\ Payload \subseteq entries
  BY DEF Commit, Working, Exclusive, Fenced, Backed, Safe
<1>2. /\ owner' = owner /\ entries' \in {entries, entries \cup {Manifest}}
      /\ \E step \in {"failed", "settle"} : at' = [at EXCEPT ![p] = step]
  BY DEF Commit, Goes
<1>3. Told' = Told
  BY <1>1, <1>2 DEF Told
<1>4. QED
  BY <1>1, <1>2, <1>3 DEF Seen

LEMMA SettleTells ==
  ASSUME ArtifactInv, NEW p \in Publishers, Settle(p)
  PROVE  Seen = p /\ Seen' = Seen /\ (Told' = Told \/ Told' = Told \cup {p})
<1> USE ArtifactAssumption DEF ArtifactInv, TypeInv
<1>1. at[p] = "settle" /\ owner = p /\ Manifest \in entries
  BY DEF Settle, Working, Exclusive, Fenced
<1>2. /\ owner' = owner /\ entries' = entries
      /\ \E step \in {"published", "indeterminate"} : at' = [at EXCEPT ![p] = step]
  BY DEF Settle, Goes
<1>3. Told' = Told \/ Told' = Told \cup {p}
  BY <1>1, <1>2 DEF Told
<1>4. Seen = p
  BY <1>1, SeenOwner
<1>5. QED
  BY <1>2, <1>3, <1>4 DEF Seen

LEMMA PowerLoses ==
  ASSUME ArtifactInv, PowerFails
  PROVE  Told' = Told /\ (Seen' = Seen \/ (Seen \notin Told /\ Seen' = NoOne))
<1> USE ArtifactAssumption
<1>1. Told' = Told
  BY DEF PowerFails, Told, Ended, ArtifactInv, TypeInv
<1>2. ArtifactInv'
  BY PowerFailsHolds
<1>3. entries' \subseteq entries /\ owner' \in {owner, NoOne}
  BY DEF PowerFails
<1>4. Seen = (IF Manifest \in entries THEN owner ELSE NoOne)
  BY SeenOwner
<1>5. Seen' = (IF Manifest \in entries' THEN owner' ELSE NoOne)
  BY <1>2 DEF Seen, ArtifactInv, TypeInv, Backed, Safe
<1>6. ASSUME Manifest \in entries' PROVE owner' = owner
  BY <1>6, <1>3 DEF PowerFails
<1>7. ASSUME Seen \in Told PROVE Manifest \in entries'
  <2>1. Manifest \in durable /\ anchored
    BY <1>4, <1>7 DEF Told, ArtifactInv, TypeInv, Kept, Backed, Safe
  <2>2. Manifest \in entries
    BY <2>1 DEF ArtifactInv, TypeInv
  <2>3. QED
    BY <2>1, <2>2 DEF PowerFails
<1>8. QED
  BY <1>1, <1>3, <1>4, <1>5, <1>6, <1>7

LEMMA ClearIsUnseen == ASSUME ArtifactInv, Clear PROVE Seen' = Seen /\ Told' = Told
BY DEF Clear, Seen, Told

\* The publication of artifacts is the slot that a reader relies on, for any number
\* of launches, audits and discoveries: link_staged_manifest_last in artifact.rs.
THEOREM ArtifactsAreKept == AuditedSpec => ImplementsArtifact
<1>1. AuditedInit => ArtifactInv
  BY InitHolds
<1>2. ArtifactInv /\ [AuditedNext]_auditedVars => ArtifactInv'
  BY StepHolds
<1>3. AuditedInit => Slot!Init
  BY ArtifactAssumption DEF AuditedInit, ArtifactInit, Slot!Init
<1>4. ArtifactInv /\ [AuditedNext]_auditedVars => [Slot!Next]_<<Seen, Told>>
  <2> SUFFICES ASSUME ArtifactInv, [AuditedNext]_auditedVars PROVE [Slot!Next]_<<Seen, Told>>
    OBVIOUS
  <2>1. ASSUME UNCHANGED artifactVars PROVE UNCHANGED <<Seen, Told>>
    BY <2>1 DEF artifactVars, Seen, Told
  <2>2. ASSUME NEW p \in Publishers, Commit(p) PROVE [Slot!Next]_<<Seen, Told>>
    BY <2>2, CommitPublishes DEF Slot!Next, Slot!Publish, Seen, Told
  <2>3. ASSUME NEW p \in Publishers, Settle(p) PROVE [Slot!Next]_<<Seen, Told>>
    BY <2>3, SettleTells DEF Slot!Next, Slot!Tell, Seen, Told
  <2>4. CASE PowerFails
    BY <2>4, PowerLoses DEF Slot!Next, Slot!Lose, Seen, Told
  <2>5. CASE Clear
    BY <2>5, ClearIsUnseen
  <2>6. ASSUME NEW p \in Publishers,
               \/ Claim(p) \/ MakeStage(p) \/ Anchor(p) \/ Measure(p) \/ Link(p) \/ Fence(p)
               \/ PublisherDies(p) \/ LoadCandidate(p) \/ Discover(p) \/ Search(p)
        PROVE UNCHANGED <<Seen, Told>>
    BY <2>6, QuietSteps
  <2>7. QED
    BY <2>1, <2>2, <2>3, <2>4, <2>5, <2>6 DEF AuditedNext, PublisherNext, Finished, auditedVars
<1>5. QED
  BY <1>1, <1>2, <1>3, <1>4, PTL DEF AuditedSpec, ImplementsArtifact, Slot!Spec, Seen, Told

(***************************************************************************)
(* The sum of what the ranks say.                                          *)
(***************************************************************************)
Pick(s) == CHOOSE x \in s : TRUE
Next1(l, g, s) == IF s = {} THEN 0 ELSE job[l][Pick(s)].said + g[s \ {Pick(s)}]
Sums(l, g) == g = [s \in SUBSET Ranks(l) |-> Next1(l, g, s)]

\* Sets of ranks up to a size, and sums of those.
UpTo(l, n) == {s \in SUBSET Ranks(l) : Cardinality(s) <= n}
SumsUpTo(l, n, g) == g = [s \in UpTo(l, n) |-> Next1(l, g, s)]

LEMMA LeastNatural == ASSUME NEW S, S \subseteq Nat, S # {} PROVE \E i \in S : \A j \in S : i <= j
<1> DEFINE R == OpToRel(<, Nat)
<1>1. IsWellFoundedOn(R, Nat)
  BY NatLessThanWellFounded
<1>2. R = {p \in Nat \X Nat : p[1] < p[2]}
  BY DEF OpToRel
<1> HIDE DEF R
<1>3. PICK i \in S : \A j \in S : ~ (<<j, i>> \in R)
  BY <1>1, WFMin
<1>4. ASSUME NEW j \in S PROVE i <= j
  <2>1. j \in Nat /\ i \in Nat
    OBVIOUS
  <2>2. ~ (<<j, i>> \in {p \in Nat \X Nat : p[1] < p[2]})
    BY <1>2, <1>3
  <2>3. <<j, i>> \in Nat \X Nat /\ <<j, i>>[1] = j /\ <<j, i>>[2] = i
    BY <2>1
  <2>4. ~ (j < i)
    BY <2>2, <2>3
  <2> QED BY <2>1, <2>4
<1> QED BY <1>3, <1>4

\* A set of ranks without its first one.
LEMMA Smaller ==
  ASSUME NEW l \in Launches, NEW s \in SUBSET Ranks(l)
  PROVE  /\ Cardinality(s) \in Nat /\ (Cardinality(s) = 0 <=> s = {})
         /\ s # {} => /\ Pick(s) \in s /\ s \ {Pick(s)} \in SUBSET Ranks(l)
                      /\ Cardinality(s \ {Pick(s)}) = Cardinality(s) - 1
<1>1. IsFiniteSet(Ranks(l))
  <2>1. World[l] - 1 \in Int
    BY LaunchAssumption
  <2> QED BY <2>1, FS_Interval DEF Ranks
<1>2. IsFiniteSet(s)
  BY <1>1, FS_Subset
<1>3. Cardinality(s) \in Nat /\ (Cardinality(s) = 0 <=> s = {})
  BY <1>2, FS_CardinalityType, FS_EmptySet
<1>4. ASSUME s # {} PROVE Pick(s) \in s
  BY <1>4 DEF Pick
<1>5. ASSUME s # {} PROVE Cardinality(s \ {Pick(s)}) = Cardinality(s) - 1
  BY <1>2, <1>4, <1>5, FS_RemoveElement
<1> QED BY <1>3, <1>4, <1>5

LEMMA SumsExist == ASSUME NEW l \in Launches PROVE \E g : Sums(l, g)
<1> DEFINE Bad == {n \in Nat : ~ \E g : SumsUpTo(l, n, g)}
<1>1. Bad = {}
  <2> SUFFICES ASSUME Bad # {} PROVE FALSE
    OBVIOUS
  <2>1. PICK n \in Bad : \A m \in Bad : n <= m
    BY LeastNatural
  <2>2. ~ \E g : SumsUpTo(l, n, g)
    OBVIOUS
  <2>3. CASE n = 0
    <3>1. ASSUME NEW s \in UpTo(l, 0) PROVE s = {}
      <4>1. s \in SUBSET Ranks(l) /\ Cardinality(s) <= 0
        BY DEF UpTo
      <4>2. Cardinality(s) \in Nat /\ (Cardinality(s) = 0 <=> s = {})
        BY <4>1, Smaller
      <4> QED BY <4>1, <4>2
    <3>2. SumsUpTo(l, 0, [s \in UpTo(l, 0) |-> 0])
      BY <3>1 DEF SumsUpTo, Next1
    <3> QED BY <2>2, <2>3, <3>2
  <2>4. CASE n # 0
    <3>1. n - 1 \in Nat /\ n - 1 \notin Bad
      BY <2>1, <2>4
    <3>2. PICK g : SumsUpTo(l, n - 1, g)
      BY <3>1
    <3> DEFINE h == [s \in UpTo(l, n) |-> Next1(l, g, s)]
    <3>3. ASSUME NEW s \in UpTo(l, n - 1) PROVE s \in UpTo(l, n) /\ h[s] = g[s]
      <4>1. s \in SUBSET Ranks(l) /\ Cardinality(s) <= n - 1
        BY DEF UpTo
      <4>2. Cardinality(s) \in Nat
        BY <4>1, Smaller
      <4>3. s \in UpTo(l, n)
        BY <4>1, <4>2, <3>1 DEF UpTo
      <4>4. g[s] = Next1(l, g, s)
        <5> HIDE DEF h
        <5> QED BY <3>2 DEF SumsUpTo
      <4>5. h[s] = Next1(l, g, s)
        BY <4>3
      <4> QED BY <4>3, <4>4, <4>5
    <3>4. ASSUME NEW s \in UpTo(l, n) PROVE Next1(l, g, s) = Next1(l, h, s)
      <4>1. CASE s = {}
        BY <4>1 DEF Next1
      <4>2. CASE s # {}
        <5>1. s \ {Pick(s)} \in UpTo(l, n - 1)
          BY <3>1, <4>2, Smaller DEF UpTo
        <5>2. h[s \ {Pick(s)}] = g[s \ {Pick(s)}]
          BY <3>3, <5>1
        <5> HIDE DEF h
        <5> QED BY <5>2 DEF Next1
      <4> QED BY <4>1, <4>2
    <3>5. h = [s \in UpTo(l, n) |-> Next1(l, h, s)]
      BY <3>4
    <3>6. SumsUpTo(l, n, h)
      BY <3>5 DEF SumsUpTo
    <3> HIDE DEF h
    <3> QED BY <2>2, <3>6
  <2> QED BY <2>3, <2>4
<1>2. PICK n \in Nat : \A s \in SUBSET Ranks(l) : Cardinality(s) <= n
  <2>1. World[l] - 1 \in Int
    BY LaunchAssumption
  <2>2. IsFiniteSet(Ranks(l))
    BY <2>1, FS_Interval DEF Ranks
  <2>3. IsFiniteSet(Ranks(l)) /\ Cardinality(Ranks(l)) \in Nat
    BY <2>2, FS_CardinalityType
  <2>4. \A s \in SUBSET Ranks(l) : Cardinality(s) <= Cardinality(Ranks(l))
    BY <2>3, FS_Subset
  <2> QED BY <2>3, <2>4
<1>3. UpTo(l, n) = SUBSET Ranks(l)
  BY <1>2 DEF UpTo
<1>4. \E g : SumsUpTo(l, n, g)
  BY <1>1
<1> QED BY <1>3, <1>4 DEF SumsUpTo, Sums

\* A sum of naturals is zero only if all are, and the only one that is not zero
\* if there is just one.
LEMMA SumOfAll ==
  ASSUME NEW l \in Launches, \A r \in Ranks(l) : job[l][r].said \in Nat
  PROVE  /\ Sum(l) \in Nat
         /\ Sum(l) = 0 => \A r \in Ranks(l) : job[l][r].said = 0
         /\ (\A r \in Ranks(l) \ {0} : job[l][r].said = 0) => Sum(l) = job[l][0].said
<1> DEFINE g == CHOOSE g : Sums(l, g)
<1>1. Sum(l) = g[Ranks(l)]
  BY DEF Sum, MapThenSumSet, MapThenFoldSet, Sums, Next1, Pick
<1>2. Sums(l, g)
  BY SumsExist
<1> HIDE DEF g
<1> DEFINE Good(s) == /\ g[s] \in Nat
                      /\ g[s] = 0 => \A r \in s : job[l][r].said = 0
                      /\ (\A r \in Ranks(l) \ {0} : job[l][r].said = 0) =>
                            g[s] = IF 0 \in s THEN job[l][0].said ELSE 0
           Bad == {n \in Nat : \E s \in SUBSET Ranks(l) : Cardinality(s) = n /\ ~Good(s)}
<1>3. ASSUME NEW s \in SUBSET Ranks(l) PROVE g[s] = Next1(l, g, s)
  BY <1>2 DEF Sums
<1>4. Bad = {}
  <2> SUFFICES ASSUME Bad # {} PROVE FALSE
    OBVIOUS
  <2>1. PICK n \in Bad : \A m \in Bad : n <= m
    BY LeastNatural
  <2>2. PICK s \in SUBSET Ranks(l) : Cardinality(s) = n /\ ~Good(s)
    OBVIOUS
  <2>3. CASE s = {}
    <3>1. g[s] = 0
      BY <1>3, <2>3 DEF Next1
    <3> QED BY <2>2, <2>3, <3>1
  <2>4. CASE s # {}
    <3> DEFINE p == Pick(s)
               t == s \ {p}
    <3>1. p \in s /\ t \in SUBSET Ranks(l) /\ Cardinality(t) = n - 1 /\ n - 1 \in Nat
      BY <2>2, <2>4, Smaller
    <3>2. Good(t)
      <4>1. n - 1 \notin Bad
        BY <2>1, <3>1
      <4> QED BY <3>1, <4>1
    <3>3. g[s] = job[l][p].said + g[t] /\ s = t \cup {p} /\ p \notin t
      BY <1>3, <2>4, <3>1 DEF Next1
    <3>4. job[l][p].said \in Nat /\ (p # 0 => p \in Ranks(l) \ {0})
      BY <3>1
    <3> HIDE DEF p, t
    <3>5. g[t] \in Nat /\ g[s] \in Nat
      BY <3>2, <3>3, <3>4
    <3>6. g[s] = 0 => \A r \in s : job[l][r].said = 0
      BY <3>2, <3>3, <3>4, <3>5
    <3>7. ASSUME \A r \in Ranks(l) \ {0} : job[l][r].said = 0
          PROVE  g[s] = IF 0 \in s THEN job[l][0].said ELSE 0
      <4>1. g[t] = IF 0 \in t THEN job[l][0].said ELSE 0
        BY <3>2, <3>7
      <4>2. CASE p = 0
        BY <3>3, <3>4, <3>5, <4>1, <4>2
      <4>3. CASE p # 0
        BY <3>3, <3>4, <3>5, <3>7, <4>1, <4>3
      <4> QED BY <4>2, <4>3
    <3> QED BY <2>2, <3>5, <3>6, <3>7
  <2> QED BY <2>3, <2>4
<1>5. Good(Ranks(l))
  <2>1. Cardinality(Ranks(l)) \in Nat
    BY Smaller
  <2> QED BY <1>4, <2>1
<1>6. 0 \in Ranks(l)
  BY LaunchAssumption DEF Ranks
<1> QED BY <1>1, <1>5, <1>6

(***************************************************************************)
(* The inductive invariant of a launch.                                    *)
(***************************************************************************)
Early == {"boot", "publish", "init"}
Busy == {"remove", "work", "prompt", "record", "call"}
Job == [step : 1 .. 24, doing : Early \cup Busy \cup {"end"}, id : Launches \cup {None},
        litters : BOOLEAN, said : Nat, differs : BOOLEAN,
        end : {None, "failed", "dead", "completed", "preempted"}]
Dir == [prompt : Launches \cup {None}, launch : Launches \cup {None},
        rows : SUBSET Launches, report : Launches \cup {None}]

LaunchTypeOK ==
  /\ DOMAIN job = Launches
  /\ \A l \in Launches : job[l] \in [Ranks(l) -> Job]
  /\ odd \in [Launches -> Items \cup {None}]
  /\ \A l \in Launches \ HeldOut : odd[l] # "report"
  /\ second \in [Launches -> Nat]
  /\ comm \in [Launches -> {"live", "dead"}]
  /\ ids \in [{place[l] : l \in Launches} -> Launches \cup {None}]
  /\ dir \in [Seconds \X AllRanks -> Dir]

\* A rank that has not been told of the communicator is at the first reduction.
Sane(j) ==
  /\ j.doing \in Early \cup {"remove"} => j.step = 1
  /\ j.doing = "end" <=> j.end # None
  /\ j.doing \notin {"call", "end"} => j.said = 0
  /\ j.end = "completed" => j.step = 24
  /\ j.end = "preempted" => j.step = 18
  /\ j.doing \in {"prompt", "record"} => j.step = 17

SameStep(l) == \A q, r \in Ranks(l) : job[l][q].step = job[l][r].step

\* Ranks are all on the way to the communicator, or all have it, or have all ended.
Formed(l) == \A r \in Ranks(l) : job[l][r].doing \in Busy
Forming(l) == \A r \in Ranks(l) :
  job[l][r].doing \in Early \cup {"end"} /\ job[l][r].step = 1 /\ job[l][r].end \in {None, "failed"}
Over(l) == \/ \A r \in Ranks(l) : job[l][r].end = "completed"
           \/ \A r \in Ranks(l) : job[l][r].end = "failed"
           \/ \A r \in Ranks(l) : job[l][r].end = "preempted"
Together(l) ==
  comm[l] = "live" /\ (\A r \in Ranks(l) : job[l][r].end # "dead") =>
    Formed(l) \/ Forming(l) \/ Over(l)

\* What a rank says in a call.
Speaks(l, r, j) ==
  j.doing = "call" =>
    /\ Program[j.step][1] = "share" /\ Program[j.step][2] # "clock" =>
         j.said = IF odd[l] = Program[j.step][2] THEN r ELSE 1
    /\ Program[j.step] = Share("clock") => IF r = 0 THEN j.said \in Seconds ELSE j.said = 0
    /\ Program[j.step][1] = "agree" => j.said = IF j.differs THEN 1 ELSE 0

\* Not both of two ranks can have found the mean to be their own, and no launch
\* passes a comparison of its odd item.
Noticed(l) ==
  Program[job[l][0].step] = Agree(odd[l]) /\ (\A r \in Ranks(l) : job[l][r].doing \in {"work", "call"}) =>
     job[l][0].differs \/ job[l][1].differs
Checked(l) == \A i \in 1 .. 24 : i < job[l][0].step => Program[i] # Agree(odd[l])

\* Whoever has passed a step has left its files, and they are all of one launch.  The
\* report is left out by a launch that has nothing to evaluate.
Filed(l) == IF l \in HeldOut THEN {17, 18, 23} ELSE {17, 18}
Past(j, i) == j.step > i \/ (j.step = i /\ j.doing = "call" /\ j.said = 0)
Papers(l, r) ==
  LET j == job[l][r]  d == dir[RunDir(l, r)]
  IN  /\ j.step > 7 => second[l] \in Seconds
      /\ j.doing = "record" => d.prompt = l
      /\ Past(j, 17) => d.launch = l
      /\ Past(j, 18) => l \in d.rows
      /\ Past(j, 23) /\ r = 0 /\ 23 \in Filed(l) => d.report = l
Record(d) ==
  /\ dir[d].rows \subseteq {dir[d].launch}
  /\ dir[d].launch # None => dir[d].prompt = dir[d].launch
  /\ dir[d].report # None =>
       job[dir[d].report][0].step >= 23 /\ d = RunDir(dir[d].report, 0)

\* Rank 0 of k is not going to remove its id, and: it may still do it.
Stranded(k) == job[k][0].litters \/ (job[k][0].doing = "end" /\ job[k][0].step = 1)
Bound(k) == Stranded(k) \/ job[k][0].doing \in {"init", "remove"}
Shown(f) == ids[f] # None => Bound(ids[f]) /\ place[ids[f]] = f
Known(l, r) == job[l][r].id # None => job[l][r].id = l \/ Stranded(job[l][r].id)

RankInv(l) == /\ \A r \in Ranks(l) : Sane(job[l][r]) /\ Speaks(l, r, job[l][r])
              /\ SameStep(l) /\ Together(l) /\ Noticed(l) /\ Checked(l)

LaunchInv ==
  /\ LaunchTypeOK
  /\ \A l \in Launches : RankInv(l)
  /\ \A l \in Launches : \A r \in Ranks(l) : Papers(l, r)
  /\ \A d \in DOMAIN dir : Record(d)
  /\ \A f \in DOMAIN ids : Shown(f)
  /\ \A l \in Launches : \A r \in Ranks(l) : Known(l, r)

\* The program of the reductions.
LEMMA ProgramFacts ==
  /\ Len(Program) = 24
  /\ \A i \in 1 .. 24 : Program[i][1] \in {"share", "agree", "try"}
  /\ \A i \in 1 .. 24 : Program[i] = Share("clock") <=> i = 7
  /\ \A i \in 1 .. 24 : Program[i][1] = "share" => Program[i] = Share(Program[i][2])
  /\ Program[1][1] = "share" /\ Program[17][1] = "try" /\ Program[24][1] = "try"
  /\ \A i \in 1 .. 24, work \in Private : Program[i] = Try(work) => i \notin {17, 18, 23}
  /\ \A i \in 1 .. 24 : Program[i] = Try("rundir") <=> i = 17
  /\ \A i \in 1 .. 24 : Program[i] = Try("train") <=> i = 18
  /\ \A i \in 1 .. 24 : Program[i] = Try("report") <=> i = 23
  /\ \A i \in 1 .. 24 : Program[i] = Try("candidates") <=> i = 24
  /\ \A i \in 1 .. 24 : Program[i] = Try("health") <=> i = 19
  /\ \A i \in 19 .. 24 : Program[i][1] = "agree" => Program[i] = Agree("report")
BY DEF Program, Share, Agree, Try, Private

LEMMA AgreesFollowShares ==
  /\ \A i \in 1 .. 24 : Program[i][1] = "agree" =>
       /\ i < 23 /\ i - 1 \in 1 .. 24 /\ Program[i - 1] = Share(Program[i][2])
       /\ Program[i - 1] # Share("clock") /\ Program[i] = Agree(Program[i][2])
BY DEF Program, Share, Agree, Try

LEMMA ItemsAreAgreed == \A x \in Items : \E i \in 1 .. 24 : i < 23 /\ Program[i] = Agree(x)
BY ProgramFacts, AgreesFollowShares DEF Items

LEMMA Kinds == \A x, y : /\ Share(x) = <<"share", x>> /\ Agree(y) = <<"agree", y>>
                         /\ Share(x)[1] = "share" /\ Share(x)[2] = x
                         /\ Agree(x)[1] = "agree" /\ Agree(x)[2] = x
                         /\ Try(x)[1] = "try" /\ Try(x)[2] = x
BY DEF Share, Agree, Try

\* A launch without held-out samples goes from step 19 to the last one, and its ranks
\* cannot differ in a report.
LEMMA AfterFacts ==
  ASSUME NEW l \in Launches, NEW i \in 1 .. 23
  PROVE  /\ After(l, i) \in 1 .. 24 /\ After(l, i) > i
         /\ Program[i][1] # "try" => After(l, i) = i + 1
         /\ After(l, i) = i + 1 \/ (i = 19 /\ After(l, i) = 24 /\ l \notin HeldOut)
BY ProgramFacts, Kinds DEF After

LEMMA FiledFacts ==
  ASSUME NEW l \in Launches
  PROVE  Filed(l) \subseteq {17, 18, 23} /\ 17 \in Filed(l) /\ 18 \in Filed(l)
         /\ (23 \in Filed(l) <=> l \in HeldOut)
BY DEF Filed

LEMMA TheRanks ==
  ASSUME NEW l \in Launches
  PROVE  0 \in Ranks(l) /\ 1 \in Ranks(l) /\ Ranks(l) \subseteq Nat /\ World[l] \in Nat /\ World[l] >= 2
         /\ Ranks(l) \subseteq AllRanks
BY LaunchAssumption DEF Ranks, AllRanks

(***************************************************************************)
(* One rank takes a step, or all ranks of a launch do.                     *)
(***************************************************************************)
\* Whatever step is taken, other launches stand, and what was chosen stays chosen.
Elsewhere(l) ==
  /\ \A k \in Launches \ {l} : job'[k] = job[k] /\ comm'[k] = comm[k] /\ second'[k] = second[k]
  /\ UNCHANGED <<place, odd>>
  /\ comm' \in [Launches -> {"live", "dead"}] /\ second' \in [Launches -> Nat]
  /\ DOMAIN job' = Launches

\* Rank r of l becomes j, and nothing else in the launches.
Turns(l, r, j) ==
  /\ Elsewhere(l) /\ second' = second
  /\ job'[l] \in [Ranks(l) -> Job] /\ job'[l][r] = j
  /\ \A q \in Ranks(l) \ {r} : job'[l][q] = job[l][q]

LEMMA RankTurns ==
  ASSUME LaunchTypeOK, NEW l \in Launches, NEW r \in Ranks(l), NEW j \in Job,
         job' = [job EXCEPT ![l][r] = j], UNCHANGED <<place, odd, second>>,
         comm' \in {comm, [comm EXCEPT ![l] = "dead"]}
  PROVE  Turns(l, r, j)
<1>1. /\ job'[l] = [job[l] EXCEPT ![r] = j] /\ DOMAIN job' = Launches
      /\ \A k \in Launches \ {l} : job'[k] = job[k]
  BY DEF LaunchTypeOK
<1>2. job[l] \in [Ranks(l) -> Job]
  BY DEF LaunchTypeOK
<1>3. job'[l] \in [Ranks(l) -> Job] /\ job'[l][r] = j
      /\ \A q \in Ranks(l) \ {r} : job'[l][q] = job[l][q]
  BY <1>1, <1>2
<1>4. comm' \in [Launches -> {"live", "dead"}] /\ \A k \in Launches \ {l} : comm'[k] = comm[k]
  BY DEF LaunchTypeOK
<1> QED BY <1>1, <1>3, <1>4 DEF Turns, Elsewhere, LaunchTypeOK

\* Another launch keeps what it has.
LEMMA OthersKeepRanks ==
  ASSUME NEW l \in Launches, Elsewhere(l), NEW k \in Launches \ {l}, RankInv(k)
  PROVE  RankInv(k)'
<1>1. job'[k] = job[k] /\ comm'[k] = comm[k] /\ odd'[k] = odd[k]
  BY DEF Elsewhere
<1>2. (\A r \in Ranks(k) : Sane(job[k][r]) /\ Speaks(k, r, job[k][r]))'
  BY <1>1 DEF RankInv, Speaks
<1>3. SameStep(k)'
  BY <1>1 DEF RankInv, SameStep
<1>4. Together(k)'
  BY <1>1 DEF RankInv, Together, Formed, Forming, Over
<1>5. Noticed(k)' /\ Checked(k)'
  BY <1>1 DEF RankInv, Noticed, Checked
<1> QED BY <1>2, <1>3, <1>4, <1>5 DEF RankInv

\* The ways in which a rank goes from i to j.
Steps(l, r, i, j) ==
  /\ j \in Job /\ j.step = i.step /\ j.differs = i.differs
  /\ Sane(j) /\ Speaks(l, r, j)
  /\ \/ i.doing \in Early /\ j.doing \in Early
     \/ i.doing \in Early /\ j.doing = "end" /\ j.end = "failed"
     \/ i.doing \in Busy /\ j.doing \in Busy /\ j.doing # "remove"
     \/ i.doing # "end" /\ j.doing = "end" /\ (j.end = "dead" \/ (j.end = "failed" /\ comm'[l] = "dead"))

LEMMA StepKeepsRanks ==
  ASSUME LaunchTypeOK, NEW l \in Launches, NEW r \in Ranks(l), RankInv(l), NEW j,
         Turns(l, r, j), Steps(l, r, job[l][r], j), comm'[l] \in {comm[l], "dead"}
  PROVE  RankInv(l)'
<1> DEFINE i == job[l][r]
<1>1. i \in Job /\ j \in Job /\ j.step = i.step /\ j.differs = i.differs /\ Sane(i)
      /\ job'[l][r] = j /\ odd'[l] = odd[l]
      /\ \A q \in Ranks(l) \ {r} : job'[l][q] = job[l][q]
  BY DEF RankInv, Turns, Steps, Elsewhere, LaunchTypeOK
<1>2. ASSUME NEW q \in Ranks(l)
      PROVE  /\ job'[l][q].step = job[l][q].step /\ job'[l][q].differs = job[l][q].differs
             /\ Sane(job[l][q]) /\ Sane(job'[l][q])
             /\ Speaks(l, q, job[l][q])'
  <2>1. CASE q = r
    BY <2>1, <1>1 DEF Steps, Speaks
  <2>2. CASE q # r
    BY <2>2, <1>1 DEF RankInv, Speaks
  <2> QED BY <2>1, <2>2
<1>3. SameStep(l)'
  BY <1>2 DEF SameStep, RankInv
<1>4. Checked(l)'
  BY <1>1, <1>2, TheRanks DEF Checked, RankInv
<1>5. Noticed(l)'
  <2> SUFFICES ASSUME Program[job'[l][0].step] = Agree(odd[l]),
                      \A q \in Ranks(l) : job'[l][q].doing \in {"work", "call"}
               PROVE  job'[l][0].differs \/ job'[l][1].differs
    BY <1>1 DEF Noticed
  <2>1. Program[i.step] = Agree(odd[l]) /\ Program[job[l][0].step] = Agree(odd[l])
    BY <1>2, TheRanks DEF RankInv, SameStep
  <2>2. i.step # 1 /\ i.step # 17
    BY <2>1, ProgramFacts, Kinds
  <2>3. j.doing \in {"work", "call"}
    BY <1>1
  <2>4. i.doing \in Busy
    BY <1>1, <2>3 DEF Steps, Early
  <2>5. i.doing \in {"work", "call"}
    BY <1>1, <2>2, <2>4 DEF Sane, Busy
  <2>6. \A q \in Ranks(l) : job[l][q].doing \in {"work", "call"}
    BY <1>1, <2>5
  <2> QED BY <1>2, <2>1, <2>6, TheRanks DEF RankInv, Noticed
<1>6. Together(l)'
  <2> SUFFICES ASSUME comm'[l] = "live", \A q \in Ranks(l) : job'[l][q].end # "dead"
               PROVE  (Formed(l) \/ Forming(l) \/ Over(l))'
    BY DEF Together
  <2>1. ~ (j.doing = "end" /\ (j.end = "dead" \/ (j.end = "failed" /\ comm'[l] = "dead"))) /\ comm[l] = "live"
    BY <1>1
  <2>2. i.doing # "end" /\ i.end = None
    BY <1>1, <2>1 DEF Steps, Sane, Early, Busy
  <2>3. \A q \in Ranks(l) : job[l][q].end # "dead"
    BY <1>1, <2>2, LaunchAssumption
  <2>4. (Formed(l) \/ Forming(l)) /\ ~ Over(l)
    BY <2>1, <2>2, <2>3, LaunchAssumption DEF RankInv, Together, Over
  <2>5. CASE i.doing \in Early
    <3>1. Forming(l)
      BY <2>4, <2>5 DEF Formed, Early, Busy
    <3>2. j.doing \in Early \cup {"end"} /\ j.step = 1 /\ j.end \in {None, "failed"}
      BY <1>1, <2>1, <2>5, <3>1 DEF Forming, Steps, Sane, Early, Busy
    <3> QED BY <1>1, <3>1, <3>2 DEF Forming
  <2>6. CASE i.doing \in Busy
    <3>1. Formed(l)
      BY <2>4, <2>6 DEF Forming, Early, Busy
    <3>2. j.doing \in Busy
      BY <2>1, <2>6 DEF Steps, Early, Busy
    <3> QED BY <1>1, <3>1, <3>2 DEF Formed
  <2> QED BY <1>1, <2>2, <2>5, <2>6 DEF Job
<1> QED BY <1>2, <1>3, <1>4, <1>5, <1>6 DEF RankInv

\* All ranks of l move at once.
LEMMA AllTurn ==
  ASSUME LaunchTypeOK, NEW l \in Launches, NEW f, f \in [Ranks(l) -> Job], NEW s \in Nat,
         job' = [job EXCEPT ![l] = f], UNCHANGED <<place, comm, odd>>,
         second' = [second EXCEPT ![l] = s]
  PROVE  Elsewhere(l) /\ job'[l] = f /\ second'[l] = s
BY DEF LaunchTypeOK, Elsewhere

LEMMA CommInitKeeps ==
  ASSUME LaunchTypeOK, NEW l \in Launches, RankInv(l), CommInit(l)
  PROVE  /\ Elsewhere(l) /\ second' = second /\ job'[l] \in [Ranks(l) -> Job] /\ RankInv(l)'
         /\ \A r \in Ranks(l) : /\ job[l][r].doing = "init" /\ job'[l][r].id = None
                                /\ job'[l][r].step = 1 /\ job[l][r].step = 1
                                /\ job'[l][r].doing \in {"remove", "work"}
         /\ job'[l][0].doing = "remove"
<1> DEFINE f == [r \in Ranks(l) |->
       [job[l][r] EXCEPT !.doing = IF r = 0 THEN "remove" ELSE "work", !.id = None]]
<1>1. ASSUME NEW r \in Ranks(l)
      PROVE  /\ job[l][r] \in Job /\ job[l][r].doing = "init" /\ job[l][r].step = 1
             /\ job[l][r].said = 0 /\ job[l][r].end = None
             /\ f[r] \in Job /\ f[r].step = 1 /\ f[r].id = None /\ f[r].said = 0 /\ f[r].end = None
             /\ f[r].doing = IF r = 0 THEN "remove" ELSE "work"
  <2>1. job[l][r] \in Job /\ job[l][r].doing = "init" /\ Sane(job[l][r])
    BY DEF LaunchTypeOK, CommInit, RankInv
  <2>2. job[l][r].step = 1 /\ job[l][r].said = 0 /\ job[l][r].end = None
    BY <2>1 DEF Sane, Early
  <2> QED BY <2>1, <2>2 DEF Job, Early, Busy
<1>2. f \in [Ranks(l) -> Job] /\ job' = [job EXCEPT ![l] = f]
  BY <1>1 DEF CommInit
<1> HIDE DEF f
<1>3. second[l] \in Nat /\ second' = [second EXCEPT ![l] = second[l]] /\ second' = second
  BY DEF LaunchTypeOK, CommInit
<1>4. Elsewhere(l) /\ job'[l] = f
  <2>1. UNCHANGED <<place, comm, odd>>
    BY DEF CommInit
  <2> QED BY <1>2, <1>3, <2>1, AllTurn
<1>5. \A r \in Ranks(l) : Sane(job[l][r])' /\ Speaks(l, r, job[l][r])'
  BY <1>1, <1>4, LaunchAssumption DEF Sane, Speaks, Early, Busy
<1>6. SameStep(l)' /\ Together(l)' /\ Noticed(l)' /\ Checked(l)'
  <2>1. Formed(l)' /\ SameStep(l)'
    BY <1>1, <1>4 DEF SameStep, Formed, Busy
  <2>2. job'[l][0].step = 1
    BY <1>1, <1>4, TheRanks
  <2> QED BY <2>1, <2>2, ProgramFacts, Kinds DEF Together, Noticed, Checked
<1> QED BY <1>1, <1>2, <1>3, <1>4, <1>5, <1>6, TheRanks DEF RankInv

LEMMA CancelledKeeps ==
  ASSUME LaunchTypeOK, NEW l \in Launches, RankInv(l), Cancelled(l)
  PROVE  /\ Elsewhere(l) /\ second' = second /\ job'[l] \in [Ranks(l) -> Job] /\ RankInv(l)'
         /\ \A r \in Ranks(l) : \/ job'[l][r] = job[l][r]
                                \/ /\ job[l][r].doing = "init" /\ job[l][r].step = 1
                                   /\ job'[l][r].doing = "end" /\ job'[l][r].step = 1
                                   /\ job'[l][r].id = None
<1> DEFINE f == [r \in Ranks(l) |->
       IF job[l][r].doing = "init" THEN [Failed(job[l][r]) EXCEPT !.end = "dead"] ELSE job[l][r]]
<1>1. ASSUME NEW r \in Ranks(l)
      PROVE  /\ job[l][r] \in Job /\ Sane(job[l][r]) /\ Speaks(l, r, job[l][r])
             /\ f[r] \in Job /\ f[r].step = job[l][r].step /\ f[r].differs = job[l][r].differs
             /\ f[r] = job[l][r]
                \/ (/\ job[l][r].doing = "init" /\ job[l][r].step = 1
                    /\ f[r].doing = "end" /\ f[r].end = "dead" /\ f[r].id = None)
  <2>1. job[l][r] \in Job /\ Sane(job[l][r]) /\ Speaks(l, r, job[l][r])
    BY DEF LaunchTypeOK, RankInv
  <2>2. CASE job[l][r].doing = "init"
    BY <2>1, <2>2 DEF Job, Failed, Sane, Early, Busy
  <2>3. CASE job[l][r].doing # "init"
    BY <2>1, <2>3
  <2> QED BY <2>1, <2>2, <2>3
<1>2. f \in [Ranks(l) -> Job] /\ job' = [job EXCEPT ![l] = f]
  BY <1>1 DEF Cancelled
<1>3. PICK q \in Ranks(l) : f[q].end = "dead"
  <2>1. PICK q \in Ranks(l) : job[l][q].doing = "init"
    BY DEF Cancelled
  <2> QED BY <2>1, <1>1 DEF Failed, Job
<1> HIDE DEF f
<1>4. second[l] \in Nat /\ second' = [second EXCEPT ![l] = second[l]] /\ second' = second
  BY DEF LaunchTypeOK, Cancelled
<1>5. Elsewhere(l) /\ job'[l] = f
  <2>1. UNCHANGED <<place, comm, odd>>
    BY DEF Cancelled
  <2> QED BY <1>2, <1>4, <2>1, AllTurn
<1>6. ASSUME NEW r \in Ranks(l) PROVE Sane(job[l][r])' /\ Speaks(l, r, job[l][r])'
  <2>1. CASE f[r] = job[l][r]
    BY <1>1, <1>5, <2>1 DEF Speaks, Elsewhere
  <2>2. CASE f[r] # job[l][r]
    BY <1>1, <1>5, <2>2, LaunchAssumption DEF Sane, Speaks, Early
  <2> QED BY <2>1, <2>2
<1>7. SameStep(l)' /\ Together(l)' /\ Checked(l)'
  BY <1>1, <1>3, <1>5, TheRanks DEF RankInv, SameStep, Together, Checked, Elsewhere
<1>8. Noticed(l)'
  <2>1. ~ \A r \in Ranks(l) : job'[l][r].doing \in {"work", "call"}
    BY <1>1, <1>3, <1>5, <1>6, LaunchAssumption DEF Sane
  <2> QED BY <2>1 DEF Noticed
<1> QED BY <1>1, <1>2, <1>4, <1>5, <1>6, <1>7, <1>8 DEF RankInv

\* A record with some fields replaced.
Advanced(j, n, b) == [[j EXCEPT !.step = n, !.doing = "work"] EXCEPT !.differs = b, !.said = 0]

LEMMA AdvanceField ==
  ASSUME NEW j \in Job, NEW n \in 1 .. 24, NEW b \in BOOLEAN
  PROVE  LET h == Advanced(j, n, b)
         IN  /\ h \in Job /\ h.litters = j.litters /\ h.id = j.id /\ h.end = j.end
             /\ h.step = n /\ h.doing = "work" /\ (h.differs <=> b) /\ h.said = 0
<1> DEFINE h == Advanced(j, n, b)
<1>1. /\ h.litters = j.litters /\ h.id = j.id /\ h.end = j.end
      /\ h.step = n /\ h.doing = "work" /\ h.differs = b /\ h.said = 0
  BY DEF Job, Advanced
<1>2. h \in Job
  BY DEF Job, Busy, Advanced
<1> QED BY <1>1, <1>2

LEMMA EndField ==
  ASSUME NEW j \in Job, NEW h,
         h = [[j EXCEPT !.doing = "end", !.end = "completed"] EXCEPT !.differs = FALSE, !.said = 0]
  PROVE  /\ h \in Job /\ h.litters = j.litters /\ h.id = j.id /\ h.end = "completed"
         /\ h.step = j.step /\ h.doing = "end" /\ h.said = 0
BY DEF Job

LEMMA FailField ==
  ASSUME NEW j \in Job, NEW h,
         h = [[j EXCEPT !.differs = FALSE] EXCEPT !.doing = "end", !.end = "failed", !.id = None]
  PROVE  /\ h \in Job /\ h.litters = j.litters /\ h.id = None /\ h.end = "failed"
         /\ h.step = j.step /\ h.doing = "end"
BY DEF Job

\* What becomes of a rank that hears a sum.
LEMMA WhatIsHeard ==
  ASSUME NEW j \in Job, j.doing = "call", Sane(j), NEW l \in Launches, NEW sum \in Nat,
         NEW world \in Nat, world = World[l], NEW h, h = Heard(l, j, sum)
  PROVE  /\ h \in Job /\ h.litters = j.litters /\ h.id \in {j.id, None}
         /\ Program[j.step][1] = "share" =>
              /\ h.step = j.step + 1 /\ h.doing = "work" /\ h.said = 0 /\ h.end = None
              /\ (h.differs <=> sum # world * j.said) /\ j.step < 24
         /\ Program[j.step][1] # "share" /\ sum > 0 =>
              h.step = j.step /\ h.doing = "end" /\ h.end = "failed"
         /\ Program[j.step][1] # "share" /\ sum = 0 /\ j.step < 24 =>
              h.step = After(l, j.step) /\ h.doing = "work" /\ h.said = 0 /\ h.end = None
         /\ Program[j.step][1] # "share" /\ sum = 0 /\ j.step = 24 =>
              h.step = 24 /\ h.doing = "end" /\ h.said = 0 /\ h.end = "completed"
<1>1. j.end = None /\ j.step \in 1 .. 24 /\ Len(Program) = 24 /\ Program[24][1] = "try"
  BY ProgramFacts DEF Job, Sane
<1>2. CASE Program[j.step][1] = "share"
  <2>1. j.step < 24 /\ j.step + 1 \in 1 .. 24 /\ After(l, j.step) = j.step + 1
    <3>1. j.step \in 1 .. 23
      BY <1>1, <1>2
    <3> QED BY <3>1, <1>2, AfterFacts
  <2>2. ASSUME NEW n \in 1 .. 24, n = j.step + 1, NEW b \in BOOLEAN, b = (sum # world * j.said)
        PROVE  /\ h \in Job /\ h.litters = j.litters /\ h.id = j.id /\ h.end = j.end
               /\ h.step = n /\ h.doing = "work" /\ (h.differs <=> b) /\ h.said = 0
    <3>1. h = Advanced(j, n, b)
      BY <1>1, <1>2, <2>1, <2>2 DEF Heard, Onward, Advanced
    <3> DEFINE g == Advanced(j, n, b)
    <3>2. /\ g \in Job /\ g.litters = j.litters /\ g.id = j.id /\ g.end = j.end
          /\ g.step = n /\ g.doing = "work" /\ (g.differs <=> b) /\ g.said = 0
      BY AdvanceField
    <3> HIDE DEF g
    <3> QED BY <3>1, <3>2 DEF g
  <2> QED BY <1>1, <1>2, <2>1, <2>2
<1>3. CASE Program[j.step][1] # "share" /\ sum > 0
  <2>1. h = [[j EXCEPT !.differs = FALSE] EXCEPT !.doing = "end", !.end = "failed", !.id = None]
    BY <1>3 DEF Heard, Failed
  <2>2. /\ h \in Job /\ h.litters = j.litters /\ h.id = None /\ h.end = "failed"
        /\ h.step = j.step /\ h.doing = "end"
    BY <2>1, FailField
  <2> QED BY <1>1, <1>3, <2>2
<1>4. CASE Program[j.step][1] # "share" /\ sum = 0 /\ j.step < 24
  <2>1. ASSUME NEW n \in 1 .. 24, n = After(l, j.step)
        PROVE  /\ h \in Job /\ h.litters = j.litters /\ h.id = j.id /\ h.end = j.end
               /\ h.step = n /\ h.doing = "work" /\ h.said = 0
    <3>1. h = Advanced(j, n, FALSE)
      BY <1>1, <1>4, <2>1 DEF Heard, Onward, Advanced
    <3> DEFINE g == Advanced(j, n, FALSE)
    <3>2. /\ g \in Job /\ g.litters = j.litters /\ g.id = j.id /\ g.end = j.end
          /\ g.step = n /\ g.doing = "work" /\ g.said = 0
      BY AdvanceField
    <3> HIDE DEF g
    <3> QED BY <3>1, <3>2 DEF g
  <2>2. After(l, j.step) \in 1 .. 24
    <3>1. j.step \in 1 .. 23
      BY <1>1, <1>4
    <3> QED BY <3>1, AfterFacts
  <2> QED BY <1>1, <1>4, <2>1, <2>2
<1>5. CASE Program[j.step][1] # "share" /\ sum = 0 /\ j.step = 24
  <2>1. h = [[j EXCEPT !.doing = "end", !.end = "completed"] EXCEPT !.differs = FALSE, !.said = 0]
    BY <1>1, <1>5 DEF Heard, Onward
  <2>2. /\ h \in Job /\ h.litters = j.litters /\ h.id = j.id /\ h.end = "completed"
        /\ h.step = j.step /\ h.doing = "end" /\ h.said = 0
    BY <2>1, EndField
  <2> QED BY <1>1, <1>5, <2>2
<1> QED BY <1>1, <1>2, <1>3, <1>4, <1>5

\* A reduction takes all ranks of a launch on together, and the number they hear
\* is that of rank 0 when they share its clock.
LEMMA ReduceKeeps ==
  ASSUME LaunchTypeOK, NEW l \in Launches, RankInv(l), Reduce(l)
  PROVE  /\ Elsewhere(l) /\ job'[l] \in [Ranks(l) -> Job] /\ RankInv(l)'
         /\ \A r \in Ranks(l) :
              /\ job[l][r].doing = "call" /\ job'[l][r].doing \in {"work", "end"}
              /\ job'[l][r].litters = job[l][r].litters /\ job'[l][r].id \in {job[l][r].id, None}
              /\ job'[l][r].step \in {job[l][r].step, After(l, job[l][r].step)}
              /\ job'[l][r].step >= job[l][r].step
              /\ \A i \in Filed(l) : Past(job[l][r], i)' => Past(job[l][r], i)
         /\ \/ second'[l] = second[l] /\ \A r \in Ranks(l) : job'[l][r].step > 7 => job[l][r].step > 7
            \/ second'[l] \in Seconds /\ \A r \in Ranks(l) : job'[l][r].step = 8
<1> DEFINE f == [r \in Ranks(l) |-> Heard(l, job[l][r], Sum(l))]
           p == job[l][0].step
<1>1. ASSUME NEW r \in Ranks(l)
      PROVE  /\ job[l][r] \in Job /\ job[l][r].doing = "call" /\ Sane(job[l][r])
             /\ Speaks(l, r, job[l][r]) /\ job[l][r].step = p /\ job[l][r].said \in Nat
  <2>1. job[l][r] \in Job /\ job[l][r].doing = "call" /\ Sane(job[l][r]) /\ Speaks(l, r, job[l][r])
    BY DEF LaunchTypeOK, Reduce, RankInv
  <2> QED BY <2>1, TheRanks DEF RankInv, SameStep, Job
<1>2. /\ Sum(l) \in Nat
      /\ Sum(l) = 0 => \A r \in Ranks(l) : job[l][r].said = 0
      /\ (\A r \in Ranks(l) \ {0} : job[l][r].said = 0) => Sum(l) = job[l][0].said
  BY <1>1, SumOfAll
<1>3. World[l] \in Nat /\ World[l] >= 2 /\ 0 \in Ranks(l) /\ 1 \in Ranks(l) /\ p \in 1 .. 24
  BY <1>1, TheRanks DEF Job
<1> DEFINE sum == Sum(l)
           world == World[l]
<1> HIDE DEF sum, world
<1>4. ASSUME NEW r \in Ranks(l)
      PROVE  /\ f[r] \in Job /\ f[r].litters = job[l][r].litters /\ f[r].id \in {job[l][r].id, None}
             /\ Program[p][1] = "share" =>
                  /\ f[r].step = p + 1 /\ f[r].doing = "work" /\ f[r].said = 0 /\ f[r].end = None
                  /\ (f[r].differs <=> sum # world * job[l][r].said) /\ p < 24
             /\ Program[p][1] # "share" /\ sum > 0 =>
                  f[r].step = p /\ f[r].doing = "end" /\ f[r].end = "failed"
             /\ Program[p][1] # "share" /\ sum = 0 /\ p < 24 =>
                  f[r].step = After(l, p) /\ f[r].doing = "work" /\ f[r].said = 0 /\ f[r].end = None
             /\ Program[p][1] # "share" /\ sum = 0 /\ p = 24 =>
                  f[r].step = 24 /\ f[r].doing = "end" /\ f[r].said = 0 /\ f[r].end = "completed"
  <2>1. f[r] = Heard(l, job[l][r], sum)
    BY DEF sum
  <2>2. sum \in Nat /\ world \in Nat /\ world = World[l]
    BY <1>2, <1>3 DEF sum, world
  <2>3. job[l][r] \in Job /\ job[l][r].doing = "call" /\ Sane(job[l][r]) /\ job[l][r].step = p
    BY <1>1
  <2> HIDE DEF f, p
  <2> QED BY <2>1, <2>2, <2>3, WhatIsHeard
<1>5. f \in [Ranks(l) -> Job] /\ job' = [job EXCEPT ![l] = f]
  BY <1>4 DEF Reduce
<1> HIDE DEF f
<1> DEFINE t == IF Program[p] = Share("clock") THEN Sum(l) ELSE second[l]
<1>6. Elsewhere(l) /\ job'[l] = f /\ second'[l] = t /\ odd'[l] = odd[l]
  <2>1. UNCHANGED <<place, comm, odd>> /\ second' = [second EXCEPT ![l] = t] /\ t \in Nat
    BY <1>2 DEF Reduce, LaunchTypeOK
  <2> HIDE DEF t
  <2> QED BY <1>5, <2>1, AllTurn
<1> HIDE DEF t, p
<1>7. sum \in Nat /\ world \in Nat /\ world >= 2 /\ Program[p][1] \in {"share", "agree", "try"}
      /\ (Program[p][1] = "share" => p < 24)
  BY <1>2, <1>3, <1>4, ProgramFacts DEF sum, world
<1>16. p < 24 => /\ After(l, p) \in 1 .. 24 /\ After(l, p) > p
                 /\ After(l, p) = p + 1 \/ (p = 19 /\ After(l, p) = 24 /\ l \notin HeldOut)
                 /\ Program[p][1] = "share" => After(l, p) = p + 1
  <2>1. p < 24 => p \in 1 .. 23
    BY <1>3
  <2> QED BY <1>3, <2>1, AfterFacts, Kinds, ProgramFacts
<1>8. ASSUME NEW r \in Ranks(l) PROVE Sane(job[l][r])' /\ Speaks(l, r, job[l][r])'
  <2>1. f[r].doing # "call"
    BY <1>3, <1>4, <1>7
  <2>2. Sane(f[r])
    BY <1>3, <1>4, <1>7, LaunchAssumption DEF Sane, Early
  <2> QED BY <1>6, <2>1, <2>2 DEF Speaks, Sane
<1>9. \A q, r \in Ranks(l) : f[q].step = f[r].step
  BY <1>3, <1>4, <1>7
<1>10. Together(l)'
  <2>1. \/ \A r \in Ranks(l) : f[r].doing = "work"
        \/ \A r \in Ranks(l) : f[r].end = "failed"
        \/ \A r \in Ranks(l) : f[r].end = "completed"
    BY <1>3, <1>4, <1>7
  <2> QED BY <1>6, <2>1 DEF Together, Formed, Over, Busy
<1>11. Noticed(l)'
  <2> SUFFICES ASSUME Program[f[0].step] = Agree(odd[l]), f[0].doing \in {"work", "call"}
               PROVE  f[0].differs \/ f[1].differs
    BY <1>3, <1>6 DEF Noticed
  <2>1. f[0].step \in 1 .. 24 /\ f[0].step = p + 1 /\ Program[p + 1] = Agree(odd[l])
    <3>1. f[0].step # 24
      BY ProgramFacts, Kinds
    <3> QED BY <3>1, <1>3, <1>4, <1>7, <1>16 DEF Job
  <2>2. Program[p] = Share(odd[l]) /\ Program[p] # Share("clock")
    BY <1>3, <2>1, AgreesFollowShares, Kinds
  <2>3. Program[p][1] = "share" /\ Program[p][2] = odd[l] /\ odd[l] # "clock"
    BY <2>2, Kinds
  <2>4. job[l][0].said = 0 /\ job[l][1].said = 1
    BY <1>1, <1>3, <2>3 DEF Speaks
  <2>5. (f[0].differs <=> sum # world * 0) /\ (f[1].differs <=> sum # world * 1)
    BY <1>3, <1>4, <2>3, <2>4
  <2>6. world * 0 = 0 /\ world * 1 = world
    BY <1>7
  <2> QED BY <1>7, <2>5, <2>6
<1>12. Checked(l)'
  <2> SUFFICES ASSUME NEW i \in 1 .. 24, i < f[0].step, Program[i] = Agree(odd[l]) PROVE FALSE
    BY <1>6 DEF Checked
  <2>1. \A k \in 1 .. 24 : k < p => Program[k] # Agree(odd[l])
    BY DEF RankInv, Checked, p
  <2>2. i = p /\ f[0].step = p + 1
    <3>1. i >= p /\ p < f[0].step
      BY <1>3, <1>5, <2>1 DEF Job
    <3>2. CASE f[0].step = p + 1
      BY <1>3, <3>1, <3>2
    <3>3. CASE p = 19 /\ l \notin HeldOut
      <4>1. i \in 19 .. 24 /\ Program[i][1] = "agree"
        BY <3>1, <3>3, Kinds
      <4>2. Agree(odd[l]) = Agree("report")
        BY <4>1, ProgramFacts
      <4>3. odd[l] = "report"
        BY <4>2, Kinds
      <4> QED BY <3>3, <4>3 DEF LaunchTypeOK
    <3> QED BY <1>3, <1>4, <1>7, <1>16, <3>1, <3>2, <3>3
  <2>3. Program[p][1] = "agree" /\ Program[p][1] # "share"
    BY <2>2, Kinds
  <2>4. sum = 0
    BY <1>3, <1>4, <1>7, <2>2, <2>3
  <2>5. job[l][0].said = 0 /\ job[l][1].said = 0
    BY <1>2, <1>3, <2>4 DEF sum
  <2>6. job[l][0].differs \/ job[l][1].differs
    BY <1>1, <2>2 DEF RankInv, Noticed, p
  <2> QED BY <1>1, <1>3, <2>3, <2>5, <2>6 DEF Speaks
<1>13. ASSUME NEW r \in Ranks(l)
       PROVE  /\ job[l][r].doing = "call" /\ job'[l][r].doing \in {"work", "end"}
              /\ job'[l][r].litters = job[l][r].litters /\ job'[l][r].id \in {job[l][r].id, None}
              /\ job'[l][r].step \in {job[l][r].step, After(l, job[l][r].step)}
              /\ job'[l][r].step >= job[l][r].step
  BY <1>1, <1>3, <1>4, <1>6, <1>7, <1>16
<1>14. ASSUME NEW r \in Ranks(l), NEW i \in Filed(l), Past(job[l][r], i)' PROVE Past(job[l][r], i)
  <2>0. i \in {17, 18, 23} /\ (l \notin HeldOut => i # 23)
    BY FiledFacts
  <2>1. f[r].step > i
    BY <1>13, <1>14, <1>6, <2>0 DEF Past
  <2>2. p >= i
    BY <1>3, <1>4, <1>7, <1>16, <2>0, <2>1
  <2>3. CASE p = i
    <3>1. Program[p][1] # "share"
      BY <2>0, <2>3, Kinds, ProgramFacts
    <3>2. sum = 0
      BY <1>3, <1>4, <1>7, <2>0, <2>1, <2>3, <3>1
    <3> QED BY <1>1, <1>2, <2>0, <2>3, <3>2 DEF Past, sum
  <2> QED BY <1>1, <1>3, <2>0, <2>2, <2>3 DEF Past
<1>15. \/ second'[l] = second[l] /\ \A r \in Ranks(l) : job'[l][r].step > 7 => job[l][r].step > 7
       \/ second'[l] \in Seconds /\ \A r \in Ranks(l) : job'[l][r].step = 8
  <2>1. CASE p = 7
    <3>1. Program[p] = Share("clock") /\ Program[p][1] = "share"
      BY <2>1, <1>3, ProgramFacts, Kinds
    <3>2. job[l][0].said \in Seconds /\ \A r \in Ranks(l) \ {0} : job[l][r].said = 0
      BY <1>1, <1>3, <3>1 DEF Speaks
    <3>3. second'[l] \in Seconds
      BY <1>2, <1>6, <3>1, <3>2 DEF t
    <3> QED BY <1>3, <1>4, <1>6, <2>1, <3>1, <3>3
  <2>2. CASE p # 7
    <3>1. Program[p] # Share("clock")
      BY <2>2, <1>3, ProgramFacts
    <3> QED BY <1>1, <1>3, <1>4, <1>6, <1>7, <1>13, <1>16, <2>2, <3>1 DEF t
  <2> QED BY <2>1, <2>2
<1> QED BY <1>5, <1>6, <1>8, <1>9, <1>10, <1>11, <1>12, <1>13, <1>14, <1>15 DEF RankInv, SameStep

(***************************************************************************)
(* The files of a launch, and its id.                                      *)
(***************************************************************************)
\* How the ranks of l may move without writing a file: whoever has passed a step has
\* passed it before, and the second is set only ahead of the run directories.
WithoutFiles(l) ==
  /\ Elsewhere(l) /\ job'[l] \in [Ranks(l) -> Job] /\ UNCHANGED dir
  /\ \A r \in Ranks(l) :
       /\ job'[l][r].doing = "record" => job[l][r].doing = "record"
       /\ job'[l][r].step >= job[l][r].step
       /\ \A i \in Filed(l) : Past(job[l][r], i)' => Past(job[l][r], i)
  /\ \/ second'[l] = second[l] /\ \A r \in Ranks(l) : job'[l][r].step > 7 => job[l][r].step > 7
     \/ second'[l] \in Seconds /\ \A r \in Ranks(l) : job'[l][r].step = 8

LEMMA FilesStand ==
  ASSUME LaunchInv, NEW l \in Launches, WithoutFiles(l), RankInv(l)'
  PROVE  /\ \A k \in Launches : \A r \in Ranks(k) : Papers(k, r)'
         /\ \A d \in DOMAIN dir : Record(d)'
<1>1. \A r \in Ranks(l) : job[l][r] \in Job /\ job'[l][r] \in Job
  BY DEF LaunchInv, LaunchTypeOK, WithoutFiles
<1>2. \A k \in Launches \ {l} : job'[k] = job[k] /\ second'[k] = second[k]
  BY DEF WithoutFiles, Elsewhere
<1>3. 0 \in Ranks(l)
  BY TheRanks
<1>4. ASSUME NEW k \in Launches, NEW r \in Ranks(k) PROVE Papers(k, r)'
  <2>1. Papers(k, r)
    BY DEF LaunchInv
  <2>2. CASE k # l
    BY <1>2, <2>1, <2>2 DEF Papers, Past, RunDir, WithoutFiles
  <2>3. CASE k = l /\ second'[l] = second[l]
    <3>1. job'[l][r].step > 7 => second[l] \in Seconds
      BY <1>1, <2>1, <2>3 DEF WithoutFiles, Papers, Job
    <3>2. RunDir(l, r)' = RunDir(l, r) /\ dir' = dir
      BY <2>3 DEF RunDir, WithoutFiles
    <3>3. \A i \in Filed(l) : Past(job[l][r], i)' => Past(job[l][r], i)
      BY <2>3 DEF WithoutFiles
    <3>4. job'[l][r].doing = "record" => job[l][r].doing = "record"
      BY <2>3 DEF WithoutFiles
    <3> QED BY <2>1, <2>3, <3>1, <3>2, <3>3, <3>4, FiledFacts DEF Papers
  <2>4. CASE k = l /\ second'[l] # second[l]
    <3>1. second'[l] \in Seconds /\ job'[l][r].step = 8
      BY <2>4 DEF WithoutFiles
    <3>2. job'[l][r].doing # "record"
      BY <2>4, <3>1 DEF RankInv, Sane
    <3> QED BY <2>4, <3>1, <3>2 DEF Papers, Past
  <2> QED BY <2>2, <2>3, <2>4
<1>5. ASSUME NEW d \in DOMAIN dir PROVE Record(d)'
  <2>1. Record(d) /\ dir' = dir /\ dir[d] \in Dir
    BY DEF LaunchInv, WithoutFiles, LaunchTypeOK
  <2>2. ASSUME dir[d].report # None
        PROVE  job'[dir[d].report][0].step >= 23 /\ d = RunDir(dir[d].report, 0)'
    <3> DEFINE k == dir[d].report
    <3>1. k \in Launches /\ job[k][0].step >= 23 /\ d = RunDir(k, 0)
      BY <2>1, <2>2 DEF Record, Dir
    <3>2. CASE k = l
      <4>1. job'[l][0].step >= 23
        BY <1>1, <1>3, <3>1, <3>2 DEF WithoutFiles, Job
      <4>2. second'[l] = second[l]
        BY <1>3, <4>1 DEF WithoutFiles
      <4> QED BY <2>1, <3>1, <3>2, <4>1, <4>2 DEF RunDir
    <3>3. CASE k # l
      BY <1>2, <2>1, <3>1, <3>3 DEF RunDir
    <3> QED BY <3>2, <3>3
  <2> QED BY <2>1, <2>2 DEF Record
<1> QED BY <1>4, <1>5

\* Rank r of l writes its directory: what was there stays, and what the step claims
\* is there.
LEMMA FilesGrow ==
  ASSUME LaunchInv, NEW l \in Launches, NEW r \in Ranks(l), NEW j, Turns(l, r, j),
         j.step = job[l][r].step, second[l] \in Seconds, NEW e \in Dir,
         dir' = [dir EXCEPT ![RunDir(l, r)] = e],
         dir[RunDir(l, r)].prompt # None => e.prompt = dir[RunDir(l, r)].prompt,
         dir[RunDir(l, r)].launch # None => e.launch = dir[RunDir(l, r)].launch,
         dir[RunDir(l, r)].report # None => e.report = dir[RunDir(l, r)].report,
         dir[RunDir(l, r)].rows \subseteq e.rows,
         e.rows \subseteq {e.launch}, e.launch # None => e.prompt = e.launch,
         e.report \in {l, dir[RunDir(l, r)].report}, e.report = l => j.step >= 23 /\ r = 0,
         j.doing = "record" => e.prompt = l,
         Past(j, 17) => e.launch = l, Past(j, 18) => l \in e.rows,
         Past(j, 23) /\ r = 0 => e.report = l
  PROVE  /\ \A k \in Launches : \A q \in Ranks(k) : Papers(k, q)'
         /\ \A d \in DOMAIN dir : Record(d)'
         /\ dir' \in [Seconds \X AllRanks -> Dir]
<1> DEFINE w == RunDir(l, r)
<1>1. w \in Seconds \X AllRanks /\ dir \in [Seconds \X AllRanks -> Dir]
  BY TheRanks DEF RunDir, LaunchInv, LaunchTypeOK
<1>2. dir' \in [Seconds \X AllRanks -> Dir] /\ dir'[w] = e /\ \A d \in DOMAIN dir \ {w} : dir'[d] = dir[d]
  BY <1>1
<1>3. ASSUME NEW d \in DOMAIN dir
      PROVE  /\ dir[d] \in Dir /\ dir'[d] \in Dir
             /\ dir[d].prompt # None => dir'[d].prompt = dir[d].prompt
             /\ dir[d].launch # None => dir'[d].launch = dir[d].launch
             /\ dir[d].report # None => dir'[d].report = dir[d].report
             /\ dir[d].rows \subseteq dir'[d].rows
  BY <1>1, <1>2
<1>4. second' = second /\ \A k \in Launches \ {l} : job'[k] = job[k]
  BY DEF Turns, Elsewhere
<1>5. \A k \in Launches : \A q \in Ranks(k) : RunDir(k, q)' = RunDir(k, q)
  BY <1>4 DEF RunDir
<1>6. \A k \in Launches : \A q \in Ranks(k) : second[k] \in Seconds => RunDir(k, q) \in DOMAIN dir
  BY <1>1, TheRanks DEF RunDir
<1>7. ASSUME NEW k \in Launches, NEW q \in Ranks(k) PROVE Papers(k, q)'
  <2>1. Papers(k, q) /\ k # None /\ Sane(job[k][q])
    BY LaunchAssumption DEF LaunchInv, RankInv
  <2>2. CASE k = l /\ q = r
    <3>1. job'[l][r] = j
      BY DEF Turns
    <3>2. dir'[RunDir(l, r)] = e
      BY <1>2
    <3> HIDE DEF w
    <3> QED BY <1>4, <1>5, <2>2, <3>1, <3>2 DEF Papers
  <2>3. CASE ~ (k = l /\ q = r)
    <3>1. job'[k][q] = job[k][q] /\ job[k][q] \in Job
      BY <1>4, <2>3 DEF Turns, LaunchInv, LaunchTypeOK
    <3>2. CASE job[k][q].step <= 7
      <4>1. job[k][q].doing # "record"
        BY <2>1, <3>2 DEF Sane
      <4> QED BY <1>4, <1>5, <3>1, <3>2, <4>1 DEF Papers, Past, Job
    <3>3. CASE job[k][q].step > 7
      <4>1. RunDir(k, q) \in DOMAIN dir
        BY <1>6, <2>1, <3>3 DEF Papers
      <4> HIDE DEF w
      <4>2. /\ dir[RunDir(k, q)].prompt = k => dir'[RunDir(k, q)].prompt = k
            /\ dir[RunDir(k, q)].launch = k => dir'[RunDir(k, q)].launch = k
            /\ dir[RunDir(k, q)].report = k => dir'[RunDir(k, q)].report = k
            /\ k \in dir[RunDir(k, q)].rows => k \in dir'[RunDir(k, q)].rows
        BY <1>3, <2>1, <4>1
      <4> QED BY <1>4, <1>5, <2>1, <3>1, <4>2 DEF Papers
    <3> QED BY <3>1, <3>2, <3>3 DEF Job
  <2> QED BY <2>2, <2>3
<1>8. \A k \in Launches : job'[k][0].step = job[k][0].step
  BY <1>4, TheRanks DEF Turns
<1>9. ASSUME NEW d \in DOMAIN dir PROVE Record(d)'
  <2>1. Record(d)
    BY DEF LaunchInv
  <2>2. CASE d # w
    <3>1. dir'[d] = dir[d]
      BY <1>2, <2>2
    <3>2. dir[d].report # None => dir[d].report \in Launches
      BY <1>3 DEF Dir
    <3> QED BY <1>4, <1>8, <2>1, <3>1, <3>2 DEF Record, RunDir
  <2>3. CASE d = w
    <3>1. ASSUME e.report # None
          PROVE  job'[e.report][0].step >= 23 /\ d = RunDir(e.report, 0)'
      <4>1. CASE e.report = l
        BY <1>5, <2>3, <4>1, TheRanks DEF Turns
      <4>2. CASE e.report # l
        <5>1. e.report = dir[d].report /\ e.report \in Launches
          BY <2>3, <3>1, <4>2 DEF Dir
        <5>2. 0 \in Ranks(e.report)
          BY <5>1, TheRanks
        <5> QED BY <1>5, <1>8, <2>1, <3>1, <5>1, <5>2 DEF Record
      <4> QED BY <4>1, <4>2
    <3>2. dir'[d] = e
      BY <1>2, <2>3
    <3> HIDE DEF w
    <3> QED BY <3>1, <3>2 DEF Record
  <2> QED BY <2>2, <2>3
<1> QED BY <1>2, <1>7, <1>9

\* As long as nobody writes or reads an id, it is enough that rank 0 of no launch
\* goes on to work without removing its own.
LEMMA IdsStand ==
  ASSUME LaunchInv, UNCHANGED <<ids, place>>,
         \A k \in Launches : (Bound(k) => Bound(k)') /\ (Stranded(k) => Stranded(k)'),
         \A k \in Launches : \A r \in Ranks(k) : job'[k][r].id \in {job[k][r].id, None}
  PROVE  /\ \A f \in DOMAIN ids : Shown(f)'
         /\ \A k \in Launches : \A r \in Ranks(k) : Known(k, r)'
<1>1. \A f \in DOMAIN ids : ids[f] # None => ids[f] \in Launches
  BY DEF LaunchInv, LaunchTypeOK
<1>2. \A k \in Launches : \A r \in Ranks(k) : job[k][r].id # None => job[k][r].id \in Launches
  BY DEF LaunchInv, LaunchTypeOK, Job
<1>3. ASSUME NEW f \in DOMAIN ids PROVE Shown(f)'
  <2>1. Shown(f)
    BY DEF LaunchInv
  <2> QED BY <1>1, <2>1 DEF Shown
<1>4. ASSUME NEW k \in Launches, NEW r \in Ranks(k) PROVE Known(k, r)'
  <2>1. Known(k, r)
    BY DEF LaunchInv
  <2> QED BY <1>2, <2>1 DEF Known
<1> QED BY <1>3, <1>4

LEMMA TypeStands ==
  ASSUME LaunchTypeOK, NEW l \in Launches, Elsewhere(l), job'[l] \in [Ranks(l) -> Job],
         dir' \in [Seconds \X AllRanks -> Dir],
         ids' \in [{place[k] : k \in Launches} -> Launches \cup {None}]
  PROVE  LaunchTypeOK'
<1>1. \A k \in Launches : job'[k] \in [Ranks(k) -> Job]
  BY DEF Elsewhere, LaunchTypeOK
<1> HIDE DEF Job, Dir, AllRanks
<1>2. Ranks(0)' = Ranks(0) /\ place' = place /\ odd' = odd
  BY DEF Elsewhere
<1> QED BY <1>1, <1>2 DEF Elsewhere, LaunchTypeOK

LEMMA RanksStand ==
  ASSUME LaunchInv, NEW l \in Launches, Elsewhere(l), RankInv(l)'
  PROVE  \A k \in Launches : RankInv(k)'
<1>1. ASSUME NEW k \in Launches \ {l} PROVE RankInv(k)'
  BY OthersKeepRanks DEF LaunchInv
<1> QED BY <1>1

\* All ranks of l move, without a file and without an id.
LEMMA JointStep ==
  ASSUME LaunchInv, NEW l \in Launches, WithoutFiles(l), RankInv(l)', UNCHANGED ids,
         (Bound(l) => Bound(l)') /\ (Stranded(l) => Stranded(l)'),
         \A r \in Ranks(l) : job'[l][r].id \in {job[l][r].id, None}
  PROVE  LaunchInv'
<1>1. LaunchTypeOK'
  BY TypeStands DEF LaunchInv, WithoutFiles, LaunchTypeOK
<1>2. \A k \in Launches : RankInv(k)'
  BY RanksStand DEF WithoutFiles
<1>3. /\ \A k \in Launches : \A r \in Ranks(k) : Papers(k, r)'
      /\ \A d \in DOMAIN dir : Record(d)'
  BY FilesStand
<1>4. UNCHANGED <<ids, place, dir>> /\ \A k \in Launches \ {l} : job'[k] = job[k]
  BY DEF WithoutFiles, Elsewhere
<1>5. /\ \A k \in Launches : (Bound(k) => Bound(k)') /\ (Stranded(k) => Stranded(k)')
      /\ \A k \in Launches : \A r \in Ranks(k) : job'[k][r].id \in {job[k][r].id, None}
  BY <1>4 DEF Bound, Stranded
<1>6. /\ \A f \in DOMAIN ids : Shown(f)'
      /\ \A k \in Launches : \A r \in Ranks(k) : Known(k, r)'
  BY <1>4, <1>5, IdsStand
<1> QED BY <1>1, <1>2, <1>3, <1>4, <1>6 DEF LaunchInv

\* Rank r of l moves, without a file and without an id.
Quiet(i, j) ==
  /\ j.id \in {i.id, None} /\ (i.litters => j.litters)
  /\ i.doing \in {"init", "remove"} => j.doing = "end"
  /\ i.doing # "end" /\ j.doing # "record"
  /\ \A n \in {17, 18, 23} : Past(j, n) => Past(i, n)

LEMMA BoundStays ==
  ASSUME LaunchInv, NEW l \in Launches, NEW r \in Ranks(l), NEW j, Turns(l, r, j),
         Sane(job[l][r]), j.step = job[l][r].step, job[l][r].doing # "end",
         job[l][r].litters => j.litters,
         job[l][r].doing \in {"init", "remove"} => j.doing \in {"init", "remove", "end"}
  PROVE  (Bound(l) => Bound(l)') /\ (Stranded(l) => Stranded(l)')
<1>1. CASE r = 0
  BY <1>1 DEF Turns, Sane, Bound, Stranded, Early
<1>2. CASE r # 0
  BY <1>2, TheRanks DEF Turns, Bound, Stranded
<1> QED BY <1>1, <1>2

LEMMA QuietStep ==
  ASSUME LaunchInv, NEW l \in Launches, NEW r \in Ranks(l), NEW j, Turns(l, r, j),
         Steps(l, r, job[l][r], j), comm'[l] \in {comm[l], "dead"}, UNCHANGED <<ids, dir>>,
         Quiet(job[l][r], j)
  PROVE  LaunchInv'
<1>1. RankInv(l) /\ LaunchTypeOK /\ Sane(job[l][r]) /\ job[l][r] \in Job /\ j.step = job[l][r].step
  BY DEF LaunchInv, RankInv, LaunchTypeOK, Steps
<1>2. RankInv(l)'
  BY <1>1, StepKeepsRanks
<1>3. /\ job'[l] \in [Ranks(l) -> Job] /\ job'[l][r] = j /\ Elsewhere(l) /\ second' = second
      /\ \A q \in Ranks(l) \ {r} : job'[l][q] = job[l][q]
  BY DEF Turns
<1>4. \A q \in Ranks(l) :
        /\ job'[l][q].doing = "record" => job[l][q].doing = "record"
        /\ job'[l][q].step = job[l][q].step /\ job[l][q].step \in 1 .. 24
        /\ job'[l][q].id \in {job[l][q].id, None}
        /\ \A i \in {17, 18, 23} : Past(job[l][q], i)' => Past(job[l][q], i)
  <2>1. ASSUME NEW q \in Ranks(l) \ {r}
        PROVE  job[l][q] \in Job /\ \A i \in {17, 18, 23} : Past(job[l][q], i)' => Past(job[l][q], i)
    BY <1>1, <1>3, <2>1 DEF LaunchTypeOK, Past
  <2>2. \A i \in {17, 18, 23} : Past(job[l][r], i)' => Past(job[l][r], i)
    BY <1>3 DEF Quiet, Past
  <2> QED BY <1>1, <1>3, <2>1, <2>2 DEF Quiet, Job
<1>5. WithoutFiles(l)
  BY <1>3, <1>4, FiledFacts DEF WithoutFiles
<1>6. (Bound(l) => Bound(l)') /\ (Stranded(l) => Stranded(l)')
  BY <1>1, BoundStays DEF Quiet
<1> QED BY <1>2, <1>4, <1>5, <1>6, JointStep

\* Rank r of l moves and writes its directory.
LEMMA WritingStep ==
  ASSUME LaunchInv, NEW l \in Launches, NEW r \in Ranks(l), NEW j, Turns(l, r, j),
         Steps(l, r, job[l][r], j), comm'[l] \in {comm[l], "dead"}, UNCHANGED ids,
         job[l][r].doing \in Busy \ {"remove"}, j.id = job[l][r].id, j.litters = job[l][r].litters,
         \A k \in Launches : \A q \in Ranks(k) : Papers(k, q)', \A d \in DOMAIN dir : Record(d)',
         dir' \in [Seconds \X AllRanks -> Dir]
  PROVE  LaunchInv'
<1>1. RankInv(l) /\ LaunchTypeOK /\ Sane(job[l][r]) /\ j.step = job[l][r].step
  BY DEF LaunchInv, RankInv, LaunchTypeOK, Steps
<1>2. RankInv(l)' /\ Elsewhere(l) /\ job'[l] \in [Ranks(l) -> Job]
  BY <1>1, StepKeepsRanks DEF Turns
<1>3. \A k \in Launches : RankInv(k)'
  BY <1>2, RanksStand
<1>4. LaunchTypeOK'
  BY <1>1, <1>2, TypeStands DEF LaunchTypeOK
<1>5. (Bound(l) => Bound(l)') /\ (Stranded(l) => Stranded(l)')
  BY <1>1, BoundStays DEF Busy
<1>6. /\ \A k \in Launches : (Bound(k) => Bound(k)') /\ (Stranded(k) => Stranded(k)')
      /\ \A k \in Launches : \A q \in Ranks(k) : job'[k][q].id \in {job[k][q].id, None}
  BY <1>5 DEF Bound, Stranded, Turns, Elsewhere
<1>7. /\ \A f \in DOMAIN ids : Shown(f)'
      /\ \A k \in Launches : \A q \in Ranks(k) : Known(k, q)'
  BY <1>2, <1>6, IdsStand DEF Elsewhere
<1>8. DOMAIN dir' = DOMAIN dir
  BY <1>1 DEF LaunchTypeOK
<1> QED BY <1>3, <1>4, <1>7, <1>8 DEF LaunchInv

(***************************************************************************)
(* The steps of a rank.                                                    *)
(***************************************************************************)
Spoken(i, n) == [i EXCEPT !.doing = "call", !.said = n]
Doer(i, doing) == [i EXCEPT !.doing = doing]

LEMMA RankFacts ==
  ASSUME LaunchInv, NEW l \in Launches, NEW r \in Ranks(l)
  PROVE  /\ LaunchTypeOK /\ job[l][r] \in Job /\ Sane(job[l][r]) /\ RankInv(l)
         /\ job[l][r].step \in 1 .. 24 /\ Papers(l, r) /\ Speaks(l, r, job[l][r])
BY DEF LaunchInv, LaunchTypeOK, RankInv, Job

LEMMA SpokenField ==
  ASSUME NEW i \in Job, NEW n \in Nat
  PROVE  /\ Spoken(i, n) \in Job /\ Spoken(i, n).step = i.step /\ Spoken(i, n).doing = "call"
         /\ Spoken(i, n).id = i.id /\ Spoken(i, n).litters = i.litters /\ Spoken(i, n).said = n
         /\ (Spoken(i, n).differs <=> i.differs) /\ Spoken(i, n).differs = i.differs
         /\ Spoken(i, n).end = i.end
BY DEF Job, Busy, Spoken

LEMMA DoerField ==
  ASSUME NEW i \in Job, NEW d \in {"publish", "init", "work", "prompt", "record", "call"}
  PROVE  /\ Doer(i, d) \in Job /\ Doer(i, d).step = i.step /\ Doer(i, d).doing = d
         /\ Doer(i, d).id = i.id /\ Doer(i, d).litters = i.litters /\ Doer(i, d).said = i.said
         /\ (Doer(i, d).differs <=> i.differs) /\ Doer(i, d).differs = i.differs
         /\ Doer(i, d).end = i.end
BY DEF Job, Early, Busy, Doer

LEMMA SaysIsSpoken ==
  ASSUME LaunchTypeOK, NEW l \in Launches, NEW r \in Ranks(l), NEW n, Says(l, r, n)
  PROVE  job' = [job EXCEPT ![l][r] = Spoken(job[l][r], n)]
BY DEF LaunchTypeOK, Says, Spoken

\* What a rank may say at its step.
May(l, r, i, n) ==
  /\ Program[i.step][1] = "share" /\ Program[i.step][2] # "clock" =>
       n = IF odd[l] = Program[i.step][2] THEN r ELSE 1
  /\ Program[i.step] = Share("clock") => IF r = 0 THEN n \in Seconds ELSE n = 0
  /\ Program[i.step][1] = "agree" => n = IF i.differs THEN 1 ELSE 0

LEMMA SpokenSteps ==
  ASSUME LaunchInv, NEW l \in Launches, NEW r \in Ranks(l), NEW n \in Nat,
         job[l][r].doing \in {"work", "prompt", "record"}, May(l, r, job[l][r], n),
         job' = [job EXCEPT ![l][r] = Spoken(job[l][r], n)], UNCHANGED <<place, comm, odd, second>>
  PROVE  /\ Turns(l, r, Spoken(job[l][r], n)) /\ Steps(l, r, job[l][r], Spoken(job[l][r], n))
         /\ comm'[l] \in {comm[l], "dead"}
<1> DEFINE i == job[l][r]
           j == Spoken(i, n)
<1>1. i \in Job /\ Sane(i) /\ LaunchTypeOK
  BY RankFacts
<1>2. /\ j \in Job /\ j.step = i.step /\ j.doing = "call" /\ j.said = n
      /\ j.differs = i.differs /\ j.end = i.end
  BY <1>1, SpokenField
<1> HIDE DEF j
<1>3. Turns(l, r, j)
  BY <1>1, <1>2, RankTurns DEF j
<1>4. Sane(j)
  BY <1>1, <1>2 DEF Sane, Early
<1>5. Speaks(l, r, j)
  BY <1>2 DEF Speaks, May
<1>6. Steps(l, r, i, j)
  BY <1>1, <1>2, <1>4, <1>5 DEF Steps, Busy
<1> QED BY <1>3, <1>6 DEF j

LEMMA SpeakingStep ==
  ASSUME LaunchInv, NEW l \in Launches, NEW r \in Ranks(l), NEW n \in Nat,
         job[l][r].doing \in {"work", "prompt", "record"}, May(l, r, job[l][r], n), Says(l, r, n),
         UNCHANGED <<place, ids, comm, odd, second, dir>>,
         n = 0 => job[l][r].step \notin {17, 18, 23}
  PROVE  LaunchInv'
<1> DEFINE i == job[l][r]
           j == Spoken(i, n)
<1>1. i \in Job /\ Sane(i) /\ LaunchTypeOK
  BY RankFacts
<1>2. job' = [job EXCEPT ![l][r] = j]
  BY <1>1, SaysIsSpoken
<1>3. /\ j \in Job /\ j.step = i.step /\ j.doing = "call" /\ j.said = n
      /\ j.id = i.id /\ j.litters = i.litters
  BY <1>1, SpokenField
<1>4. Turns(l, r, j) /\ Steps(l, r, i, j) /\ comm'[l] \in {comm[l], "dead"}
  BY <1>2, SpokenSteps
<1> HIDE DEF j
<1>5. Quiet(i, j)
  BY <1>1, <1>3 DEF Quiet, Past
<1> QED BY <1>4, <1>5, QuietStep

LEMMA ContributeKeeps ==
  ASSUME LaunchInv, NEW l \in Launches, NEW r \in Ranks(l), Contribute(l, r)
  PROVE  LaunchInv'
<1> DEFINE p == Program[job[l][r].step]
<1>1. /\ p[1] = "share" /\ p = Share(p[2]) /\ job[l][r].doing = "work"
      /\ job[l][r].step \notin {17, 18, 23}
  <2>1. job[l][r].step \in 1 .. 24 /\ p[1] = "share" /\ job[l][r].doing = "work"
    BY RankFacts DEF Contribute, Does
  <2> QED BY <2>1, ProgramFacts, Kinds
<1>2. UNCHANGED <<place, ids, comm, odd, second, dir>>
  BY DEF Contribute
<1>3. CASE p # Share("clock")
  <2>1. p[2] # "clock" /\ View(l, r) = (IF odd[l] = p[2] THEN r ELSE 1) /\ Says(l, r, View(l, r))
    BY <1>1, <1>3 DEF View, Contribute
  <2>2. View(l, r) \in Nat /\ May(l, r, job[l][r], View(l, r))
    BY <1>1, <1>3, <2>1, TheRanks DEF May
  <2> QED BY <1>1, <1>2, <2>1, <2>2, SpeakingStep
<1>4. CASE p = Share("clock") /\ r # 0
  <2>1. p[2] = "clock" /\ View(l, r) = 0 /\ Says(l, r, 0)
    BY <1>4, Kinds DEF View, Contribute
  <2>2. May(l, r, job[l][r], 0)
    BY <1>1, <1>4, <2>1 DEF May
  <2> QED BY <1>1, <1>2, <2>1, <2>2, SpeakingStep
<1>5. CASE p = Share("clock") /\ r = 0
  <2>1. p[2] = "clock"
    BY <1>5, Kinds
  <2>2. PICK s \in Seconds : Says(l, r, s)
    BY <1>5 DEF Contribute
  <2>3. s \in Nat /\ May(l, r, job[l][r], s)
    BY <1>1, <1>5, <2>1, LaunchAssumption DEF May
  <2> QED BY <1>1, <1>2, <2>2, <2>3, SpeakingStep
<1> QED BY <1>3, <1>4, <1>5

LEMMA CompareKeeps ==
  ASSUME LaunchInv, NEW l \in Launches, NEW r \in Ranks(l), Compare(l, r)
  PROVE  LaunchInv'
<1> DEFINE n == IF job[l][r].differs THEN 1 ELSE 0
<1>1. /\ Program[job[l][r].step][1] = "agree" /\ job[l][r].step \in 1 .. 24
      /\ job[l][r].doing = "work" /\ Says(l, r, n)
      /\ UNCHANGED <<place, ids, comm, odd, second, dir>>
  BY RankFacts DEF Compare, Does
<1>2. job[l][r].step \notin {17, 18, 23}
  BY <1>1, ProgramFacts, Kinds
<1>3. n \in Nat /\ May(l, r, job[l][r], n)
  BY <1>1, Kinds DEF May
<1> HIDE DEF n
<1> QED BY <1>1, <1>2, <1>3, SpeakingStep

\* At a step of work a rank may say what it likes.
LEMMA TriesMay ==
  ASSUME NEW l, NEW r, NEW i, Program[i.step][1] = "try", NEW n PROVE May(l, r, i, n)
BY Kinds DEF May

LEMMA WorkKeeps ==
  ASSUME LaunchInv, NEW l \in Launches, NEW r \in Ranks(l), Work(l, r)
  PROVE  LaunchInv'
<1>1. PICK work \in Private : Doing(l, r, work)
  BY DEF Work
<1>2. /\ Program[job[l][r].step][1] = "try" /\ job[l][r].doing = "work"
      /\ job[l][r].step \notin {17, 18, 23}
  BY <1>1, RankFacts, ProgramFacts, Kinds DEF Doing
<1>3. \E n \in {0, 1} : Says(l, r, n)
  BY DEF Work
<1>4. UNCHANGED <<place, ids, comm, odd, second, dir>>
  BY DEF Work
<1> QED BY <1>2, <1>3, <1>4, TriesMay, SpeakingStep

LEMMA LoadCandidatesKeeps ==
  ASSUME LaunchInv, NEW l \in Launches, NEW r \in Ranks(l), LoadCandidates(l, r)
  PROVE  LaunchInv'
<1>1. /\ Program[job[l][r].step][1] = "try" /\ job[l][r].doing = "work"
      /\ job[l][r].step \notin {17, 18, 23}
  BY RankFacts, ProgramFacts, Kinds DEF LoadCandidates, Doing
<1>2. \E n \in {0, 1} : Says(l, r, n)
  BY DEF LoadCandidates
<1>3. UNCHANGED <<place, ids, comm, odd, second, dir>>
  BY DEF LoadCandidates
<1> QED BY <1>1, <1>2, <1>3, TriesMay, SpeakingStep

LEMMA LookAtDirKeeps ==
  ASSUME LaunchInv, NEW l \in Launches, NEW r \in Ranks(l), LookAtDir(l, r)
  PROVE  LaunchInv'
<1> DEFINE i == job[l][r]
           j == Doer(i, "prompt")
<1>1. /\ Program[i.step][1] = "try" /\ i.doing = "work" /\ i.step = 17
      /\ i \in Job /\ Sane(i) /\ LaunchTypeOK
  BY RankFacts, ProgramFacts, Kinds DEF LookAtDir, Doing
<1>2. UNCHANGED <<place, ids, comm, odd, second, dir>>
  BY DEF LookAtDir
<1>3. CASE Says(l, r, 1)
  BY <1>1, <1>2, <1>3, TriesMay, SpeakingStep
<1>4. CASE job' = [job EXCEPT ![l][r].doing = "prompt"]
  <2>1. job' = [job EXCEPT ![l][r] = j]
    BY <1>1, <1>4 DEF LaunchTypeOK, Doer
  <2>2. /\ j \in Job /\ j.step = i.step /\ j.doing = "prompt" /\ j.said = i.said
        /\ j.id = i.id /\ j.litters = i.litters /\ j.differs = i.differs /\ j.end = i.end
    BY <1>1, DoerField
  <2> HIDE DEF j
  <2>3. Turns(l, r, j)
    BY <1>1, <1>2, <2>1, <2>2, RankTurns
  <2>4. Steps(l, r, i, j)
    BY <1>1, <2>2 DEF Steps, Sane, Speaks, Early, Busy
  <2>5. Quiet(i, j)
    BY <1>1, <2>2 DEF Quiet, Past
  <2> QED BY <1>2, <2>3, <2>4, <2>5, QuietStep
<1> QED BY <1>3, <1>4 DEF LookAtDir

\* What a rank writes to its directory, old before and new after it.
Grown(l, r, j, old, new) ==
  /\ old.prompt # None => new.prompt = old.prompt
  /\ old.launch # None => new.launch = old.launch
  /\ old.report # None => new.report = old.report
  /\ old.rows \subseteq new.rows /\ new.rows \subseteq {new.launch}
  /\ new.launch # None => new.prompt = new.launch
  /\ new.report \in {l, old.report}
  /\ new.report = l => j.step >= 23 /\ r = 0
  /\ j.doing = "record" => new.prompt = l
  /\ Past(j, 17) => new.launch = l
  /\ Past(j, 18) => l \in new.rows
  /\ Past(j, 23) /\ r = 0 => new.report = l
Wrote(i, j) ==
  /\ j \in Job /\ j.step = i.step /\ j.doing \in {"record", "call"}
  /\ j.id = i.id /\ j.litters = i.litters /\ j.differs = i.differs /\ j.end = i.end
  /\ j.doing = "record" => j.said = 0 /\ j.step = 17

LEMMA WriterStep ==
  ASSUME LaunchInv, NEW l \in Launches, NEW r \in Ranks(l), NEW j, Wrote(job[l][r], j),
         job[l][r].doing \in {"work", "prompt", "record"}, job[l][r].step \in {17, 18, 23},
         job' = [job EXCEPT ![l][r] = j], UNCHANGED <<place, ids, comm, odd, second>>,
         NEW e \in Dir, dir' = [dir EXCEPT ![RunDir(l, r)] = e],
         Grown(l, r, j, dir[RunDir(l, r)], e)
  PROVE  LaunchInv'
<1> DEFINE i == job[l][r]
<1>1. /\ i \in Job /\ Sane(i) /\ LaunchTypeOK /\ second[l] \in Seconds
      /\ Program[i.step][1] = "try"
  BY RankFacts, ProgramFacts, Kinds DEF Papers
<1>2. /\ j \in Job /\ j.step = i.step /\ j.doing \in {"record", "call"}
      /\ j.id = i.id /\ j.litters = i.litters /\ j.differs = i.differs /\ j.end = i.end
      /\ j.doing = "record" => j.said = 0 /\ j.step = 17
  BY DEF Wrote
<1>3. Turns(l, r, j)
  BY <1>1, <1>2, RankTurns
<1>4. Speaks(l, r, j)
  BY <1>1, <1>2, Kinds DEF Speaks
<1>5. Sane(j)
  BY <1>1, <1>2 DEF Sane, Early
<1>6. Steps(l, r, i, j)
  BY <1>1, <1>2, <1>4, <1>5 DEF Steps, Sane, Early, Busy
<1>7. /\ \A k \in Launches : \A q \in Ranks(k) : Papers(k, q)'
      /\ \A d \in DOMAIN dir : Record(d)'
      /\ dir' \in [Seconds \X AllRanks -> Dir]
  BY <1>1, <1>2, <1>3, FilesGrow DEF Grown
<1>8. i.doing \in Busy \ {"remove"} /\ comm'[l] \in {comm[l], "dead"} /\ UNCHANGED ids
  BY DEF Busy
<1> QED BY <1>2, <1>3, <1>6, <1>7, <1>8, WritingStep

LEMMA SpeakerWrote ==
  ASSUME NEW i \in Job, NEW n \in Nat
  PROVE  /\ Wrote(i, Spoken(i, n)) /\ Spoken(i, n).step = i.step
         /\ Spoken(i, n).doing = "call" /\ Spoken(i, n).said = n
BY SpokenField DEF Wrote

LEMMA DoerWrote ==
  ASSUME NEW i \in Job, NEW d \in {"record", "call"}, i.said = 0, d = "record" => i.step = 17
  PROVE  /\ Wrote(i, Doer(i, d)) /\ Doer(i, d).step = i.step
         /\ Doer(i, d).doing = d /\ Doer(i, d).said = 0
BY DoerField DEF Wrote

LEMMA DirFacts ==
  ASSUME LaunchInv, NEW l \in Launches, NEW r \in Ranks(l), job[l][r].step \in 17 .. 24
  PROVE  /\ RunDir(l, r) \in Seconds \X AllRanks /\ dir[RunDir(l, r)] \in Dir
         /\ Record(RunDir(l, r)) /\ dir = [dir EXCEPT ![RunDir(l, r)] = dir[RunDir(l, r)]]
         /\ dir[RunDir(l, r)].rows \subseteq {dir[RunDir(l, r)].launch}
         /\ dir[RunDir(l, r)].launch = None => dir[RunDir(l, r)].rows = {}
         /\ dir[RunDir(l, r)].launch # None => dir[RunDir(l, r)].prompt = dir[RunDir(l, r)].launch
         /\ dir[RunDir(l, r)].report = l => r = 0 /\ job[l][0].step >= 23
<1>1. second[l] \in Seconds /\ r \in AllRanks
  BY RankFacts, TheRanks DEF Papers
<1>2. RunDir(l, r) \in Seconds \X AllRanks /\ dir \in [Seconds \X AllRanks -> Dir]
  BY <1>1 DEF RunDir, LaunchInv, LaunchTypeOK
<1>3. Record(RunDir(l, r)) /\ dir[RunDir(l, r)] \in Dir
  BY <1>2 DEF LaunchInv
<1>4. dir[RunDir(l, r)].report = l => r = 0 /\ job[l][0].step >= 23
  BY <1>3, LaunchAssumption DEF Record, RunDir
<1>5. dir[RunDir(l, r)].launch = None => dir[RunDir(l, r)].rows = {}
  BY <1>3, LaunchAssumption DEF Record, Dir
<1> QED BY <1>2, <1>3, <1>4, <1>5 DEF Record

LEMMA WritePromptKeeps ==
  ASSUME LaunchInv, NEW l \in Launches, NEW r \in Ranks(l), WritePrompt(l, r)
  PROVE  LaunchInv'
<1> DEFINE i == job[l][r]
           w == RunDir(l, r)
           e == [dir[w] EXCEPT !.prompt = l]
           j == Spoken(i, 1)
           k == Doer(i, "record")
<1>1. /\ i \in Job /\ Sane(i) /\ LaunchTypeOK /\ i.doing = "prompt" /\ i.step = 17 /\ i.said = 0
  BY RankFacts DEF WritePrompt, Sane
<1>2. /\ dir[w] \in Dir /\ dir = [dir EXCEPT ![w] = dir[w]]
      /\ dir[w].rows \subseteq {dir[w].launch}
      /\ dir[w].launch = None => dir[w].rows = {}
      /\ dir[w].launch # None => dir[w].prompt = dir[w].launch
      /\ dir[w].report # l
  <2>1. job[l][0].step = 17
    BY <1>1, TheRanks, RankFacts DEF RankInv, SameStep
  <2> QED BY <1>1, <2>1, DirFacts
<1>3. UNCHANGED <<place, ids, comm, odd, second>>
  BY DEF WritePrompt, WriteNew
<1>4. /\ Wrote(i, j) /\ j.step = 17 /\ j.doing = "call" /\ j.said = 1
      /\ Wrote(i, k) /\ k.step = 17 /\ k.doing = "record" /\ k.said = 0
  BY <1>1, SpeakerWrote, DoerWrote
<1>5. /\ e \in Dir /\ e.prompt = l /\ e.launch = dir[w].launch /\ e.rows = dir[w].rows
      /\ e.report = dir[w].report
  BY <1>2 DEF Dir
<1>6. [dir EXCEPT ![w]["prompt"] = l] = [dir EXCEPT ![w] = e]
  BY <1>2
<1>7. job' = [job EXCEPT ![l][r].doing = "record"] => job' = [job EXCEPT ![l][r] = k]
  BY <1>1 DEF LaunchTypeOK, Doer
<1>8. Says(l, r, 1) => job' = [job EXCEPT ![l][r] = j]
  BY <1>1, SaysIsSpoken
<1>9. Grown(l, r, j, dir[w], dir[w])
  <2> HIDE DEF j, k, e, w
  <2> QED BY <1>2, <1>4 DEF Grown, Past
<1>10. ASSUME dir[w].prompt = None PROVE Grown(l, r, j, dir[w], e) /\ Grown(l, r, k, dir[w], e)
  <2> HIDE DEF j, k, e, w
  <2> QED BY <1>2, <1>4, <1>5, <1>10, LaunchAssumption DEF Grown, Past
<1>11. \/ Says(l, r, 1) /\ dir' = dir
       \/ Says(l, r, 1) /\ dir' = [dir EXCEPT ![w] = e] /\ dir[w].prompt = None
       \/ job' = [job EXCEPT ![l][r].doing = "record"] /\ dir' = [dir EXCEPT ![w] = e] /\ dir[w].prompt = None
  BY <1>6 DEF WritePrompt, WriteNew
<1> HIDE DEF j, k, e
<1> QED BY <1>1, <1>2, <1>3, <1>4, <1>5, <1>7, <1>8, <1>9, <1>10, <1>11, WriterStep

LEMMA WriteLaunchKeeps ==
  ASSUME LaunchInv, NEW l \in Launches, NEW r \in Ranks(l), WriteLaunch(l, r)
  PROVE  LaunchInv'
<1> DEFINE i == job[l][r]
           w == RunDir(l, r)
           e == [dir[w] EXCEPT !.launch = l]
           j == Spoken(i, 1)
           k == Doer(i, "call")
<1>1. /\ i \in Job /\ Sane(i) /\ LaunchTypeOK /\ i.doing = "record" /\ i.step = 17 /\ i.said = 0
      /\ dir[w].prompt = l
  BY RankFacts DEF WriteLaunch, Sane, Papers
<1>2. /\ dir[w] \in Dir /\ dir = [dir EXCEPT ![w] = dir[w]]
      /\ dir[w].rows \subseteq {dir[w].launch}
      /\ dir[w].launch = None => dir[w].rows = {}
      /\ dir[w].launch # None => dir[w].prompt = dir[w].launch
      /\ dir[w].report # l
  <2>1. job[l][0].step = 17
    BY <1>1, TheRanks, RankFacts DEF RankInv, SameStep
  <2> QED BY <1>1, <2>1, DirFacts
<1>3. UNCHANGED <<place, ids, comm, odd, second>>
  BY DEF WriteLaunch, WriteNew
<1>4. /\ Wrote(i, j) /\ j.step = 17 /\ j.doing = "call" /\ j.said = 1
      /\ Wrote(i, k) /\ k.step = 17 /\ k.doing = "call" /\ k.said = 0
  BY <1>1, SpeakerWrote, DoerWrote
<1>5. /\ e \in Dir /\ e.launch = l /\ e.prompt = dir[w].prompt /\ e.rows = dir[w].rows
      /\ e.report = dir[w].report
  BY <1>2 DEF Dir
<1>6. [dir EXCEPT ![w]["launch"] = l] = [dir EXCEPT ![w] = e]
  BY <1>2
<1>7. job' = [job EXCEPT ![l][r].doing = "call"] => job' = [job EXCEPT ![l][r] = k]
  BY <1>1 DEF LaunchTypeOK, Doer
<1>8. Says(l, r, 1) => job' = [job EXCEPT ![l][r] = j]
  BY <1>1, SaysIsSpoken
<1>9. Grown(l, r, j, dir[w], dir[w])
  <2> HIDE DEF j, k, e, w
  <2> QED BY <1>2, <1>4 DEF Grown, Past
<1>10. ASSUME dir[w].launch = None PROVE Grown(l, r, j, dir[w], e) /\ Grown(l, r, k, dir[w], e)
  <2> HIDE DEF j, k, e, w
  <2> QED BY <1>1, <1>2, <1>4, <1>5, <1>10, LaunchAssumption DEF Grown, Past
<1>11. \/ Says(l, r, 1) /\ dir' = dir
       \/ Says(l, r, 1) /\ dir' = [dir EXCEPT ![w] = e] /\ dir[w].launch = None
       \/ job' = [job EXCEPT ![l][r].doing = "call"] /\ dir' = [dir EXCEPT ![w] = e] /\ dir[w].launch = None
  BY <1>6 DEF WriteLaunch, WriteNew
<1> HIDE DEF j, k, e
<1> QED BY <1>1, <1>2, <1>3, <1>4, <1>5, <1>7, <1>8, <1>9, <1>10, <1>11, WriterStep

LEMMA TrainKeeps ==
  ASSUME LaunchInv, NEW l \in Launches, NEW r \in Ranks(l), Train(l, r)
  PROVE  LaunchInv'
<1> DEFINE i == job[l][r]
           w == RunDir(l, r)
           e == [dir[w] EXCEPT !.rows = dir[w].rows \cup {l}]
<1>1. i \in Job /\ Sane(i) /\ LaunchTypeOK /\ i.doing = "work" /\ i.step = 18 /\ dir[w].launch = l
  <2>1. i.step = 18 /\ i.doing = "work"
    BY RankFacts, ProgramFacts DEF Train, Doing
  <2> QED BY <2>1, RankFacts DEF Papers, Past
<1>2. /\ dir[w] \in Dir /\ dir[w].rows \subseteq {l} /\ dir[w].prompt = l /\ dir[w].report # l
  <2>1. job[l][0].step = 18
    BY <1>1, TheRanks, RankFacts DEF RankInv, SameStep
  <2> QED BY <1>1, <2>1, LaunchAssumption, DirFacts
<1>3. UNCHANGED <<place, ids, comm, odd, second>>
  BY DEF Train
<1>5. /\ e \in Dir /\ e.launch = l /\ e.prompt = l /\ e.rows = {l}
      /\ e.report = dir[w].report
  BY <1>1, <1>2 DEF Dir
<1>6. dir' = [dir EXCEPT ![w] = e]
  BY DEF Train
<1>7. PICK n \in {0, 1} : Says(l, r, n)
  BY DEF Train
<1> DEFINE j == Spoken(i, n)
<1>8. job' = [job EXCEPT ![l][r] = j]
  BY <1>1, <1>7, SaysIsSpoken
<1>9. Wrote(i, j) /\ j.step = 18 /\ j.doing = "call"
  BY <1>1, SpeakerWrote
<1>10. Grown(l, r, j, dir[w], e)
  <2> HIDE DEF j, e, w
  <2> QED BY <1>1, <1>2, <1>5, <1>9, LaunchAssumption DEF Grown, Past
<1> HIDE DEF j, e
<1> QED BY <1>1, <1>3, <1>5, <1>6, <1>8, <1>9, <1>10, WriterStep

LEMMA WriteReportKeeps ==
  ASSUME LaunchInv, NEW l \in Launches, NEW r \in Ranks(l), WriteReport(l, r)
  PROVE  LaunchInv'
<1> DEFINE i == job[l][r]
           w == RunDir(l, r)
           e == [dir[w] EXCEPT !.report = l]
           m == Spoken(i, 0)
           j == Spoken(i, 1)
           k == Doer(i, "call")
<1>1. /\ i \in Job /\ Sane(i) /\ LaunchTypeOK /\ i.doing = "work" /\ i.step = 23 /\ i.said = 0
      /\ dir[w].launch = l /\ l \in dir[w].rows
  <2>1. i.step = 23 /\ i.doing = "work"
    BY RankFacts, ProgramFacts DEF WriteReport, Doing
  <2> QED BY <2>1, RankFacts DEF Papers, Past, Sane
<1>2. /\ dir[w] \in Dir /\ dir = [dir EXCEPT ![w] = dir[w]]
      /\ dir[w].rows \subseteq {dir[w].launch}
      /\ dir[w].launch # None => dir[w].prompt = dir[w].launch
      /\ dir[w].report = l => r = 0
  BY <1>1, DirFacts
<1>3. UNCHANGED <<place, ids, comm, odd, second>>
  BY DEF WriteReport, WriteNew
<1>4. /\ Wrote(i, j) /\ j.step = 23 /\ j.doing = "call" /\ j.said = 1
      /\ Wrote(i, m) /\ m.step = 23 /\ m.doing = "call" /\ m.said = 0
      /\ Wrote(i, k) /\ k.step = 23 /\ k.doing = "call" /\ k.said = 0
  BY <1>1, SpeakerWrote, DoerWrote
<1>5. /\ e \in Dir /\ e.launch = l /\ e.prompt = dir[w].prompt /\ e.rows = dir[w].rows
      /\ e.report = l
  BY <1>1, <1>2 DEF Dir
<1>6. [dir EXCEPT ![w]["report"] = l] = [dir EXCEPT ![w] = e]
  BY <1>2
<1>7. job' = [job EXCEPT ![l][r].doing = "call"] => job' = [job EXCEPT ![l][r] = k]
  BY <1>1 DEF LaunchTypeOK, Doer
<1>8. /\ Says(l, r, 1) => job' = [job EXCEPT ![l][r] = j]
      /\ Says(l, r, 0) => job' = [job EXCEPT ![l][r] = m]
  BY <1>1, SaysIsSpoken
<1>9. Grown(l, r, j, dir[w], dir[w]) /\ (r # 0 => Grown(l, r, m, dir[w], dir[w]))
  <2> HIDE DEF j, k, e, w, m
  <2> QED BY <1>1, <1>2, <1>4 DEF Grown, Past
<1>10. ASSUME dir[w].report = None, r = 0 PROVE Grown(l, r, j, dir[w], e) /\ Grown(l, r, k, dir[w], e)
  <2> HIDE DEF j, k, e, w, m
  <2> QED BY <1>1, <1>2, <1>4, <1>5, <1>10, LaunchAssumption DEF Grown, Past
<1>11. \/ r # 0 /\ Says(l, r, 0) /\ dir' = dir
       \/ Says(l, r, 1) /\ dir' = dir
       \/ Says(l, r, 1) /\ dir' = [dir EXCEPT ![w] = e] /\ dir[w].report = None /\ r = 0
       \/ job' = [job EXCEPT ![l][r].doing = "call"] /\ dir' = [dir EXCEPT ![w] = e]
          /\ dir[w].report = None /\ r = 0
  BY <1>6 DEF WriteReport, WriteNew
<1> HIDE DEF j, k, e, m
<1> QED BY <1>1, <1>2, <1>3, <1>4, <1>5, <1>7, <1>8, <1>9, <1>10, <1>11, WriterStep

(***************************************************************************)
(* The ends of a rank, and the ids.                                        *)
(***************************************************************************)
Gone(i, why) == [Failed(i) EXCEPT !.end = why]

LEMMA GoneField ==
  ASSUME NEW i \in Job, NEW why \in {"failed", "dead"}
  PROVE  /\ Gone(i, why) \in Job /\ Gone(i, why).step = i.step /\ Gone(i, why).doing = "end"
         /\ Gone(i, why).id = None /\ Gone(i, why).litters = i.litters
         /\ Gone(i, why).differs = i.differs /\ Gone(i, why).end = why
BY DEF Job, Gone, Failed

\* A rank ends: while it waits for the communicator, for the communicator, or dead.
LEMMA EndingStep ==
  ASSUME LaunchInv, NEW l \in Launches, NEW r \in Ranks(l), NEW why \in {"failed", "dead"},
         job[l][r].doing # "end", UNCHANGED <<place, odd, second, ids, dir>>,
         comm' \in {comm, [comm EXCEPT ![l] = "dead"]},
         job' = [job EXCEPT ![l][r] = Gone(job[l][r], why)],
         job[l][r].doing \in Early \/ why = "dead" \/ comm' = [comm EXCEPT ![l] = "dead"]
  PROVE  LaunchInv'
<1> DEFINE i == job[l][r]
           j == Gone(i, why)
<1>1. i \in Job /\ Sane(i) /\ LaunchTypeOK
  BY RankFacts
<1>2. /\ j \in Job /\ j.step = i.step /\ j.doing = "end" /\ j.id = None /\ j.litters = i.litters
      /\ j.differs = i.differs /\ j.end = why
  BY <1>1, GoneField
<1> HIDE DEF j
<1>3. Turns(l, r, j)
  BY <1>1, <1>2, RankTurns DEF j
<1>4. comm'[l] \in {comm[l], "dead"} /\ (comm' = [comm EXCEPT ![l] = "dead"] => comm'[l] = "dead")
  BY <1>1 DEF LaunchTypeOK
<1>5. Sane(j) /\ Speaks(l, r, j)
  BY <1>1, <1>2, LaunchAssumption DEF Sane, Speaks, Early
<1>6. Steps(l, r, i, j)
  BY <1>1, <1>2, <1>4, <1>5 DEF Steps
<1>7. Quiet(i, j)
  BY <1>2 DEF Quiet, Past
<1> QED BY <1>3, <1>4, <1>6, <1>7, QuietStep

LEMMA FailsIsGone ==
  ASSUME LaunchInv, NEW l \in Launches, NEW r \in Ranks(l)
  PROVE  /\ Fails(l, r) => job' = [job EXCEPT ![l][r] = Gone(job[l][r], "failed")]
         /\ job' = [job EXCEPT ![l][r] = [Failed(@) EXCEPT !.end = "dead"]] =>
              job' = [job EXCEPT ![l][r] = Gone(job[l][r], "dead")]
<1>1. job[l][r] \in Job /\ LaunchTypeOK
  BY RankFacts
<1>2. Failed(job[l][r]) = Gone(job[l][r], "failed")
  BY <1>1 DEF Failed, Gone, Job
<1> QED BY <1>1, <1>2 DEF Fails, Gone, LaunchTypeOK

LEMMA CommErrorKeeps ==
  ASSUME LaunchInv, NEW l \in Launches, NEW r \in Ranks(l), CommError(l, r)
  PROVE  LaunchInv'
BY FailsIsGone, EndingStep DEF CommError

LEMMA RankDiesKeeps ==
  ASSUME LaunchInv, NEW l \in Launches, NEW r \in Ranks(l), RankDies(l, r)
  PROVE  LaunchInv'
BY FailsIsGone, EndingStep DEF RankDies

LEMMA EarlyFailKeeps ==
  ASSUME LaunchInv, NEW l \in Launches, NEW r \in Ranks(l), NEW doing \in Early,
         Boots(l, r, doing), Fails(l, r), UNCHANGED <<ids, dir>>
  PROVE  LaunchInv'
BY FailsIsGone, EndingStep DEF Boots, Early

\* Rank r of l moves ahead of the first reduction, or reaches it, and does with the ids
\* what leaves them known.
Boot(i, j) ==
  /\ j \in Job /\ j.step = i.step /\ j.differs = i.differs /\ j.said = 0 /\ j.end = None
  /\ \/ i.doing \in Early /\ j.doing \in Early
     \/ i.doing = "remove" /\ j.doing = "work"

LEMMA BootStep ==
  ASSUME LaunchInv, NEW l \in Launches, NEW r \in Ranks(l), NEW j, Boot(job[l][r], j),
         job' = [job EXCEPT ![l][r] = j], UNCHANGED <<place, comm, odd, second, dir>>,
         ids' \in [{place[k] : k \in Launches} -> Launches \cup {None}],
         \A f \in DOMAIN ids : Shown(f)', \A k \in Launches : \A q \in Ranks(k) : Known(k, q)'
  PROVE  LaunchInv'
<1> DEFINE i == job[l][r]
<1>0. /\ j \in Job /\ j.step = i.step /\ j.differs = i.differs /\ j.said = 0 /\ j.end = None
      /\ \/ i.doing \in Early /\ j.doing \in Early
         \/ i.doing = "remove" /\ j.doing = "work"
  BY DEF Boot
<1>1. i \in Job /\ Sane(i) /\ LaunchTypeOK /\ i.step = 1 /\ comm'[l] \in {comm[l], "dead"}
  BY <1>0, RankFacts DEF Sane
<1>2. Turns(l, r, j)
  BY <1>0, <1>1, RankTurns
<1>3. Sane(j) /\ Speaks(l, r, j)
  BY <1>0, <1>1, LaunchAssumption DEF Sane, Speaks, Early
<1>4. Steps(l, r, i, j)
  BY <1>0, <1>1, <1>3 DEF Steps, Busy
<1>5. RankInv(l)' /\ Elsewhere(l) /\ job'[l] \in [Ranks(l) -> Job] /\ dir' = dir
  BY <1>1, <1>2, <1>4, RankFacts, StepKeepsRanks DEF Turns
<1>6. \A q \in Ranks(l) :
        /\ job'[l][q].doing = "record" => job[l][q].doing = "record"
        /\ job'[l][q].step = job[l][q].step /\ job[l][q].step \in 1 .. 24
        /\ \A n \in {17, 18, 23} : Past(job[l][q], n)' => Past(job[l][q], n)
  <2>1. ASSUME NEW q \in Ranks(l) \ {r}
        PROVE  job[l][q] \in Job /\ job'[l][q] = job[l][q]
               /\ \A n \in {17, 18, 23} : Past(job[l][q], n)' => Past(job[l][q], n)
    BY <1>1, <1>2, <2>1 DEF LaunchTypeOK, Past, Turns
  <2>2. job'[l][r] = j /\ \A n \in {17, 18, 23} : Past(job[l][r], n)' => Past(job[l][r], n)
    BY <1>0, <1>1, <1>2 DEF Past, Turns
  <2> QED BY <1>0, <1>1, <2>1, <2>2 DEF Job, Early
<1>7. WithoutFiles(l)
  BY <1>2, <1>5, <1>6, FiledFacts DEF WithoutFiles, Turns
<1>8. /\ \A k \in Launches : \A q \in Ranks(k) : Papers(k, q)'
      /\ \A d \in DOMAIN dir : Record(d)'
  BY <1>5, <1>7, FilesStand
<1>9. LaunchTypeOK' /\ \A k \in Launches : RankInv(k)'
  BY <1>1, <1>5, TypeStands, RanksStand DEF LaunchTypeOK
<1>10. DOMAIN ids' = DOMAIN ids
  BY <1>1 DEF LaunchTypeOK
<1> QED BY <1>5, <1>8, <1>9, <1>10 DEF LaunchInv

\* A record with another id.
Booted(i, doing, id) == [i EXCEPT !.doing = doing, !.id = id]

BootedAs(i, doing, id, j) ==
  /\ j \in Job /\ j.step = i.step /\ j.doing = doing /\ j.id = id
  /\ j.litters = i.litters /\ j.said = i.said /\ j.differs = i.differs /\ j.end = i.end

LEMMA BootedField ==
  ASSUME NEW i \in Job, NEW d \in {"publish", "init"}, NEW id \in Launches \cup {None}
  PROVE  BootedAs(i, d, id, Booted(i, d, id))
<1> DEFINE j == Booted(i, d, id)
<1>1. j \in Job
  BY DEF Job, Early, Busy, Booted
<1>2. /\ j.step = i.step /\ j.doing = d /\ j.id = id
      /\ j.litters = i.litters /\ j.said = i.said /\ j.differs = i.differs /\ j.end = i.end
  BY DEF Job, Booted
<1> QED BY <1>1, <1>2 DEF BootedAs

LEMMA BootFacts ==
  ASSUME LaunchInv, NEW l \in Launches, NEW r \in Ranks(l),
         job[l][r].doing \in {"boot", "publish", "init", "remove"}
  PROVE  /\ job[l][r] \in Job /\ job[l][r].said = 0 /\ job[l][r].end = None /\ job[l][r].step = 1
         /\ LaunchTypeOK /\ place[l] \in DOMAIN ids
         /\ ids \in [{place[k] : k \in Launches} -> Launches \cup {None}]
BY RankFacts DEF Sane, Early, LaunchTypeOK

LEMMA ClearPlaceKeeps ==
  ASSUME LaunchInv, NEW l \in Launches, ClearPlace(l)
  PROVE  LaunchInv'
<1> DEFINE i == job[l][0]
           j == Booted(i, "publish", i.id)
<1>0. 0 \in Ranks(l)
  BY TheRanks
<1>1. CASE Fails(l, 0) /\ UNCHANGED ids
  BY <1>0, <1>1, EarlyFailKeeps DEF ClearPlace, Boots, Early
<1>2. CASE ids' = [ids EXCEPT ![place[l]] = None] /\ job' = [job EXCEPT ![l][0].doing = "publish"]
  <2>1. /\ i \in Job /\ i.doing = "boot" /\ i.said = 0 /\ i.end = None /\ i.step = 1 /\ LaunchTypeOK
        /\ place[l] \in DOMAIN ids /\ ids \in [{place[k] : k \in Launches} -> Launches \cup {None}]
    BY <1>0, BootFacts DEF ClearPlace, Boots
  <2>2. job' = [job EXCEPT ![l][0] = j]
    BY <1>0, <1>2, <2>1 DEF Booted, LaunchTypeOK, Job
  <2>3. /\ j \in Job /\ j.step = i.step /\ j.doing = "publish" /\ j.id = i.id
        /\ j.litters = i.litters /\ j.said = i.said /\ j.differs = i.differs /\ j.end = i.end
    <3>1. i.id \in Launches \cup {None}
      BY <2>1 DEF Job
    <3>2. BootedAs(i, "publish", i.id, j)
      BY <2>1, <3>1, BootedField
    <3> QED BY <3>2 DEF BootedAs
  <2> HIDE DEF j
  <2>4. UNCHANGED <<place, comm, odd, second, dir>>
    BY DEF ClearPlace, Boots
  <2>5. ids' \in [{place[k] : k \in Launches} -> Launches \cup {None}]
        /\ \A f \in DOMAIN ids : ids'[f] \in {ids[f], None} /\ ids[f] \in Launches \cup {None}
    BY <1>2, <2>1
  <2>6. /\ \A k \in Launches : (Bound(k) => Bound(k)') /\ (Stranded(k) => Stranded(k)')
        /\ \A k \in Launches : \A q \in Ranks(k) : job'[k][q].id = job[k][q].id
    <3>1. Turns(l, 0, j)
      BY <1>0, <2>1, <2>2, <2>3, <2>4, RankTurns
    <3>2. \A k \in Launches \ {l} : job'[k] = job[k]
      BY <3>1 DEF Turns, Elsewhere
    <3> QED BY <2>1, <2>3, <3>1, <3>2 DEF Bound, Stranded, Turns
  <2>7. ASSUME NEW f \in DOMAIN ids PROVE Shown(f)'
    BY <2>4, <2>5, <2>6 DEF Shown, LaunchInv
  <2>8. ASSUME NEW k \in Launches, NEW q \in Ranks(k) PROVE Known(k, q)'
    <3>1. Known(k, q) /\ job[k][q].id \in Launches \cup {None}
      BY DEF LaunchInv, LaunchTypeOK, Job
    <3> QED BY <2>6, <3>1 DEF Known
  <2>10. Boot(i, j)
    BY <2>1, <2>3 DEF Boot, Early
  <2> QED BY <1>0, <2>2, <2>4, <2>5, <2>7, <2>8, <2>10, BootStep
<1> QED BY <1>1, <1>2 DEF ClearPlace

LEMMA PublishIdKeeps ==
  ASSUME LaunchInv, NEW l \in Launches, PublishId(l)
  PROVE  LaunchInv'
<1> DEFINE i == job[l][0]
           j == Booted(i, "init", l)
<1>0. 0 \in Ranks(l)
  BY TheRanks
<1>1. CASE Fails(l, 0) /\ UNCHANGED ids
  BY <1>0, <1>1, EarlyFailKeeps DEF PublishId, Boots, Early
<1>2. CASE ids' = [ids EXCEPT ![place[l]] = l]
           /\ job' = [job EXCEPT ![l][0].doing = "init", ![l][0].id = l]
  <2>1. /\ i \in Job /\ i.doing = "publish" /\ i.said = 0 /\ i.end = None /\ i.step = 1 /\ LaunchTypeOK
        /\ place[l] \in DOMAIN ids /\ ids \in [{place[k] : k \in Launches} -> Launches \cup {None}]
    BY <1>0, BootFacts DEF PublishId, Boots
  <2>2. job' = [job EXCEPT ![l][0] = j]
    BY <1>0, <1>2, <2>1 DEF Booted, LaunchTypeOK
  <2>3. /\ j \in Job /\ j.step = i.step /\ j.doing = "init" /\ j.id = l
        /\ j.litters = i.litters /\ j.said = i.said /\ j.differs = i.differs /\ j.end = i.end
    <3>1. BootedAs(i, "init", l, j)
      BY <2>1, BootedField
    <3> QED BY <3>1 DEF BootedAs
  <2> HIDE DEF j
  <2>4. UNCHANGED <<place, comm, odd, second, dir>>
    BY DEF PublishId, Boots
  <2>9. ids' \in [{place[k] : k \in Launches} -> Launches \cup {None}]
    BY <1>2, <2>1
  <2>5. \A f \in DOMAIN ids : /\ ids[f] \in Launches \cup {None}
                              /\ ids'[f] = (IF f = place[l] THEN l ELSE ids[f])
    BY <1>2, <2>1
  <2>6. /\ \A k \in Launches : (Bound(k) => Bound(k)') /\ (Stranded(k) => Stranded(k)')
        /\ \A k \in Launches : \A q \in Ranks(k) : job'[k][q].id = job[k][q].id \/ (k = l /\ job'[k][q].id = l)
        /\ Bound(l)'
    <3>1. Turns(l, 0, j)
      BY <1>0, <2>1, <2>2, <2>3, <2>4, RankTurns
    <3>2. \A k \in Launches \ {l} : job'[k] = job[k]
      BY <3>1 DEF Turns, Elsewhere
    <3> QED BY <2>1, <2>3, <3>1, <3>2 DEF Bound, Stranded, Turns
  <2>7. ASSUME NEW f \in DOMAIN ids PROVE Shown(f)'
    BY <2>4, <2>5, <2>6 DEF Shown, LaunchInv
  <2>8. ASSUME NEW k \in Launches, NEW q \in Ranks(k) PROVE Known(k, q)'
    <3>1. Known(k, q) /\ job[k][q].id \in Launches \cup {None}
      BY DEF LaunchInv, LaunchTypeOK, Job
    <3> QED BY <2>6, <3>1 DEF Known
  <2>10. Boot(i, j)
    BY <2>1, <2>3 DEF Boot, Early
  <2> QED BY <1>0, <2>2, <2>4, <2>9, <2>7, <2>8, <2>10, BootStep
<1> QED BY <1>1, <1>2 DEF PublishId

LEMMA ReadIdKeeps ==
  ASSUME LaunchInv, NEW l \in Launches, NEW r \in Ranks(l), ReadId(l, r)
  PROVE  LaunchInv'
<1> DEFINE i == job[l][r]
           n == ids[place[l]]
           j == Booted(i, "init", n)
<1>1. CASE Fails(l, r)
  BY <1>1, EarlyFailKeeps DEF ReadId, Boots, Early
<1>2. CASE n # None /\ job' = [job EXCEPT ![l][r].doing = "init", ![l][r].id = n]
  <2>1. /\ i \in Job /\ i.doing = "boot" /\ i.said = 0 /\ i.end = None /\ i.step = 1 /\ LaunchTypeOK
        /\ place[l] \in DOMAIN ids /\ ids \in [{place[k] : k \in Launches} -> Launches \cup {None}]
        /\ n \in Launches
    BY <1>2, BootFacts DEF ReadId, Boots
  <2>2. job' = [job EXCEPT ![l][r] = j]
    BY <1>2, <2>1 DEF Booted, LaunchTypeOK
  <2>3. /\ j \in Job /\ j.step = i.step /\ j.doing = "init" /\ j.id = n
        /\ j.litters = i.litters /\ j.said = i.said /\ j.differs = i.differs /\ j.end = i.end
    <3>1. BootedAs(i, "init", n, j)
      BY <2>1, BootedField
    <3> QED BY <3>1 DEF BootedAs
  <2>4. UNCHANGED <<place, comm, odd, second, dir, ids>> /\ r # 0
    BY DEF ReadId, Boots
  <2>5. n = l \/ Stranded(n)
    <3>1. SUFFICES ASSUME n # l PROVE Stranded(n)
      OBVIOUS
    <3>2. Bound(n) /\ place[n] = place[l] /\ 0 \in Ranks(n)
      BY <1>2, <2>1, TheRanks DEF LaunchInv, Shown
    <3>3. job[n][0] = Start \/ job[n][0].doing = "end"
      BY <2>1, <3>1, <3>2 DEF ReadId, Boots, MayStart
    <3> QED BY <3>2, <3>3 DEF Bound, Stranded, Start
  <2> HIDE DEF j, n
  <2>6. /\ \A k \in Launches : (Bound(k) <=> Bound(k)') /\ (Stranded(k) <=> Stranded(k)')
        /\ \A k \in Launches : \A q \in Ranks(k) :
             job'[k][q].id = job[k][q].id \/ (k = l /\ job'[k][q].id = n)
    <3>1. Turns(l, r, j)
      BY <2>1, <2>2, <2>3, <2>4, RankTurns
    <3>2. \A k \in Launches \ {l} : job'[k] = job[k]
      BY <3>1 DEF Turns, Elsewhere
    <3>3. job'[l][0] = job[l][0]
      BY <2>4, <3>1, TheRanks DEF Turns
    <3> QED BY <2>1, <2>3, <3>1, <3>2, <3>3 DEF Bound, Stranded, Turns
  <2>7. ASSUME NEW f \in DOMAIN ids PROVE Shown(f)'
    <3>1. ids[f] \in Launches \cup {None} /\ Shown(f)
      BY <2>1 DEF LaunchInv
    <3> QED BY <2>4, <2>6, <3>1 DEF Shown
  <2>8. ASSUME NEW k \in Launches, NEW q \in Ranks(k) PROVE Known(k, q)'
    <3>1. Known(k, q) /\ job[k][q].id \in Launches \cup {None}
      BY DEF LaunchInv, LaunchTypeOK, Job
    <3> QED BY <2>1, <2>5, <2>6, <3>1 DEF Known
  <2>10. Boot(i, j)
    BY <2>1, <2>3 DEF Boot, Early
  <2> QED BY <2>1, <2>2, <2>4, <2>7, <2>8, <2>10, BootStep
<1> QED BY <1>1, <1>2 DEF ReadId

LEMMA RemoveIdKeeps ==
  ASSUME LaunchInv, NEW l \in Launches, RemoveId(l)
  PROVE  LaunchInv'
<1> DEFINE i == job[l][0]
<1>0. 0 \in Ranks(l)
  BY TheRanks
<1>1. /\ i \in Job /\ i.doing = "remove" /\ i.said = 0 /\ i.end = None /\ i.step = 1 /\ LaunchTypeOK
      /\ place[l] \in DOMAIN ids /\ ids \in [{place[k] : k \in Launches} -> Launches \cup {None}]
  BY <1>0, BootFacts DEF RemoveId, Boots
<1>2. UNCHANGED <<place, comm, odd, second, dir>>
  BY DEF RemoveId, Boots
<1>3. PICK b \in BOOLEAN :
        /\ job' = [job EXCEPT ![l][0] = [i EXCEPT !.doing = "work", !.litters = b]]
        /\ \/ b /\ ids' = ids
           \/ b = i.litters /\ ids' = [ids EXCEPT ![place[l]] = None]
  <2>1. i.litters \in BOOLEAN /\ [i EXCEPT !.doing = "work"] = [i EXCEPT !.doing = "work", !.litters = i.litters]
    BY <1>1 DEF Job
  <2>2. CASE ids' = [ids EXCEPT ![place[l]] = None] /\ job' = [job EXCEPT ![l][0].doing = "work"]
    <3>1. job' = [job EXCEPT ![l][0] = [i EXCEPT !.doing = "work"]]
      BY <1>0, <1>1, <2>2 DEF LaunchTypeOK
    <3> QED BY <2>1, <2>2, <3>1
  <2>3. CASE ids' = ids /\ job' = [job EXCEPT ![l][0].doing = "work", ![l][0].litters = TRUE]
    <3>1. job' = [job EXCEPT ![l][0] = [i EXCEPT !.doing = "work", !.litters = TRUE]]
      BY <1>0, <1>1, <2>3 DEF LaunchTypeOK
    <3> WITNESS TRUE \in BOOLEAN
    <3> QED BY <2>3, <3>1
  <2> QED BY <2>2, <2>3 DEF RemoveId
<1> DEFINE j == [i EXCEPT !.doing = "work", !.litters = b]
<1>4. /\ j \in Job /\ j.step = i.step /\ j.doing = "work" /\ j.id = i.id /\ (j.litters <=> b)
      /\ j.said = i.said /\ j.differs = i.differs /\ j.end = i.end
  BY <1>1 DEF Job, Busy
<1>5. job' = [job EXCEPT ![l][0] = j]
  BY <1>3
<1> HIDE DEF j
<1>6. ids' \in [{place[k] : k \in Launches} -> Launches \cup {None}]
      /\ \A f \in DOMAIN ids : /\ ids'[f] \in {ids[f], None} /\ ids[f] \in Launches \cup {None}
                               /\ b \/ f # place[l] \/ ids'[f] = None
  BY <1>1, <1>3
<1>7. Turns(l, 0, j)
  BY <1>0, <1>1, <1>2, <1>4, <1>5, RankTurns
<1>8. /\ \A k \in Launches : Stranded(k) => Stranded(k)'
      /\ \A k \in Launches \ {l} : Bound(k) => Bound(k)'
      /\ b => Bound(l)'
      /\ \A k \in Launches : \A q \in Ranks(k) : job'[k][q].id = job[k][q].id
  <2>1. \A k \in Launches \ {l} : job'[k] = job[k]
    BY <1>7 DEF Turns, Elsewhere
  <2>2. i.litters => b
    BY <1>3
  <2> QED BY <1>1, <1>4, <1>7, <2>1, <2>2 DEF Bound, Stranded, Turns
<1>9. ASSUME NEW f \in DOMAIN ids PROVE Shown(f)'
  <2>1. Shown(f) /\ ids[f] \in Launches \cup {None}
    BY <1>6 DEF LaunchInv
  <2>2. SUFFICES ASSUME ids'[f] # None PROVE Bound(ids[f])' /\ ids'[f] = ids[f] /\ place[ids[f]] = f
    BY <1>2 DEF Shown
  <2>3. ids'[f] = ids[f] /\ Bound(ids[f]) /\ place[ids[f]] = f /\ ids[f] \in Launches
    BY <1>6, <2>1, <2>2 DEF Shown
  <2>4. ids[f] = l => b
    BY <1>6, <2>2, <2>3
  <2> QED BY <1>8, <2>3, <2>4
<1>10. ASSUME NEW k \in Launches, NEW q \in Ranks(k) PROVE Known(k, q)'
  <2>1. Known(k, q) /\ job[k][q].id \in Launches \cup {None}
    BY DEF LaunchInv, LaunchTypeOK, Job
  <2> QED BY <1>8, <2>1 DEF Known
<1>11. Boot(i, j)
  BY <1>1, <1>4 DEF Boot
<1> QED BY <1>0, <1>2, <1>5, <1>6, <1>9, <1>10, <1>11, BootStep

(***************************************************************************)
(* Every step keeps the invariant.                                         *)
(***************************************************************************)
LEMMA CommDiesKeeps ==
  ASSUME LaunchInv, NEW l \in Launches, CommDies(l)
  PROVE  LaunchInv'
<1>1. /\ comm' = [comm EXCEPT ![l] = "dead"] /\ UNCHANGED <<place, ids, job, odd, second, dir>>
      /\ LaunchTypeOK /\ RankInv(l) /\ job[l] \in [Ranks(l) -> Job]
  BY DEF CommDies, LaunchInv, LaunchTypeOK
<1>2. Elsewhere(l) /\ comm'[l] = "dead"
  BY <1>1 DEF Elsewhere, LaunchTypeOK
<1>3. RankInv(l)'
  <2>1. (\A r \in Ranks(l) : Sane(job[l][r]) /\ Speaks(l, r, job[l][r]))'
    BY <1>1 DEF RankInv, Speaks
  <2>2. SameStep(l)' /\ Noticed(l)' /\ Checked(l)'
    BY <1>1 DEF RankInv, SameStep, Noticed, Checked
  <2>3. Together(l)'
    BY <1>2 DEF Together
  <2> QED BY <2>1, <2>2, <2>3 DEF RankInv
<1>4. \A r \in Ranks(l) : job[l][r].step >= job[l][r].step
  BY <1>1 DEF Job
<1>5. WithoutFiles(l)
  BY <1>1, <1>2, <1>4 DEF WithoutFiles, Past, Filed
<1>6. (Bound(l) => Bound(l)') /\ (Stranded(l) => Stranded(l)')
  BY <1>1 DEF Bound, Stranded
<1> QED BY <1>1, <1>3, <1>5, <1>6, JointStep

LEMMA JoinedKeeps ==
  ASSUME LaunchInv, NEW l \in Launches, CommInit(l) \/ Cancelled(l)
  PROVE  LaunchInv'
<1>1. LaunchTypeOK /\ RankInv(l) /\ 0 \in Ranks(l) /\ job[l] \in [Ranks(l) -> Job]
  BY TheRanks DEF LaunchInv, LaunchTypeOK
<1>2. CASE CommInit(l)
  <2>1. /\ Elsewhere(l) /\ second' = second /\ job'[l] \in [Ranks(l) -> Job] /\ RankInv(l)'
        /\ \A r \in Ranks(l) : /\ job[l][r].doing = "init" /\ job'[l][r].id = None
                               /\ job'[l][r].step = 1 /\ job[l][r].step = 1
                               /\ job'[l][r].doing \in {"remove", "work"}
        /\ job'[l][0].doing = "remove"
    BY <1>1, <1>2, CommInitKeeps
  <2>2. UNCHANGED <<ids, dir>>
    BY <1>2 DEF CommInit
  <2>3. WithoutFiles(l)
    BY <2>1, <2>2 DEF WithoutFiles, Past, Filed
  <2>4. (Bound(l) => Bound(l)') /\ (Stranded(l) => Stranded(l)')
    <3>1. job'[l][0].litters = job[l][0].litters
      <4>1. job'[l] = [r \in Ranks(l) |->
              [job[l][r] EXCEPT !.doing = IF r = 0 THEN "remove" ELSE "work", !.id = None]]
        BY <1>1, <1>2 DEF CommInit, LaunchTypeOK
      <4>2. job'[l][0] = [job[l][0] EXCEPT !.doing = "remove", !.id = None] /\ job[l][0] \in Job
        BY <1>1, <4>1
      <4> QED BY <4>2 DEF Job
    <3> QED BY <1>1, <2>1, <3>1 DEF Bound, Stranded
  <2> QED BY <2>1, <2>2, <2>3, <2>4, JointStep
<1>3. CASE Cancelled(l)
  <2>1. /\ Elsewhere(l) /\ second' = second /\ job'[l] \in [Ranks(l) -> Job] /\ RankInv(l)'
        /\ \A r \in Ranks(l) : \/ job'[l][r] = job[l][r]
                               \/ /\ job[l][r].doing = "init" /\ job[l][r].step = 1
                                  /\ job'[l][r].doing = "end" /\ job'[l][r].step = 1
                                  /\ job'[l][r].id = None
    BY <1>1, <1>3, CancelledKeeps
  <2>2. UNCHANGED <<ids, dir>>
    BY <1>3 DEF Cancelled
  <2>3. \A r \in Ranks(l) :
       /\ job'[l][r].doing = "record" => job[l][r].doing = "record"
       /\ job'[l][r].step = job[l][r].step /\ job[l][r].step \in 1 .. 24
       /\ job'[l][r].id \in {job[l][r].id, None}
       /\ \A i \in {17, 18, 23} : Past(job[l][r], i)' => Past(job[l][r], i)
    <3> SUFFICES ASSUME NEW r \in Ranks(l)
                 PROVE  /\ job'[l][r].doing = "record" => job[l][r].doing = "record"
                        /\ job'[l][r].step = job[l][r].step /\ job[l][r].step \in 1 .. 24
                        /\ job'[l][r].id \in {job[l][r].id, None}
                        /\ \A i \in {17, 18, 23} : Past(job[l][r], i)' => Past(job[l][r], i)
      OBVIOUS
    <3>1. job[l][r] \in Job
      BY <1>1
    <3>2. CASE job'[l][r] = job[l][r]
      BY <3>1, <3>2 DEF Past, Job
    <3>3. CASE job'[l][r] # job[l][r]
      BY <2>1, <3>1, <3>3 DEF Past, Job
    <3> QED BY <3>2, <3>3
  <2>4. WithoutFiles(l)
    BY <2>1, <2>2, <2>3, FiledFacts DEF WithoutFiles
  <2>5. (Bound(l) => Bound(l)') /\ (Stranded(l) => Stranded(l)')
    BY <1>1, <2>1 DEF Bound, Stranded
  <2> QED BY <2>1, <2>2, <2>3, <2>4, <2>5, JointStep
<1> QED BY <1>2, <1>3

LEMMA ReducedKeeps ==
  ASSUME LaunchInv, NEW l \in Launches, Reduce(l)
  PROVE  LaunchInv'
<1>1. LaunchTypeOK /\ RankInv(l) /\ 0 \in Ranks(l) /\ job[l] \in [Ranks(l) -> Job]
  BY TheRanks DEF LaunchInv, LaunchTypeOK
<1>2. /\ Elsewhere(l) /\ job'[l] \in [Ranks(l) -> Job] /\ RankInv(l)'
      /\ \A r \in Ranks(l) :
           /\ job[l][r].doing = "call" /\ job'[l][r].doing \in {"work", "end"}
           /\ job'[l][r].litters = job[l][r].litters /\ job'[l][r].id \in {job[l][r].id, None}
           /\ job'[l][r].step >= job[l][r].step
           /\ \A i \in Filed(l) : Past(job[l][r], i)' => Past(job[l][r], i)
      /\ \/ second'[l] = second[l] /\ \A r \in Ranks(l) : job'[l][r].step > 7 => job[l][r].step > 7
         \/ second'[l] \in Seconds /\ \A r \in Ranks(l) : job'[l][r].step = 8
  BY <1>1, ReduceKeeps
<1>3. UNCHANGED <<ids, dir>>
  BY DEF Reduce
<1>5. WithoutFiles(l)
  BY <1>2, <1>3 DEF WithoutFiles
<1>6. (Bound(l) => Bound(l)') /\ (Stranded(l) => Stranded(l)')
  BY <1>1, <1>2 DEF Bound, Stranded
<1> QED BY <1>2, <1>3, <1>5, <1>6, JointStep

LEMMA PreemptedKeeps ==
  ASSUME LaunchInv, NEW l \in Launches, Preempted(l)
  PROVE  LaunchInv'
<1> DEFINE f == [r \in Ranks(l) |-> [job[l][r] EXCEPT !.doing = "end", !.end = "preempted"]]
<1>1. LaunchTypeOK /\ RankInv(l) /\ 0 \in Ranks(l) /\ job[l] \in [Ranks(l) -> Job]
  BY TheRanks DEF LaunchInv, LaunchTypeOK
<1>2. ASSUME NEW r \in Ranks(l)
      PROVE  /\ job[l][r].doing = "call" /\ job[l][r].step = 18 /\ job[l][r].end = None
             /\ job[l][r].said \in Nat
             /\ f[r] \in Job /\ f[r].step = 18 /\ f[r].doing = "end" /\ f[r].end = "preempted"
             /\ f[r].said = job[l][r].said /\ f[r].id = job[l][r].id
             /\ f[r].litters = job[l][r].litters
  <2>1. job[l][r] \in Job /\ job[l][r].doing = "call" /\ Sane(job[l][r])
    BY <1>1 DEF Preempted, RankInv
  <2>2. job[l][r].step = 18
    <3>1. Program[job[l][r].step] = Try("train") /\ job[l][r].step \in 1 .. 24
      BY <2>1 DEF Preempted, Job
    <3> QED BY <3>1, ProgramFacts
  <2> QED BY <2>1, <2>2 DEF Job, Sane
<1>3. \A r \in Ranks(l) : job[l][r].said = 0
  <2>1. Sum(l) = 0
    BY DEF Preempted
  <2> QED BY <1>2, <2>1, SumOfAll
<1>4. f \in [Ranks(l) -> Job] /\ job' = [job EXCEPT ![l] = f]
  BY <1>2 DEF Preempted
<1> HIDE DEF f
<1>5. Elsewhere(l) /\ job'[l] = f /\ second' = second /\ UNCHANGED <<ids, dir>>
  <2>1. UNCHANGED <<place, comm, odd, ids, dir, second>> /\ second[l] \in Nat
        /\ second' = [second EXCEPT ![l] = second[l]]
    BY <1>1 DEF Preempted, LaunchTypeOK
  <2> QED BY <1>1, <1>4, <2>1, AllTurn
<1>6. \A r \in Ranks(l) : Sane(job[l][r])' /\ Speaks(l, r, job[l][r])'
  BY <1>2, <1>3, <1>5, LaunchAssumption DEF Sane, Speaks, Early
<1>7. SameStep(l)' /\ Together(l)' /\ Noticed(l)' /\ Checked(l)'
  <2>1. odd'[l] = odd[l]
    BY <1>5 DEF Elsewhere
  <2> QED BY <1>1, <1>2, <1>5, <2>1 DEF RankInv, SameStep, Together, Over, Noticed, Checked
<1>8. WithoutFiles(l)
  <2>1. \A r \in Ranks(l) : \A i \in {17, 18, 23} : Past(job[l][r], i)' => Past(job[l][r], i)
    BY <1>2, <1>3, <1>5 DEF Past
  <2> QED BY <1>2, <1>4, <1>5, <2>1, FiledFacts DEF WithoutFiles
<1>9. (Bound(l) => Bound(l)') /\ (Stranded(l) => Stranded(l)')
  BY <1>1, <1>2, <1>5 DEF Bound, Stranded
<1> QED BY <1>2, <1>4, <1>5, <1>6, <1>7, <1>8, <1>9, JointStep DEF RankInv

LEMMA RankStepKeeps ==
  ASSUME LaunchInv, NEW l \in Launches, NEW r \in Ranks(l), RankStep(l, r)
  PROVE  LaunchInv'
<1>1. CASE InitFails(l, r)
  BY <1>1, EarlyFailKeeps DEF InitFails, Boots, Early
<1> QED BY <1>1, ReadIdKeeps, ContributeKeeps, CompareKeeps, WorkKeeps, LookAtDirKeeps,
           WritePromptKeeps, WriteLaunchKeeps, TrainKeeps, WriteReportKeeps, LoadCandidatesKeeps,
           CommErrorKeeps, RankDiesKeeps DEF RankStep

LEMMA LaunchNextKeeps == LaunchInv /\ LaunchNext => LaunchInv'
BY ClearPlaceKeeps, PublishIdKeeps, JoinedKeeps, RemoveIdKeeps, ReducedKeeps,
   PreemptedKeeps, CommDiesKeeps, RankStepKeeps DEF LaunchNext

LEMMA LaunchStands == LaunchInv /\ UNCHANGED launchVars => LaunchInv'
<1> SUFFICES ASSUME LaunchInv, UNCHANGED launchVars PROVE LaunchInv'
  OBVIOUS
<1>1. UNCHANGED <<place, ids, job, comm, odd, second, dir>>
  BY DEF launchVars
<1>2. LaunchTypeOK'
  BY <1>1 DEF LaunchInv, LaunchTypeOK
<1>3. \A l \in Launches : RankInv(l)'
  <2>1. \A l \in Launches : RankInv(l)
    BY DEF LaunchInv
  <2> QED BY <1>1, <2>1 DEF RankInv, Speaks, SameStep, Together, Formed, Forming, Over, Noticed, Checked
<1>4. \A l \in Launches : \A r \in Ranks(l) : Papers(l, r)' /\ Known(l, r)'
  BY <1>1 DEF LaunchInv, Papers, RunDir, Known, Stranded
<1>5. (\A d \in DOMAIN dir : Record(d))' /\ (\A f \in DOMAIN ids : Shown(f))'
  BY <1>1 DEF LaunchInv, Record, RunDir, Shown, Bound, Stranded
<1> QED BY <1>2, <1>3, <1>4, <1>5 DEF LaunchInv

LEMMA LaunchBegins == LaunchInit => LaunchInv
<1> SUFFICES ASSUME LaunchInit PROVE LaunchInv
  OBVIOUS
<1>1. Start \in Job /\ Sane(Start) /\ Start.step = 1 /\ Start.doing = "boot" /\ Start.end = None
      /\ Start.id = None /\ \A i \in {17, 18, 23} : ~Past(Start, i)
  BY LaunchAssumption DEF Start, Job, Sane, Early, Past
<1>2. Empty \in Dir /\ Empty.rows = {} /\ Empty.launch = None /\ Empty.report = None
  BY DEF Empty, Dir
<1>3. \A l \in Launches : \A r \in Ranks(l) : job[l][r] = Start
  BY DEF LaunchInit
<1>4. LaunchTypeOK
  <2>1. odd \in Oddities
    BY DEF LaunchInit
  <2>2. odd \in [Launches -> Items \cup {None}] /\ \A l \in Launches \ HeldOut : odd[l] # "report"
    BY <2>1, LaunchAssumption
  <2>3. DOMAIN job = Launches /\ \A l \in Launches : job[l] \in [Ranks(l) -> Job]
    BY <1>1 DEF LaunchInit
  <2>4. second \in [Launches -> Nat] /\ comm \in [Launches -> {"live", "dead"}]
    BY DEF LaunchInit
  <2>6. ids \in [{place[l] : l \in Launches} -> Launches \cup {None}]
    BY DEF LaunchInit
  <2>7. dir \in [Seconds \X AllRanks -> Dir]
    BY <1>2 DEF LaunchInit
  <2> QED BY <2>2, <2>3, <2>4, <2>6, <2>7 DEF LaunchTypeOK
<1>5. ASSUME NEW l \in Launches PROVE RankInv(l)
  <2>1. 0 \in Ranks(l) /\ 1 \in Ranks(l)
    BY TheRanks
  <2>2. \A r \in Ranks(l) : Sane(job[l][r]) /\ Speaks(l, r, job[l][r])
    BY <1>1, <1>3 DEF Speaks
  <2>3. SameStep(l) /\ Together(l)
    BY <1>1, <1>3 DEF SameStep, Together, Forming, Early
  <2>4. Noticed(l) /\ Checked(l)
    BY <1>1, <1>3, <2>1 DEF Noticed, Checked
  <2> QED BY <2>2, <2>3, <2>4 DEF RankInv
<1>6. \A l \in Launches : \A r \in Ranks(l) : Papers(l, r) /\ Known(l, r)
  BY <1>1, <1>3 DEF Papers, Known
<1>7. \A d \in DOMAIN dir : Record(d)
  BY <1>2 DEF LaunchInit, Record
<1>8. \A f \in DOMAIN ids : Shown(f)
  BY DEF LaunchInit, Shown
<1> QED BY <1>4, <1>5, <1>6, <1>7, <1>8 DEF LaunchInv

(***************************************************************************)
(* What the invariant means.                                               *)
(***************************************************************************)
LEMMA PassedMeansCommon ==
  ASSUME LaunchInv, NEW l \in Launches, job[l][0].step >= 23
  PROVE  odd[l] = None
<1>1. odd[l] \in Items \cup {None} /\ Checked(l)
  BY DEF LaunchInv, LaunchTypeOK, RankInv
<1>2. ASSUME odd[l] \in Items PROVE FALSE
  <2>1. PICK i \in 1 .. 24 : i < 23 /\ Program[i] = Agree(odd[l])
    BY <1>2, ItemsAreAgreed
  <2>2. job[l][0].step \in 1 .. 24
    BY RankFacts, TheRanks
  <2> QED BY <1>1, <2>1, <2>2 DEF Checked
<1> QED BY <1>1, <1>2

LEMMA InvMeansLockstep == LaunchInv => Lockstep
<1> SUFFICES ASSUME LaunchInv, NEW l \in Launches, comm[l] = "live",
                    \A r \in Ranks(l) : job[l][r].end # "dead", NEW q \in Ranks(l), NEW r \in Ranks(l)
             PROVE  /\ job[l][q].doing = "call" /\ job[l][r].doing = "call" => job[l][q].step = job[l][r].step
                    /\ job[l][q].doing = "call" => job[l][r].doing # "end"
                    /\ job[l][q].end \in {"completed", "preempted"} => job[l][r].end = job[l][q].end
                    /\ job[l][q].end = "completed" => odd[l] = None
  BY DEF Lockstep
<1>1. Sane(job[l][q]) /\ Sane(job[l][r]) /\ RankInv(l) /\ 0 \in Ranks(l)
  BY RankFacts, TheRanks
<1>2. job[l][q].step = job[l][r].step /\ job[l][q].step = job[l][0].step
  BY <1>1 DEF RankInv, SameStep
<1>3. Formed(l) \/ Forming(l) \/ Over(l)
  BY <1>1 DEF RankInv, Together
<1>4. job[l][q].doing = "call" => job[l][r].doing # "end"
  BY <1>1, <1>3, LaunchAssumption DEF Formed, Forming, Over, Sane, Early, Busy
<1>6. ASSUME job[l][q].end = "preempted" PROVE job[l][r].end = "preempted"
  <2>1. job[l][q].doing = "end" /\ job[l][q].step = 18
    BY <1>1, <1>6, LaunchAssumption DEF Sane
  <2> QED BY <1>3, <1>6, <2>1, LaunchAssumption DEF Formed, Forming, Over, Busy
<1>5. ASSUME job[l][q].end = "completed" PROVE job[l][r].end = "completed" /\ odd[l] = None
  <2>1. job[l][q].doing = "end" /\ job[l][q].step = 24
    BY <1>1, <1>5, LaunchAssumption DEF Sane
  <2>2. job[l][r].end = "completed"
    BY <1>3, <1>5, <2>1, LaunchAssumption DEF Formed, Forming, Over, Busy
  <2>3. job[l][0].step >= 23
    BY <1>2, <2>1
  <2>4. odd[l] = None
    BY <2>3, PassedMeansCommon
  <2> QED BY <2>2, <2>4
<1> QED BY <1>2, <1>4, <1>5, <1>6

LEMMA InvMeansStranded == LaunchInv => StaleIdsAreStranded
BY DEF LaunchInv, StaleIdsAreStranded, Known, Stranded

LEMMA InvMeansEvidence == LaunchInv => EvidenceIsBound
<1> SUFFICES ASSUME LaunchInv PROVE EvidenceIsBound
  OBVIOUS
<1>1. \A d \in DOMAIN dir : Record(d)
  BY DEF LaunchInv
<1>2. ASSUME NEW l \in Launches, NEW d \in DOMAIN dir, dir[d].report = l
      PROVE  /\ d = RunDir(l, 0) /\ odd[l] = None
             /\ \A r \in Ranks(l) : dir[RunDir(l, r)].launch = l /\ dir[RunDir(l, r)].rows = {l}
  <2>1. l # None /\ 0 \in Ranks(l)
    BY LaunchAssumption, TheRanks
  <2>2. job[l][0].step >= 23 /\ d = RunDir(l, 0)
    BY <1>1, <1>2, <2>1 DEF Record
  <2>3. ASSUME NEW r \in Ranks(l)
        PROVE  dir[RunDir(l, r)].launch = l /\ dir[RunDir(l, r)].rows = {l}
    <3>1. job[l][r].step = job[l][0].step /\ job[l][r].step \in 17 .. 24
      BY <2>1, <2>2, RankFacts DEF RankInv, SameStep
    <3>2. dir[RunDir(l, r)].launch = l /\ l \in dir[RunDir(l, r)].rows
      BY <2>2, <3>1, RankFacts DEF Papers, Past
    <3> QED BY <3>1, <3>2, DirFacts
  <2> QED BY <2>2, <2>3, PassedMeansCommon
<1>3. ASSUME NEW l \in Launches, NEW r \in Ranks(l), job[l][r].end = "completed", l \in HeldOut
      PROVE  dir[RunDir(l, 0)].report = l
  <2>1. job[l][r].step = 24 /\ 0 \in Ranks(l)
    BY <1>3, RankFacts, TheRanks DEF Sane
  <2>2. job[l][0].step = 24
    BY <2>1, RankFacts DEF RankInv, SameStep
  <2> QED BY <1>3, <2>1, <2>2, RankFacts, FiledFacts DEF Papers, Past
<1> QED BY <1>1, <1>2, <1>3 DEF EvidenceIsBound, Record

\* The inductive invariant of the launches holds beside everything else, as only the
\* launches' own steps change their variables.
THEOREM LaunchInvariance == AuditedSpec => []LaunchInv
<1>1. AuditedInit => LaunchInv
  BY LaunchBegins DEF AuditedInit
<1>2. LaunchInv /\ [AuditedNext]_auditedVars => LaunchInv'
  BY LaunchNextKeeps, LaunchStands DEF AuditedNext, Finished, auditedVars
<1>3. QED
  BY <1>1, <1>2, PTL DEF AuditedSpec

\* The ranks of a launch come to one verdict, whatever each of them meets by itself: the
\* reductions of coordinate_engine_result and validate_engine_value_consensus in
\* orchestration.rs, for worlds of any size.
THEOREM RanksComeToOneVerdict == AuditedSpec => []Lockstep
BY LaunchInvariance, InvMeansLockstep, PTL

\* A report stands for a launch that has its record and its rows in the directories of all
\* ranks, however many launches were started in its second: RunDir::create and the files
\* that are only written where there is none, in telemetry.rs and orchestration.rs.
THEOREM ReportsAreBound == AuditedSpec => []EvidenceIsBound
BY LaunchInvariance, InvMeansEvidence, PTL

\* The id of a launch that formed its communicator is read by no other launch, unless the
\* file could not be removed: write_id_file and its removal in comm/nccl/real.rs.
THEOREM FormedLaunchesLeaveNoId == AuditedSpec => []StaleIdsAreStranded
BY LaunchInvariance, InvMeansStranded, PTL
===================================================================================
