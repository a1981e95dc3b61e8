------------------------------ MODULE LoadPlan ------------------------------
(***************************************************************************)
(* The load plan of packages/sdk/src/plan.ts: what each group needs, the   *)
(* flat download order, and after which group a chunk may be dropped.      *)
(*                                                                         *)
(* A group of a manifest is its own chunk list and the chunks its entries  *)
(* point into; a tied group (lm_head on embed's matrix) owns no chunk and  *)
(* points into another group's. A plan is the sequence of the groups'      *)
(* `needs`. The code walks the groups once, with a `seen` set; the folds   *)
(* below are that walk, and the properties say what it must come to.       *)
(***************************************************************************)
EXTENDS Naturals, Sequences, SequencesExt

\* Seeded fault: a chunk that was seen before is listed again.
AddAgain(out, sha) == Append(out, sha)

\* `add`: append unless seen.
Add(out, sha) == IF Contains(out, sha) THEN out ELSE Append(out, sha)

\* needsOf: the group's own chunks, then the ones its segments point into.
NeedsOf(ownChunks, segmentChunks) ==
  FoldLeft(LAMBDA out, sha : Add(out, sha), <<>>, ownChunks \o segmentChunks)

\* The download order of `finish`: group by group, each chunk once.
OrderOf(needs) ==
  FoldLeft(LAMBDA out, sha : Add(out, sha), <<>>, FlattenSeq(needs))

\* Seeded fault: the first use is kept instead of the last.
LastUseKeepsFirst(needs) ==
  LET Step(last, g) ==
        [sha \in DOMAIN last \cup ToSet(needs[g]) |->
           IF sha \in DOMAIN last THEN last[sha] ELSE g]
  IN  FoldLeft(Step, <<>>, [g \in DOMAIN needs |-> g])

\* The `lastUse` map of `finish`: written again by every group that needs the
\* chunk, so the last one stands.
LastUseOf(needs) ==
  LET Step(last, g) ==
        [sha \in DOMAIN last \cup ToSet(needs[g]) |->
           IF sha \in ToSet(needs[g]) THEN g ELSE last[sha]]
  IN  FoldLeft(Step, <<>>, [g \in DOMAIN needs |-> g])

\* planVariant / planFiles, over the groups' chunk names.
LoadPlanOf(groups) ==
  LET needs == [g \in DOMAIN groups |-> NeedsOf(groups[g].own, groups[g].segments)]
  IN  [needs |-> needs, order |-> OrderOf(needs), lastUse |-> LastUseOf(needs)]

-----------------------------------------------------------------------------
\* The last group that needs the chunk, said without the walk.
LastNeeding(needs, sha) ==
  CHOOSE g \in DOMAIN needs :
    /\ sha \in ToSet(needs[g])
    /\ \A h \in DOMAIN needs : sha \in ToSet(needs[h]) => h <= g

\* A group needs what it owns and what its entries point into, each chunk once.
NeedsAreTheGroups(groups, plan) ==
  \A g \in DOMAIN groups :
    /\ IsInjective(plan.needs[g])
    /\ ToSet(plan.needs[g]) = ToSet(groups[g].own) \cup ToSet(groups[g].segments)

\* The order lists every chunk some entry points into or some group owns,
\* exactly once, and never before a chunk that only earlier groups need: the
\* stream can complete groups from the front ("Flat download order", plan.ts).
OrderCoversPlan(groups, plan) ==
  /\ IsInjective(plan.order)
  /\ ToSet(plan.order) =
       UNION {ToSet(groups[g].own) \cup ToSet(groups[g].segments) : g \in DOMAIN groups}
  /\ \A i, j \in DOMAIN plan.order : i < j =>
       \A h \in DOMAIN groups : plan.order[j] \in ToSet(plan.needs[h]) =>
         \E g \in 1..h : plan.order[i] \in ToSet(plan.needs[g])

\* lastUse names the last group that needs the chunk: dropping the loader's
\* reference after it can neither break a later group nor keep a buffer for
\* nothing.
MarksLastUse(plan) ==
  /\ DOMAIN plan.lastUse = ToSet(plan.order)
  /\ \A sha \in DOMAIN plan.lastUse : plan.lastUse[sha] = LastNeeding(plan.needs, sha)

\* The plan a stream works from: all of it.
PlanIsExact(groups, plan) ==
  /\ NeedsAreTheGroups(groups, plan)
  /\ OrderCoversPlan(groups, plan)
  /\ MarksLastUse(plan)
=============================================================================
