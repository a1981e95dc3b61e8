---------------------------- MODULE MCAlgorithms ----------------------------
(***************************************************************************)
(* The pure algorithms on every small input: the load plan of LoadPlan, the*)
(* split choice of Planner, and a model packed, published and assembled    *)
(* again by ChunkLayout.                                                   *)
(***************************************************************************)
EXTENDS Bench, LoadPlan, Summarize, ChunkLayout

CONSTANTS
  Shas,              \* chunk names of the hand-made load plans
  MaxGroups,         \* groups of such a plan
  MaxOwn, MaxSegs,   \* length of a group's chunk list, and of its segment list
  Budgets,           \* GPU budgets given to the planner
  MaxFile            \* length of a packed file

vars == <<task, result>>

-----------------------------------------------------------------------------
(* Load plans: both lists may name a chunk twice (equal contents have equal*)
(* names).                                                                 *)

GroupLists == [own : BoundedSeq(Shas, MaxOwn), segments : BoundedSeq(Shas, MaxSegs)]

LoadTasks == [kind : {"load"}, groups : BoundedSeq(GroupLists, MaxGroups)]

PlanLoad == Run("load", LoadPlanOf(task.groups))

-----------------------------------------------------------------------------
(* Split choices: two blocks, of unequal size. The first family varies the *)
(* device, the second the network, the server and the policy.              *)

Blank ==
  [kind |-> "split", L |-> 2, blockBytes |-> <<2, 3>>, embedBytes |-> 3,
   headGpuBytes |-> 4, headDownloadBytes |-> 1, kvBytes |-> 1, workspaceBytes |-> 1,
   maxEntry |-> 4, floor |-> [p |-> 1, q |-> 4], webgpu |-> TRUE, maxBuffer |-> Unknown,
   gpuBudget |-> 12, msT1 |-> 2, headMs |-> 2, exportMs |-> 1, cachedBlocks |-> 0,
   embedCached |-> FALSE, bandwidth |-> 1, rtt |-> 2, reachable |-> TRUE, serverL |-> 2,
   serverMs |-> 2, serverHeadMs |-> 1, prefer |-> "cost", maxLoad |-> Unknown,
   maxShare |-> Unknown, requireLocal |-> FALSE, samplingMs |-> 1]

Preferences == {"cost", "latency", "local", "server"}

DeviceTasks ==
  {[Blank EXCEPT !.gpuBudget = budget, !.maxBuffer = buffer, !.msT1 = ms, !.headMs = head,
                 !.webgpu = gpu, !.prefer = prefer, !.maxShare = share, !.serverMs = serverMs] :
     budget \in Budgets, buffer \in {3, 4}, ms \in {Unknown, 1, 3}, head \in {Unknown, 2},
     gpu \in BOOLEAN, prefer \in Preferences, share \in {Unknown, 25, 62},
     serverMs \in {1, 2}}

NetworkTasks ==
  {[Blank EXCEPT !.gpuBudget = budget, !.cachedBlocks = cached, !.embedCached = embed,
                 !.bandwidth = rate, !.maxLoad = load, !.rtt = link.rtt,
                 !.reachable = link.up, !.serverL = serverL, !.serverMs = serverMs,
                 !.prefer = prefer, !.requireLocal = must] :
     budget \in {6, 12}, cached \in 0..2, embed \in BOOLEAN, rate \in {Unknown, 0, 1},
     load \in {Unknown, 0, 3, 6}, link \in {[rtt |-> 2, up |-> TRUE], [rtt |-> Unknown, up |-> FALSE]},
     serverL \in {Unknown, 2, 3}, serverMs \in {Unknown, 2},
     prefer \in Preferences, must \in BOOLEAN}

ChooseSplit == Run("split", [pick |-> Pick(task)])

-----------------------------------------------------------------------------
(* Packed models: an embedding, a bias and one linear layer, a norm, and a *)
(* head that is missing, a stray beside a tied one, or the model's own.    *)

Groups == <<"embed", "layer.0", "final_norm", "lm_head">>
Variants == <<"fp16", "q8", "q4">>

Tensor(group, rank, linear, rows, cols, fill) ==
  [group |-> group, rank |-> rank, linear |-> linear, rows |-> rows, cols |-> cols,
   fill |-> fill]

PackTasks ==
  {[kind |-> "pack", tied |-> head # 2,
    tensors |-> {Tensor("embed", 1, TRUE, embedRows, 2, embedFill),
                 Tensor("layer.0", 2, FALSE, 1, biasCols, biasFill),
                 Tensor("layer.0", 1, TRUE, rows, cols, fill),
                 Tensor("final_norm", 1, FALSE, 1, 1, 4)}
                \cup (IF head = 0 THEN {}
                      ELSE {Tensor("lm_head", 1, TRUE, embedRows, 2, embedFill)})] :
     head \in 0..2, embedRows \in 1..3, embedFill \in {0, 1}, biasCols \in 1..3,
     biasFill \in {0, 2}, rows \in 1..2, cols \in {2, 4}, fill \in {0, 3}}

\* pack_model, one group after the other; then the manifests are built.
StartPacking == Run("pack", [at |-> 1, pack |-> PackStart(Variants)])

PackOneGroup ==
  /\ task.kind = "pack" /\ result # <<>>
  /\ "at" \in DOMAIN result /\ result.at <= Len(Groups)
  /\ result' = [at |-> result.at + 1,
                pack |-> PackNext(result.pack, Groups[result.at], task.tensors,
                                  task.tied, Variants)]
  /\ UNCHANGED task

Publish ==
  /\ task.kind = "pack" /\ result # <<>>
  /\ "at" \in DOMAIN result /\ result.at > Len(Groups)
  /\ result' = [sunk      |-> result.pack.sunk,
                published |-> [v \in ToSet(Variants) |->
                                 ToManifest(result.pack.packed[v])]]
  /\ UNCHANGED task

\* Files: any length up to MaxFile, of two byte values.
FileTasks == [kind : {"file"}, bytes : BoundedSeq({0, 1}, MaxFile)]

PublishFile == Run("file", PackFile(task.bytes))

-----------------------------------------------------------------------------
Init ==
  /\ \/ task \in LoadTasks
     \/ task \in PackTasks
     \/ task \in FileTasks
     \/ task \in DeviceTasks
     \/ task \in NetworkTasks
  /\ result = <<>>

Next ==
  \/ PlanLoad \/ ChooseSplit
  \/ StartPacking \/ PackOneGroup \/ Publish
  \/ PublishFile

Spec == Init /\ [][Next]_vars

Published == Ran("pack") /\ "published" \in DOMAIN result

-----------------------------------------------------------------------------
(* Load plans (plan.ts).                                                   *)

\* For every small manifest, what PlanIsExact says.
LoadPlanIsExact == Ran("load") => PlanIsExact(task.groups, result)

-----------------------------------------------------------------------------
(* Split choices (planner.ts).                                             *)

\* c is strictly what the policy asks for, rather than d: the server for
\* "server", a whole local model for "local", a smaller server share for
\* "cost", less time per token for "latency". Where the first wish cannot be
\* had, every policy falls back to the least that the server must do.
Rather(in, c, d) ==
  CASE in.prefer = "server" ->
         \/ c.mode = "server" /\ d.mode # "server"
         \/ /\ "server" \notin {c.mode, d.mode}
            /\ ServerShare(in, c) < ServerShare(in, d)
    [] in.prefer = "latency" ->
         \/ Known(MsPerToken(in, c)) /\ ~Known(MsPerToken(in, d))
         \/ /\ Known(MsPerToken(in, c)) /\ Known(MsPerToken(in, d))
            /\ MsPerToken(in, c) < MsPerToken(in, d)
         \/ /\ ~Known(MsPerToken(in, c)) /\ ~Known(MsPerToken(in, d))
            /\ ServerShare(in, c) < ServerShare(in, d)
    [] OTHER -> ServerShare(in, c) < ServerShare(in, d)

\* What plan() answers is the best of the candidates the device, the server and
\* the policy allow, and it answers one whenever there is one ("policies: cost
\* -> max feasible N (local if feasible); latency -> argmin", planner.test.ts).
PickIsBest ==
  Ran("split") =>
    LET allowed == {c \in Candidates(task.L) : Feasible(task, c)}
    IN  /\ result.pick \subseteq allowed
        /\ Cardinality(result.pick) = (IF allowed = {} THEN 0 ELSE 1)
        /\ \A c \in result.pick, d \in allowed : ~Rather(task, d, c)

\* Room never hurts: a larger GPU budget, a longer load allowance, one more
\* block in the cache or a cached embedding never makes plan() prefer
\* something the policy likes less, and never leaves it without an answer.
RoomNeverHurts ==
  Ran("split") =>
    \A more \in {[task EXCEPT !.gpuBudget = @ + 1],
                 [task EXCEPT !.maxLoad = IF Known(@) THEN @ + 1 ELSE @],
                 [task EXCEPT !.cachedBlocks = Min({@ + 1, task.L})],
                 [task EXCEPT !.embedCached = TRUE]} :
      \A c \in result.pick :
        /\ Pick(more) # {}
        /\ \A d \in Pick(more) : ~Rather(task, c, d)

\* When the floor is the head's share of the server's own time, cost(L) / cost(0)
\* ("the Phase 4 measured floor", planner.ts), a candidate's cost, its share of
\* the cost of N = 0, is what the server is busy for by the other formula, the
\* one for a token's time; and a local run costs nothing.
CostIsServerTime ==
  Ran("split") /\ task.serverL = task.L /\ Known(Cost0(task)) =>
    LET true == [task EXCEPT !.floor = [p |-> task.serverHeadMs, q |-> Cost0(task)]]
    IN  \A c \in Candidates(task.L) :
          Cost0(true) * ServerShare(true, c) =
            WholeShare(true) * (IF c.mode = "local" THEN 0
                                ELSE true.serverMs * (true.L - c.N) + true.serverHeadMs)

\* Beside the first run, which took the cheapest plan, the page shows each mode
\* once: exactly one card is the run above, the others are runs that are
\* feasible or a mode of which nothing is ("The other two modes, when the
\* plan's candidates say they are feasible", summarize.ts).
ComparisonIsTheRun ==
  Ran("split") /\ task.prefer = "cost" =>
    \A ran \in result.pick :
      LET cards == Cards(task, ran)
      IN  /\ Cardinality({i \in DOMAIN cards : cards[i].shows = "above"}) = 1
          /\ \A i \in DOMAIN cards :
               /\ cards[i].shows = "above" => cards[i].cand = ran
               /\ cards[i].shows = "run" => Feasible(task, cards[i].cand)
               /\ cards[i].shows = "not feasible" =>
                    \A c \in Candidates(task.L) :
                      c.mode = cards[i].cand.mode => ~Feasible(task, c)

\* The choice is the best one, stays so when there is more room, is priced by
\* the time it takes, and is shown beside what it was chosen from.
PlannerIsSound ==
  PickIsBest /\ RoomNeverHurts /\ CostIsServerTime /\ ComparisonIsTheRun

-----------------------------------------------------------------------------
(* Packed models and files.                                                *)

\* What the SDK's load plan holds of a variant when it assembles group g: the
\* chunks of the groups so far that no finished group was the last to need.
HeldFor(m, g) ==
  LET segmentChunks(group) ==
        FlattenSeq([e \in DOMAIN group.entries |->
          [i \in DOMAIN group.entries[e].segments |->
             group.entries[e].segments[i].chunk]])
      loaded == LoadPlanOf([h \in DOMAIN m.groups |->
                  [own |-> m.groups[h].chunks, segments |-> segmentChunks(m.groups[h])]])
  IN  {sha \in UNION {ToSet(loaded.needs[h]) : h \in 1..g} : loaded.lastUse[sha] >= g}

\* Every entry of every variant comes back from the chunks its group's turn in
\* the load finds in memory: each part holds exactly the bytes the encoder
\* wrote, the view handed to the GPU is aligned (assemble.ts, "the view's
\* byteOffset is 256-aligned too"), and no tensor is lost or doubled. A file of
\* at least one byte comes back whole; one of no bytes is published without
\* segments, which assembleBytes refuses.
PackedComesBack ==
  /\ Published =>
       \A v \in ToSet(Variants) :
         LET m == result.published[v]
         IN  /\ FlattenSeq([g \in DOMAIN m.groups |->
                  [e \in DOMAIN m.groups[g].entries |-> m.groups[g].entries[e].tensor]])
                = FlattenSeq([g \in DOMAIN Groups |->
                    IF Groups[g] = "lm_head" /\ task.tied
                    THEN GroupTensors(task.tensors, "embed", task.tied)
                    ELSE GroupTensors(task.tensors, Groups[g], task.tied)])
             /\ \A g \in DOMAIN m.groups : \A e \in ToSet(m.groups[g].entries) :
                  LET back == AssembleEntry(e, HeldFor(m, g))
                  IN  /\ back.ok
                      /\ back.viewAt % Align = 0
                      /\ \A p \in DOMAIN e.parts :
                           back.parts[p] = PartBytes(e.kind, e.tensor, p)
  /\ Ran("file") /\ task.bytes # <<>> =>
       LET back == AssembleBytes(result.segments, ToSet(result.chunks))
       IN  back.ok /\ back.bytes = task.bytes

\* What the packer publishes is what both validators take: the SDK's, and the
\* ingest's own verify as long as no stream holds the same chunk twice (with
\* a repeated chunk, verify looks for an entry at the chunk's first place).
PublishedIsAccepted ==
  /\ Published =>
       \A v \in ToSet(Variants) :
         LET m == result.published[v]
         IN  /\ ValidateModel(m)
             /\ (\A group \in ToSet(m.groups) : IsInjective(group.chunks))
                  => VerifyVariant(m, Groups, task.tied, v)
  /\ Ran("file") => ValidateFile(result)

\* Every chunk some variant lists is stored, once, whatever streams and
\* variants share it ("called once per distinct chunk", chunker.py); and the
\* two quantized variants share the whole embedding (chunker.py, "the q8 embed
\* group in the q8 and q4 variants").
EachChunkStoredOnce ==
  Published =>
    /\ IsInjective(result.sunk)
    /\ ToSet(result.sunk) = UNION {result.published[v].table : v \in ToSet(Variants)}
    /\ result.published["q8"].groups[1] = result.published["q4"].groups[1]

\* What a packing leaves in the store is whole, valid and shared.
PackingIsSound == PackedComesBack /\ PublishedIsAccepted /\ EachChunkStoredOnce

\* From a model's files to the plan a stream works from, and back to its bytes.
LoadsAreExact == LoadPlanIsExact /\ PackingIsSound
=============================================================================
