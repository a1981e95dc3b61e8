----------------------------- MODULE RunInputs ------------------------------
(***************************************************************************)
(* What run() (packages/sdk/src/run.ts) tells the planner: sizes from the  *)
(* manifest, what the cache already holds, and the download bandwidth.     *)
(* Beside it, what the runtime (packages/runtime/src/index.ts) will really *)
(* take of the stream and of the GPU.                                      *)
(*                                                                         *)
(* A model is a published manifest of ChunkLayout with two blocks; a cache *)
(* is the set of its chunks.                                               *)
(***************************************************************************)
EXTENDS Planner, ChunkLayout, LoadPlan, Reports

Blocks == <<"layer.0", "layer.1">>

GroupNamed(m, name) == CHOOSE g \in ToSet(m.groups) : g.name = name

EntryBytes(e) == SegmentBytes(e.segments)

\* planVariant's `needs`, and the download order of some groups.
NeedsOfGroup(g) ==
  NeedsOf(g.chunks,
    FlattenSeq([e \in DOMAIN g.entries |->
      [s \in DOMAIN g.entries[e].segments |-> g.entries[e].segments[s].chunk]]))

OrderOfGroups(groups) == OrderOf([g \in DOMAIN groups |-> NeedsOfGroup(groups[g])])

\* The widths of a model's rows: d_model, queries, keys (and values), MLP.
Config == [d |-> 2, q |-> 3, kv |-> 1, inter |-> 5]

-----------------------------------------------------------------------------
(* modelInputs and cachedGroups.                                           *)

\* Seeded fault: a tied head is downloaded again.
HeadDownloadUntied(m) == GroupNamed(m, "lm_head").bytes + EntryBytes(GroupNamed(m, "embed").entries[1])
                           + GroupNamed(m, "final_norm").bytes

\* A tied head is embed's bytes, which are there already.
HeadDownload(m) ==
  (IF GroupNamed(m, "lm_head").tied THEN 0 ELSE GroupNamed(m, "lm_head").bytes)
    + GroupNamed(m, "final_norm").bytes

ModelInputs(m, cfg, maxCtx) ==
  LET embed  == GroupNamed(m, "embed")
      head   == GroupNamed(m, "lm_head")
      matrix == IF head.tied THEN embed.entries[1] ELSE head.entries[1]
      onGpu  == {g \in ToSet(m.groups) : g.name # "embed" \/ head.tied}
  IN  [L                 |-> Len(Blocks),
       blockBytes        |-> [i \in DOMAIN Blocks |-> GroupNamed(m, Blocks[i]).bytes],
       embedBytes        |-> embed.bytes,
       headGpuBytes      |-> EntryBytes(matrix) + GroupNamed(m, "final_norm").bytes,
       headDownloadBytes |-> HeadDownload(m),
       kvBytes           |-> 2 * maxCtx * cfg.kv * 2,
       workspaceBytes    |-> maxCtx * 4 * (4 * cfg.d + 2 * cfg.q + 2 * cfg.kv + 3 * cfg.inter)
                               + maxCtx * cfg.d * 2,
       maxEntry          |-> Max({EntryBytes(e) : e \in UNION {ToSet(g.entries) : g \in onGpu}})]

\* Seeded fault: blocks that are cached are counted wherever they are.
CachedGroupsAnywhere(m, held) ==
  LET cached(name) == ToSet(NeedsOfGroup(GroupNamed(m, name))) \subseteq held
  IN  [embedCached  |-> cached("embed"),
       cachedBlocks |-> Cardinality({i \in DOMAIN Blocks : cached(Blocks[i])})]

\* cachedGroups: embed, and the blocks from the first on.
CachedGroups(m, held) ==
  LET cached(name) == ToSet(NeedsOfGroup(GroupNamed(m, name))) \subseteq held
  IN  [embedCached  |-> cached("embed"),
       cachedBlocks |-> Max({n \in 0..Len(Blocks) : \A i \in 1..n : cached(Blocks[i])})]

-----------------------------------------------------------------------------
(* measureBandwidth.                                                       *)

\* Seeded fault: a load is taken although some of it came from a cache.
AfterRunWithHits(last, load) == IF load.speed > 0 THEN load.speed ELSE last

\* run(): a load of its own that the network served alone is remembered.
AfterRun(last, load) ==
  IF CountCacheHits(load.sources) = 0 /\ load.speed > 0 THEN load.speed ELSE last

\* That, else the client's last whole load, else a chunk fetched for the purpose.
Bandwidth(last, summary, probe) ==
  CASE Known(last) /\ last > 0 -> last
    [] ~(Known(last) /\ last > 0) /\ summary # <<>> /\ summary.source = "network"
         /\ summary.speed > 0 -> summary.speed
    [] OTHER -> IF probe > 0 THEN probe ELSE Unknown

-----------------------------------------------------------------------------
(* The runtime's side.                                                     *)

\* Runtime.addGroup uploads these entries of a group for a candidate.
Uploads(m, c) ==
  LET head   == GroupNamed(m, "lm_head")
      matrix == IF head.tied THEN GroupNamed(m, "embed").entries[1] ELSE head.entries[1]
  IN  FlattenSeq([i \in 1..c.N |-> GroupNamed(m, Blocks[i]).entries])
        \o (IF c.mode = "local" THEN <<matrix>> \o GroupNamed(m, "final_norm").entries ELSE <<>>)

\* loadFrom takes groups until embed, the blocks and a local head are there.
GroupsTaken(m, c) ==
  LET wanted == {"embed"} \cup {Blocks[i] : i \in 1..c.N}
                  \cup (IF c.mode # "local" THEN {}
                        ELSE {"final_norm"} \cup (IF GroupNamed(m, "lm_head").tied THEN {}
                                                  ELSE {"lm_head"}))
  IN  SubSeq(m.groups, 1, Max({g \in DOMAIN m.groups : m.groups[g].name \in wanted}))

\* What the Runtime allocates. One weight buffer for every part that is uploaded.
WeightBuffers(m, c) ==
  FlattenSeq([u \in DOMAIN Uploads(m, c) |->
    [p \in DOMAIN Uploads(m, c)[u].parts |-> Uploads(m, c)[u].parts[p].length]])

\* createKv: keys and values of every block, in halves.
CacheBuffers(c, cfg, maxCtx) == [b \in 1..(2 * c.N) |-> maxCtx * cfg.kv * 2]

\* The activations, in floats, and the export buffer, in halves.
WorkspaceRows(cfg) ==
  <<cfg.d, cfg.d, cfg.d, cfg.q, cfg.kv, cfg.kv, cfg.q, cfg.d, cfg.inter, cfg.inter,
    cfg.inter, cfg.d>>

WorkspaceBuffers(cfg, maxCtx) ==
  [w \in DOMAIN WorkspaceRows(cfg) |-> WorkspaceRows(cfg)[w] * maxCtx * 4]
    \o <<maxCtx * cfg.d * 2>>
=============================================================================
