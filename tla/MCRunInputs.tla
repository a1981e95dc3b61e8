---------------------------- MODULE MCRunInputs -----------------------------
(***************************************************************************)
(* The planner's inputs on small published models with every cache, after  *)
(* every short history of loads, and for documents of every length.        *)
(***************************************************************************)
EXTENDS MCAlgorithms, RunInputs

TwoBlocks == <<"embed", "layer.0", "layer.1", "final_norm", "lm_head">>

\* The second block may equal the first, chunk for chunk.
InputTasks ==
  {[kind |-> "inputs", tied |-> tied, variant |-> variant,
    tensors |-> {Tensor("embed", 1, TRUE, embedRows, 2, 5),
                 Tensor("layer.0", 1, TRUE, rows, 4, 3), Tensor("layer.0", 2, FALSE, 1, biasCols, 2),
                 Tensor("layer.1", 1, TRUE, 1, 4, fill), Tensor("layer.1", 2, FALSE, 1, 1, 2),
                 Tensor("final_norm", 1, FALSE, 1, 1, 4),
                 Tensor("lm_head", 1, TRUE, embedRows, 2, 6)}] :
     tied \in BOOLEAN, variant \in ToSet(Variants), embedRows \in {1, 3}, rows \in 1..2,
     biasCols \in {1, 3}, fill \in {0, 3, 7}}

PublishTwoBlocks ==
  Run("inputs",
    ToManifest(FoldLeft(LAMBDA acc, g : PackNext(acc, g, task.tensors, task.tied, Variants),
                        PackStart(Variants), TwoBlocks).packed[task.variant]))

\* Groups that an earlier load left in the cache whole, and single chunks.
CachesOf(m) ==
  LET whole(names) == UNION {ToSet(NeedsOfGroup(GroupNamed(m, name))) : name \in names}
  IN  {whole(names) : names \in SUBSET ToSet(TwoBlocks)}
        \cup {whole({"embed", "layer.0"}) \ {chunk} : chunk \in m.table}

\* What run() knows before a load is true of what the load then does. The chunks
\* that must come over the network before the runtime is ready are never more
\* than the planner counted; and they are exactly that, but for groups cached
\* out of order, when no two places of the model hold the same chunk. The
\* weights and the key-value cache take of the GPU exactly what the planner
\* counted for them, and no weight buffer is larger than the entry it compares
\* with the device's limit. The activations are told less truly: they take one
\* tensor of d_model columns more than "Activation workspace + export buffers at
\* maxCtx" (planner.ts), neither more nor less, and nothing bounds one of them:
\* "Largest single GPU buffer any candidate needs" is true of the weights alone.
EstimateCoversLoad ==
  Ran("inputs") =>
    LET m        == result
        maxCtx   == 2
        distinct == IsInjective(FlattenSeq([g \in DOMAIN m.groups |-> m.groups[g].chunks]))
    IN  \A held \in CachesOf(m),
           c \in {c \in Candidates(Len(Blocks)) : c.N > 0} :
          LET in      == ModelInputs(m, Config, maxCtx) @@ CachedGroups(m, held)
              taken   == GroupsTaken(m, c)
              missing == SelectSeq(OrderOfGroups(taken), LAMBDA chunk : chunk \notin held)
              counted == (IF in.embedCached THEN {"embed"} ELSE {})
                           \cup {Blocks[i] : i \in 1..in.cachedBlocks}
              rest    == SelectSeq(taken, LAMBDA g : g.name \notin counted)
          IN  /\ BytesOf(missing) <= DownloadBytes(in, c)
              /\ distinct /\ (\A g \in ToSet(rest) : ToSet(NeedsOfGroup(g)) \cap held = {})
                   => BytesOf(missing) = DownloadBytes(in, c)
              /\ DownloadBytes(in, c) = TotalOf([g \in DOMAIN rest |-> rest[g].bytes])
              /\ \A b \in ToSet(WeightBuffers(m, c)) : b <= in.maxEntry
              /\ TotalOf(WeightBuffers(m, c)) + TotalOf(CacheBuffers(c, Config, maxCtx))
                   = GpuBytes(in, c) - in.workspaceBytes
              /\ TotalOf(WorkspaceBuffers(Config, maxCtx))
                   = in.workspaceBytes + maxCtx * Config.d * 4

-----------------------------------------------------------------------------
(* Up to three loads, by run() or by the page, over the network, from the  *)
(* cache, or both.                                                         *)

BandwidthTasks ==
  [kind : {"bandwidth"}, probe : {0, 9},
   loads : BoundedSeq([by : {"run", "page"}, whole : BOOLEAN,
                       sources : {<<"network">>, <<"per-site-cache">>,
                                  <<"per-site-cache", "network">>}], 3)]

\* The speed of load n is n.
MeasureLoads ==
  Run("bandwidth",
    LET load(n) == [sources |-> task.loads[n].sources, speed |-> n]
        end == FoldLeft(LAMBDA s, n :
                 IF task.loads[n].by = "run"
                 THEN [s EXCEPT !.last = AfterRun(s.last, load(n))]
                 ELSE IF task.loads[n].whole
                 THEN [s EXCEPT !.summary = [source |-> ClassifySource(task.loads[n].sources),
                                             speed |-> n]]
                 ELSE s,
                 [last |-> Unknown, summary |-> <<>>], [n \in DOMAIN task.loads |-> n])
    IN  [speed |-> Bandwidth(end.last, end.summary, task.probe)])

\* The bandwidth that load times are foretold with was the network's alone: no
\* chunk of the load it was measured on came from a cache, and a load of run()
\* stands until a later one ("Download bandwidth from the last load, or a 1 MB
\* probe", run.ts). It is unknown only when nothing was measured.
BandwidthIsTheNetworks ==
  Ran("bandwidth") =>
    LET pure == {n \in DOMAIN task.loads : ToSet(task.loads[n].sources) = {"network"}}
        runs == {n \in pure : task.loads[n].by = "run"}
    IN  /\ result.speed \in pure \cup {task.probe, Unknown}
        /\ runs # {} => result.speed = Max(runs)
        /\ result.speed = Unknown => runs = {} /\ task.probe = 0

-----------------------------------------------------------------------------
(* Documents of any length, with any estimate of it.                       *)

DocumentTasks ==
  [kind : {"document"}, tokens : 0..(MostCtx + 2), estimate : 0..(MostCtx + 2)]

Summarise == Run("document", RunOnce(task.tokens, task.estimate))

\* A document gets a context that holds it and the reply, after one correction
\* at most, whenever its tokens leave room for the spare ones too; a document
\* that leaves no room for the reply gets none. Between the two ("the limit is
\* MAX_CTX - MAX_TOKENS", summarize.ts) the estimate decides.
DocumentGetsRoom ==
  Ran("document") =>
    LET whole == task.tokens + NewTokens
        ctx   == Last(result.tried)
    IN  /\ result.ran => whole <= ctx /\ ctx <= MostCtx
        /\ whole + Spare <= MostCtx => result.ran
        /\ whole > MostCtx => ~result.ran
        /\ Len(result.tried) > 1 => task.estimate < task.tokens /\ ctx > result.tried[1]


-----------------------------------------------------------------------------
InputsTasks == InputTasks \cup BandwidthTasks \cup DocumentTasks

Informing == PublishTwoBlocks \/ MeasureLoads \/ Summarise
=============================================================================
