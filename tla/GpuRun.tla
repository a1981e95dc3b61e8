------------------------------- MODULE GpuRun -------------------------------
(***************************************************************************)
(* The browser's half of a model on the GPU: Runtime (index.ts), the block *)
(* (block.ts), the KV cache (kv.ts) and the language model head (lmhead.ts)*)
(* over the operations of GpuOps. Each call submits its work before its    *)
(* first await, and the queue runs submissions in order, so a call is one  *)
(* action.                                                                 *)
(***************************************************************************)
EXTENDS GpuOps, FiniteSets

CONSTANTS
  MaxCalls           \* bound on the calls after the load

VARIABLES
  gpu,               \* GpuOps' state
  rt,                \* the Runtime's fields
  said,              \* [what, rows]: the last answer
  past               \* [tokens, whole, clean, traced, calls]: the tokens since the last
                     \* reset; whole: each of them went through every block;
                     \* clean: ws.x still holds what the last forward left;
                     \* traced: the last forward was

gpuVars == <<gpu, rt, said, past>>

Nothing == [what |-> "nothing", rows |-> <<>>]

-----------------------------------------------------------------------------
(* Buffers.                                                                *)

Ws(name) == <<"ws", name>>

Workspace ==
  {Ws(name) : name \in {"x", "x2", "h", "q", "k", "v", "attn", "o", "gate", "up", "act", "mlp"}}

BlockRoles == {"inputNorm", "q", "qBias", "k", "kBias", "v", "vBias", "o", "postNorm",
               "gate", "up", "down"}

Weight(i, role) == <<"weight", i, role>>
Kv(i) == [k |-> <<"kv", i, "k">>, v |-> <<"kv", i, "v">>]

Of(names, n) == [b \in names |-> Rows(n)]

KvBuffers(N) == UNION {{Kv(i).k, Kv(i).v} : i \in 0..(N - 1)}
Export == <<"export.f16">>
Trace == <<"trace">>

LmHead(name) == <<"head", name>>
HeadRows == {LmHead("x"), LmHead("normed"), LmHead("logits")}
HeadWeights == {LmHead("norm"), LmHead("lm_head")}

GInit ==
  /\ gpu = OpsStart
  /\ rt = <<>>
  /\ said = Nothing
  /\ past = [tokens |-> <<>>, whole |-> TRUE, clean |-> TRUE, traced |-> FALSE, calls |-> 0]

\* The constructor, for N blocks, with a head of its own or tied to the embedding.
Create(N, lmHead, tied) ==
  /\ rt = <<>>
  /\ gpu' = Allocated(OpsStart, Of(Workspace \cup {Export} \cup KvBuffers(N), MaxCtx))
  /\ rt' = [N |-> N, lmHead |-> lmHead, tied |-> tied, embed |-> FALSE, blocks |-> {},
            norm |-> FALSE, headW |-> FALSE, head |-> FALSE, allRows |-> 0, made |-> 0,
            len |-> 0, lastT |-> 0, trace |-> FALSE, gone |-> FALSE]
  /\ UNCHANGED <<said, past>>

-----------------------------------------------------------------------------
(* Loading.                                                                *)

Ready(r) ==
  /\ r.embed
  /\ r.blocks = 0..(r.N - 1)
  /\ r.lmHead => r.norm /\ r.headW

\* uploadBlock: one buffer per role of a block's group.
BlockBuffers(i) ==
  [b \in {Weight(i, role) : role \in BlockRoles} |-> <<<<i, b[3]>>>>]

\* addGroup: a group from the stream. A head's weight is taken once, from the
\* embedding when it is tied; a block beyond the first N is let go.
AddGroup(group) ==
  /\ rt # <<>> /\ ~rt.gone /\ ~Ready(rt)
  /\ LET name  == group[1]
         headW == rt.lmHead /\ ~rt.headW /\ name = (IF rt.tied THEN "embed" ELSE "lm_head")
         norm  == rt.lmHead /\ ~rt.norm /\ name = "final_norm"
         block == name = "layer" /\ group[2] < rt.N
     IN  /\ rt' = [rt EXCEPT !.embed = @ \/ name = "embed", !.headW = @ \/ headW,
                             !.norm = @ \/ norm,
                             !.blocks = IF block THEN @ \cup {group[2]} ELSE @]
         /\ gpu' = Allocated(gpu,
                     CASE headW -> LmHead("lm_head") :> <<<<name>>>>
                       [] norm  -> LmHead("norm") :> <<<<name>>>>
                       [] block -> BlockBuffers(group[2])
                       [] OTHER -> <<>>)
  /\ UNCHANGED <<said, past>>

-----------------------------------------------------------------------------
(* A forward pass.                                                         *)

Stages ==
  <<"input_norm", "q_proj", "k_proj", "v_proj", "rope", "attn", "o_proj", "residual1",
    "post_norm", "gate", "up", "silu_mul", "down", "residual2">>

\* forwardBlock: rows 1..T of ws.x to rows 1..T of ws.x, in Stages' order.
ForwardBlock(i, T, pos0) ==
  LET w(role) == Weight(i, role)
  IN  <<Rmsnorm(Ws("x"), w("inputNorm"), Ws("h"), T),
        Matmul(Ws("h"), w("q"), w("qBias"), Ws("q"), T),
        Matmul(Ws("h"), w("k"), w("kBias"), Ws("k"), T),
        Matmul(Ws("h"), w("v"), w("vBias"), Ws("v"), T),
        RopeKv(Ws("q"), Ws("k"), Ws("v"), T, pos0, Kv(i)),
        Attention(Ws("q"), Kv(i), Ws("attn"), T, pos0),
        Matmul(Ws("attn"), w("o"), NoBias, Ws("o"), T),
        AddRows(Ws("x"), Ws("o"), Ws("x2"), T),
        Rmsnorm(Ws("x2"), w("postNorm"), Ws("h"), T),
        Matmul(Ws("h"), w("gate"), NoBias, Ws("gate"), T),
        Matmul(Ws("h"), w("up"), NoBias, Ws("up"), T),
        SiluMul(Ws("gate"), Ws("up"), Ws("act"), T),
        Matmul(Ws("act"), w("down"), NoBias, Ws("mlp"), T),
        AddRows(Ws("x2"), Ws("mlp"), Ws("x"), T)>>

\* stageOutput: the workspace buffer that holds a stage's result.
StageOutput(stage) ==
  CASE stage \in {"input_norm", "post_norm"} -> "h"
    [] stage \in {"q_proj", "rope"} -> "q"
    [] stage = "k_proj" -> "k"
    [] stage = "v_proj" -> "v"
    [] stage = "attn" -> "attn"
    [] stage = "o_proj" -> "o"
    [] stage = "residual1" -> "x2"
    [] stage = "silu_mul" -> "act"
    [] stage = "down" -> "mlp"
    [] stage = "residual2" -> "x"
    [] OTHER -> stage

\* forward, up to a stage of its last block; a complete block is traced.
Forward(T, pos0, untilBlock, untilStage) ==
  FlattenSeq([n \in 1..(untilBlock + 1) |->
    LET i == n - 1
    IN  IF i = untilBlock /\ untilStage # "residual2"
        THEN SubSeq(ForwardBlock(i, T, pos0), 1,
                    CHOOSE s \in DOMAIN Stages : Stages[s] = untilStage)
        ELSE ForwardBlock(i, T, pos0)
             \o (IF rt.trace THEN <<CopyRows(Ws("x"), 1, Trace, i * MaxCtx + 1, T)>>
                 ELSE <<>>)])

\* Seeded fault: only the end of the cache is looked at.
AdvancesWithin(position, T) == position + T <= MaxCtx

\* Positions continue the cache and stay within it (KvState.advance).
Advances(position, T) == position = rt.len /\ position + T <= MaxCtx

Embedded(tokens) == [t \in DOMAIN tokens |-> <<"embed", tokens[t]>>]

Called == past.calls < MaxCalls /\ rt # <<>> /\ ~rt.gone /\ Ready(rt)

\* prefill and decode: the embedding rows are in ws.x before the position is
\* looked at; a refused position leaves them there. After a test hook stopped
\* half way, only a reset makes the cache whole again.
ForwardStep(tokens, position, untilBlock, untilStage, what) ==
  LET T      == Len(tokens)
      filled == Wrote(gpu, Ws("x"), Embedded(tokens))
  IN  /\ Called /\ past.whole /\ T <= MaxCtx
      /\ IF Advances(position, T)
         THEN /\ gpu' = PassRun(filled, Forward(T, position, untilBlock, untilStage))
              /\ rt' = [rt EXCEPT !.len = position + T, !.lastT = T]
              /\ past' = [tokens |-> past.tokens \o tokens, calls |-> past.calls + 1,
                          whole |-> what = "none", clean |-> what = "none",
                          traced |-> rt.trace]
              /\ said' = [what |-> what, block |-> untilBlock,
                          rows |-> RowsOf(gpu', Ws(StageOutput(untilStage)), T)]
         ELSE /\ gpu' = filled
              /\ past' = [past EXCEPT !.clean = FALSE, !.calls = @ + 1]
              /\ said' = Nothing
              /\ UNCHANGED rt

Prefill(tokens, position) == ForwardStep(tokens, position, rt.N - 1, "residual2", "none")

Decode(token, position) == ForwardStep(<<token>>, position, rt.N - 1, "residual2", "none")

\* debugForward and debugRead: the test hooks stop after a stage and read it.
DebugStage(tokens, block, stage) ==
  /\ block < rt.N
  /\ ForwardStep(tokens, rt.len, block, stage, stage)

EnableTrace ==
  /\ Called /\ ~rt.trace
  /\ gpu' = Allocated(gpu, Trace :> Rows(rt.N * MaxCtx))
  /\ rt' = [rt EXCEPT !.trace = TRUE]
  /\ UNCHANGED <<said, past>>

Reset ==
  /\ Called
  /\ rt' = [rt EXCEPT !.len = 0, !.lastT = 0]
  /\ past' = [past EXCEPT !.tokens = <<>>, !.whole = TRUE, !.calls = @ + 1]
  /\ said' = Nothing
  /\ UNCHANGED gpu

-----------------------------------------------------------------------------
(* What is read back. Nothing to read, or no head: the call is refused.    *)

Reads == Called /\ rt.lastT > 0 /\ past' = [past EXCEPT !.calls = @ + 1]

\* getHead: the head is made when it is first asked for.
WithHead == IF rt.head THEN gpu ELSE Allocated(gpu, Of(HeadRows, 1))

\* LmHead.record: row T of ws.x through the final norm and the head.
ScoreRow(T) ==
  <<CopyRows(Ws("x"), T, LmHead("x"), 1, 1),
    Rmsnorm(LmHead("x"), LmHead("norm"), LmHead("normed"), 1),
    Matmul(LmHead("normed"), LmHead("lm_head"), NoBias, LmHead("logits"), 1)>>

\* logits: the last row of the last forward.
Logits ==
  /\ Reads /\ rt.lmHead
  /\ gpu' = PassRun(WithHead, ScoreRow(rt.lastT))
  /\ rt' = [rt EXCEPT !.head = TRUE]
  /\ said' = [what |-> "logits", rows |-> RowsOf(gpu', LmHead("logits"), 1)]

\* debugLogitsAll: every row, tiled, into a buffer that grows when it must, over
\* a temporary one.
LogitsAll ==
  LET T      == rt.lastT
      grow   == rt.allRows < T
      made   == IF grow THEN rt.made + 1 ELSE rt.made
      all    == <<"head.logits.all", made>>
      normed == <<"head.normed.all", past.calls>>
      before == Allocated(IF grow THEN Freed(WithHead, {<<"head.logits.all", rt.made>>})
                          ELSE WithHead,
                          (normed :> Rows(T)) @@ (IF grow THEN all :> Rows(T) ELSE <<>>))
      after  == PassRun(before,
                  <<Rmsnorm(Ws("x"), LmHead("norm"), normed, T),
                    TiledMatmul(normed, LmHead("lm_head"), all, T)>>)
  IN  /\ Reads /\ rt.lmHead
      /\ gpu' = Freed(after, {normed})
      /\ rt' = [rt EXCEPT !.head = TRUE, !.made = made, !.allRows = IF grow THEN T ELSE @]
      /\ said' = [what |-> "all", rows |-> RowsOf(after, all, T)]

ExportHidden ==
  /\ Reads
  /\ gpu' = PassRun(gpu, <<PackF16(Ws("x"), rt.lastT, Export)>>)
  /\ said' = [what |-> "export", rows |-> RowsOf(gpu', Export, rt.lastT)]
  /\ UNCHANGED rt

\* traceRead: the rows of a block's output in the last forward.
TraceRead(block) ==
  /\ Reads /\ rt.trace /\ block < rt.N
  /\ said' = [what |-> "trace", block |-> block,
              rows |-> SubSeq(gpu.live[Trace], block * MaxCtx + 1,
                              block * MaxCtx + rt.lastT)]
  /\ UNCHANGED <<gpu, rt>>

\* Seeded fault: the head frees what it made, and the weights it took over stay.
HeadBuffersOfItsOwn == HeadRows \cup {<<"head.logits.all", rt.made>>}

\* LmHead.destroy: its rows, and the two weights it was given.
HeadBuffers ==
  HeadRows \cup {<<"head.logits.all", rt.made>>}
           \cup HeadWeights

Destroy ==
  /\ rt # <<>> /\ ~rt.gone
  /\ gpu' = OpsDestroyed(Freed(gpu,
              {Weight(i, role) : i \in rt.blocks, role \in BlockRoles}
              \cup Workspace \cup KvBuffers(rt.N) \cup {Export, Trace}
              \cup (IF rt.head THEN HeadBuffers
                    ELSE HeadWeights)))
  /\ rt' = [rt EXCEPT !.gone = TRUE]
  /\ said' = Nothing
  /\ UNCHANGED past
-----------------------------------------------------------------------------
(* The microbench (microbench.ts): blocks, exports and heads timed on a    *)
(* GpuOps of its own, with made-up weights.                                *)

\* A pass of which only the time matters: what it computes is left out, and of
\* the sites only their names are kept.
PassTimed(g, ops) ==
  LET keys == {ops[n].key : n \in {n \in DOMAIN ops : ops[n].kernel # "copy"}}
  IN  [g EXCEPT !.sites = [k \in keys |-> <<>>] @@ @,
                !.live  = [k \in keys |-> <<>>] @@ @]

\* Passes of `reps` blocks each: two to warm up, then `runs` of T rows and
\* `runs` of one row, at growing positions.
BenchPasses(T, runs) ==
  LET several == [T |-> T, pos0 |-> 0]
  IN  <<several, [T |-> 1, pos0 |-> T]>> \o [i \in 1..runs |-> several]
      \o [i \in 1..runs |-> [T |-> 1, pos0 |-> T + i - 1]]

\* A position beyond the context makes attention() throw while recording: the
\* pass is given up, and nothing is freed.
Microbench(o) ==
  LET times(n, op) == [i \in 1..n |-> op]
      block(p) == FlattenSeq([i \in 1..o.reps |-> ForwardBlock(0, p.T, p.pos0)])
      passes  == BenchPasses(o.T, o.runs)
      begun   == Allocated(OpsStart,
                   BlockBuffers(0) @@ Of(Workspace \cup KvBuffers(1), o.maxCtx))
      ran     == FoldLeft(LAMBDA g, p : PassTimed(g, block(p)), begun, passes)
      packed  == Freed(FoldLeft(PassTimed, Allocated(ran, Of({Export}, 1)),
                         times(o.runs + 1, <<PackF16(Ws("x"), 1, Export)>>)),
                       {Export})
      scored  == Freed(FoldLeft(PassTimed, Allocated(packed, Of(HeadWeights \cup HeadRows, 1)),
                         times(o.runs + 1, ScoreRow(1))),
                       HeadRows \cup HeadWeights)
      freed(g) == OpsDestroyed(Freed(g,
                    DOMAIN BlockBuffers(0) \cup Workspace \cup KvBuffers(1)))
      failed  == \E i \in DOMAIN passes : passes[i].pos0 + passes[i].T > o.maxCtx
  IN  [failed |-> failed,
       left |-> IF failed THEN DOMAIN begun.live
                ELSE DOMAIN freed(IF o.head THEN scored ELSE packed).live]
=============================================================================
