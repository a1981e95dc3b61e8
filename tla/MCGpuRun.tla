------------------------------ MODULE MCGpuRun ------------------------------
(***************************************************************************)
(* A model of two layers on the GPU: one block or both, without a head,    *)
(* with its own, or with one tied to the embedding. The bench's result     *)
(* holds the groups that came. The test hooks and the trace are used       *)
(* without a head, from the start.                                         *)
(***************************************************************************)
EXTENDS Bench, GpuRun

Layers == 2

GpuTasks ==
  {[kind |-> "gpu", N |-> 1, lmHead |-> FALSE, tied |-> TRUE]}
  \cup [kind : {"gpu"}, N : {Layers}, lmHead : BOOLEAN, tied : BOOLEAN]

ModelGroups == <<<<"embed">>, <<"layer", 0>>, <<"layer", 1>>, <<"final_norm">>, <<"lm_head">>>>

LoadGroup ==
  /\ task.kind = "gpu" /\ Len(result) < Len(ModelGroups)
  /\ AddGroup(ModelGroups[Len(result) + 1])
  /\ result' = Append(result, ModelGroups[Len(result) + 1])
  /\ UNCHANGED task

\* Tokens never seen before, so that no two rows are alike by chance.
Fresh(n) == [t \in 1..n |-> 10 * past.calls + t]

RuntimeCalls ==
  /\ task.kind = "gpu"
  /\ \/ Create(task.N, task.lmHead, task.tied)
     \/ \E n \in 1..2, skip \in 0..1 : Called /\ Prefill(Fresh(n), rt.len + skip)
     \/ \E skip \in 0..1 : Called /\ Decode(Fresh(1)[1], rt.len + skip)
     \/ \E n \in 1..2, block \in 0..(Layers - 1), s \in DOMAIN Stages :
          Called /\ ~rt.lmHead /\ past.calls <= 1 /\ DebugStage(Fresh(n), block, Stages[s])
     \/ Called /\ ~rt.lmHead /\ past.calls = 0 /\ EnableTrace
     \/ Reset
     \/ Logits \/ LogitsAll \/ ExportHidden
     \/ \E block \in 0..(Layers - 1) : TraceRead(block)
     \/ Destroy
  /\ UNCHANGED <<task, result>>

OnGpu == LoadGroup \/ RuntimeCalls

-----------------------------------------------------------------------------
(* The model itself, row by row: what Qwen2 computes of a token sequence.  *)

NoTerm == <<"zero">>

\* Every stage of one block at position p, from the block's input rows.
BlockOf(i, rows, p) ==
  LET w(role)    == <<i, role>>
      H(j)       == <<"norm", w("inputNorm"), rows[j]>>
      Proj(role, bias, x) == <<"mul", w(role), bias, x>>
      Q          == Proj("q", w("qBias"), H(p))
      K(j)       == Proj("k", w("kBias"), H(j))
      V(j)       == Proj("v", w("vBias"), H(j))
      attn       == <<"attn", <<"rope", p, Q>>,
                      [j \in 1..p |-> <<<<"rope", j, K(j)>>, V(j)>>]>>
      o          == Proj("o", NoTerm, attn)
      x2         == <<"add", rows[p], o>>
      h2         == <<"norm", w("postNorm"), x2>>
      gate       == Proj("gate", NoTerm, h2)
      up         == Proj("up", NoTerm, h2)
      act        == <<"silu", gate, up>>
      down       == Proj("down", NoTerm, act)
  IN  [input_norm |-> H(p), q_proj |-> Q, k_proj |-> K(p), v_proj |-> V(p),
       rope |-> <<"rope", p, Q>>, attn |-> attn, o_proj |-> o, residual1 |-> x2,
       post_norm |-> h2, gate |-> gate, up |-> up, silu_mul |-> act, down |-> down,
       residual2 |-> <<"add", x2, down>>]

\* The rows that enter block n, of a whole token sequence.
RowsInto(n, tokens) ==
  FoldLeft(LAMBDA rows, i : [p \in DOMAIN rows |-> BlockOf(i - 1, rows, p).residual2],
           Embedded(tokens), [i \in 1..n |-> i])

LogitsOf(row) ==
  <<"mul", <<IF rt.tied THEN "embed" ELSE "lm_head">>, NoTerm,
    <<"norm", <<"final_norm">>, row>>>>

\* Everything read back is what the model computes of all the tokens since the
\* last reset, in whatever prefills and decodes they came: the logits of the
\* last token, the hidden rows of the last forward that the server continues
\* from, each block's traced output and every stage the test hooks stop at.
\* Refused calls overwrite ws.x: then nothing is claimed until the next forward.
ForwardIsTheModel ==
  task.kind = "gpu" /\ rt # <<>> /\ said.what # "nothing" =>
    LET tokens == past.tokens
        T      == rt.lastT
        Late(rows) == SubSeq(rows, Len(rows) - T + 1, Len(rows))
        last(n) == Late(RowsInto(n, tokens))
        rowwise(F(_), rows) == [r \in DOMAIN rows |-> F(rows[r])]
    IN  CASE said.what = "none" ->
               said.rows = last(rt.N)
          [] said.what = "logits" -> past.clean =>
               said.rows = rowwise(LogitsOf, SubSeq(last(rt.N), T, T))
          [] said.what = "all" -> past.clean =>
               said.rows = rowwise(LogitsOf, last(rt.N))
          [] said.what = "export" -> past.clean =>
               said.rows = rowwise(LAMBDA row : <<"f16", row>>, last(rt.N))
          [] said.what = "trace" -> past.clean /\ past.traced =>
               said.rows = last(said.block + 1)
          [] OTHER ->
               LET rows == RowsInto(said.block, tokens)
               IN  said.rows = Late([p \in DOMAIN rows |->
                                       BlockOf(said.block, rows, p)[said.what]])

\* destroy() gives back every buffer, whatever was loaded and asked before.
DestroyFreesAll ==
  task.kind = "gpu" /\ rt # <<>> /\ rt.gone => DOMAIN gpu.live = {}
=============================================================================
