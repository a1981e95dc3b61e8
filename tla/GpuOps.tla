------------------------------- MODULE GpuOps -------------------------------
(***************************************************************************)
(* The GPU as the runtime drives it (ops.ts): operations are recorded into *)
(* a pass and run when the pass is submitted. Each call site, named by the *)
(* buffers it uses, has a bind group made once and one uniform buffer; a   *)
(* uniform is written when the operation is recorded, so an operation runs *)
(* with the last value written before the submit.                          *)
(*                                                                         *)
(* A buffer is its identity (idOf) and holds rows; a row is a term that    *)
(* says how it was computed. Columns, shapes and the kernels' arithmetic   *)
(* are not modelled: all matmul kernels compute one function, as they do   *)
(* when fp16 rounding is emulated and "lanes" is not asked for.            *)
(***************************************************************************)
EXTENDS Integers, Sequences, SequencesExt, TLC

CONSTANTS
  MaxCtx,            \* rows of the workspace and of the KV cache
  Round16            \* emulate fp16 rounding (the default)

Garbage == <<"garbage">>
Rows(n) == [r \in 1..n |-> Garbage]

NoBias == <<"bias.none">>
RopeTables == {<<"rope.cos">>, <<"rope.sin">>}

\* live: allocated buffers and their rows; pass: what was recorded.
OpsStart ==
  [live |-> [b \in RopeTables |-> <<b>>] @@ (NoBias :> <<<<"zero">>>>),
   sites |-> <<>>, uniform |-> <<>>, pass |-> <<>>]

\* createStorage, uploadWeight: buffers with their rows.
Allocated(g, buffers) == [g EXCEPT !.live = buffers @@ @]

Freed(g, names) ==
  [g EXCEPT !.live = [b \in DOMAIN @ \ names |-> @[b]]]

\* write: rows from the CPU, row 1 first, at once in the queue's order.
Wrote(g, b, rows) ==
  [g EXCEPT !.live[b] = [r \in DOMAIN @ |-> IF r \in DOMAIN rows THEN rows[r] ELSE @[r]]]

-----------------------------------------------------------------------------
(* Operations: the kernel, the key of the call site, what it binds and the *)
(* parameters.                                                             *)

Rmsnorm(x, w, out, T) ==
  [kernel |-> "rmsnorm", key |-> <<"rmsnorm", x, w, out>>, bind |-> <<x, w, out>>,
   params |-> [T |-> T]]

MatvecMode == IF Round16 THEN "seq" ELSE "lanes"

\* One row goes through a matvec kernel, several through the tiled one.
Matmul(x, w, bias, out, T) ==
  LET mode == IF T = 1 THEN MatvecMode ELSE "tiled"
  IN  [kernel |-> "matmul", key |-> <<mode, x, w, bias, out>>,
       bind |-> <<x, w, bias, out>>, params |-> [T |-> T]]

TiledMatmul(x, w, out, T) ==
  [kernel |-> "matmul", key |-> <<"tiled", x, w, NoBias, out>>,
   bind |-> <<x, w, NoBias, out>>, params |-> [T |-> T]]

RopeKv(q, k, v, T, pos0, kv) ==
  [kernel |-> "rope_kv", key |-> <<"rope", q, k, v, kv.k>>,
   bind |-> <<q, k, v, kv.k, kv.v>>, params |-> [T |-> T, pos0 |-> pos0]]

\* Seeded fault: the site is named by its tensors, not by the cache.
AttentionSiteByRows(q, kv, out, T, pos0) ==
  [kernel |-> "attention", key |-> <<"attn", q, out>>,
   bind |-> <<q, kv.k, kv.v, out>>, params |-> [T |-> T, pos0 |-> pos0]]

Attention(q, kv, out, T, pos0) ==
  [kernel |-> "attention", key |-> <<"attn", q, kv.k, out>>,
   bind |-> <<q, kv.k, kv.v, out>>, params |-> [T |-> T, pos0 |-> pos0]]

SiluMul(gate, up, out, T) ==
  [kernel |-> "silu_mul", key |-> <<"silu", gate, up, out>>,
   bind |-> <<gate, up, out>>, params |-> [T |-> T]]

AddRows(a, b, out, T) ==
  [kernel |-> "add", key |-> <<"add", a, b, out>>, bind |-> <<a, b, out>>,
   params |-> [T |-> T]]

PackF16(x, T, dst) ==
  [kernel |-> "f32_to_f16", key |-> <<"pack", x, dst>>, bind |-> <<x, dst>>,
   params |-> [T |-> T]]

\* copy: n rows from row `from` of src to row `to` of dst; it ends the compute
\* pass and opens another, in the same command buffer.
CopyRows(src, from, dst, to, n) ==
  [kernel |-> "copy", src |-> src, from |-> from, dst |-> dst, to |-> to, n |-> n]

-----------------------------------------------------------------------------
(* Recording and running.                                                  *)

\* siteU and dispatch: the site is found by its key, or made, with a uniform
\* buffer of its own; its uniform gets the new parameters.
Recorded(g, op) ==
  IF op.kernel = "copy" THEN [g EXCEPT !.pass = Append(@, op)]
  ELSE [g EXCEPT
          !.sites   = IF op.key \in DOMAIN @ THEN @ ELSE (op.key :> op.bind) @@ @,
          !.live    = IF op.key \in DOMAIN @ THEN @ ELSE (op.key :> <<>>) @@ @,
          !.uniform = (op.key :> op.params) @@ @,
          !.pass    = Append(@, [kernel |-> op.kernel, key |-> op.key])]

\* What the rows of `out` become: row r by Of(r) for the first T, the others
\* untouched.
Filled(live, out, T, Of(_)) ==
  [live EXCEPT ![out] = [r \in DOMAIN @ |-> IF r <= T THEN Of(r) ELSE @[r]]]

\* One kernel over its bound buffers.
Executed(live, kernel, b, u) ==
  CASE kernel = "rmsnorm" ->
         Filled(live, b[3], u.T, LAMBDA r : <<"norm", live[b[2]][1], live[b[1]][r]>>)
    [] kernel = "matmul" ->
         Filled(live, b[4], u.T,
                LAMBDA r : <<"mul", live[b[2]][1], live[b[3]][1], live[b[1]][r]>>)
    [] kernel = "rope_kv" ->
         LET turned(x, r) == <<"rope", u.pos0 + r, live[x][r]>>
             inCache(r)   == r > u.pos0 /\ r <= u.pos0 + u.T
         IN  [live EXCEPT
                ![b[1]] = [r \in DOMAIN @ |-> IF r <= u.T THEN turned(b[1], r) ELSE @[r]],
                ![b[4]] = [r \in DOMAIN @ |-> IF inCache(r) THEN turned(b[2], r - u.pos0)
                                              ELSE @[r]],
                ![b[5]] = [r \in DOMAIN @ |-> IF inCache(r) THEN live[b[3]][r - u.pos0]
                                              ELSE @[r]]]
    [] kernel = "attention" ->
         Filled(live, b[4], u.T,
                LAMBDA r : <<"attn", live[b[1]][r],
                             [j \in 1..(u.pos0 + r) |-> <<live[b[2]][j], live[b[3]][j]>>]>>)
    [] kernel = "silu_mul" ->
         Filled(live, b[3], u.T, LAMBDA r : <<"silu", live[b[1]][r], live[b[2]][r]>>)
    [] kernel = "add" ->
         Filled(live, b[3], u.T, LAMBDA r : <<"add", live[b[1]][r], live[b[2]][r]>>)
    [] kernel = "f32_to_f16" ->
         Filled(live, b[2], u.T, LAMBDA r : <<"f16", live[b[1]][r]>>)

Copied(live, c) ==
  [live EXCEPT ![c.dst] =
     [r \in DOMAIN @ |-> IF r \in c.to..(c.to + c.n - 1) THEN live[c.src][c.from + r - c.to]
                         ELSE @[r]]]

\* run: record the operations, submit the pass, and the queue executes it.
PassRun(g, ops) ==
  LET recorded == FoldLeft(Recorded, g, ops)
      step(live, c) ==
        IF c.kernel = "copy" THEN Copied(live, c)
        ELSE Executed(live, c.kernel, recorded.sites[c.key], recorded.uniform[c.key])
  IN  [recorded EXCEPT !.live = FoldLeft(step, recorded.live, recorded.pass), !.pass = <<>>]

\* readback: the first n rows.
RowsOf(g, b, n) == SubSeq(g.live[b], 1, n)

\* destroy: every site's uniform buffer, the rope tables, the empty bias.
OpsDestroyed(g) ==
  [Freed(g, DOMAIN g.sites \cup RopeTables \cup {NoBias}) EXCEPT !.sites = <<>>]
=============================================================================
