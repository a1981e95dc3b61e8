----------------------------- MODULE MCRuntime ------------------------------
(***************************************************************************)
(* The runtime beside its GPU work: the numbers it stores (Numbers) and the*)
(* local sampler (Sampler), on every small input.                          *)
(***************************************************************************)
EXTENDS MCGpuRun, Numbers, Sampler

-----------------------------------------------------------------------------
(* Every number of the wide format.                                        *)

FloatTasks == [kind : {"float"}, exp : 0..WSpecial, mant : 0..(2^WMant - 1)]

RoundFloat ==
  Run("float", LET h == F32ToF16(task.exp, task.mant)
               IN  [h |-> h, back |-> F16ToF32(h), scale |-> F16Bits(task.exp, task.mant)])

\* Values in units of the wide format's smallest step; the narrow infinity
\* stands where the next number would be.
WValue(exp, mant) == IF exp = 0 THEN mant ELSE (mant + 2^WMant) * 2^(exp - 1)

NStep == 2^((WBias + WMant) - (NBias + NMant))

NValue(h) ==
  LET e == h \div 2^NMant
      m == h % 2^NMant
  IN  NStep * (IF e = 0 THEN m ELSE (m + 2^NMant) * 2^(e - 1))

NInfinity == NSpecial * 2^NMant

\* f32ToF16 gives the nearest binary16 number, of two equally near the even
\* one, infinity beyond the last, and keeps a NaN; widened again the number is
\* the same; and the scales' own conversion differs only below the normal
\* numbers ("rounds to nearest, ties to even", f16.ts).
RoundsToNearestEven ==
  Ran("float") =>
    IF task.exp = WSpecial
    THEN IF task.mant = 0 THEN result.h = NInfinity ELSE result.h > NInfinity
    ELSE LET v      == WValue(task.exp, task.mant)
             off(h) == Abs(NValue(h) - v)
         IN  /\ result.h \in 0..NInfinity
             /\ \A h \in 0..NInfinity :
                  \/ off(result.h) < off(h) \/ h = result.h
                  \/ off(result.h) = off(h) /\ result.h % 2 = 0
             /\ result.h \in 2^NMant..(NInfinity - 1) =>
                  WValue(result.back.exp, result.back.mant) = NValue(result.h)
             /\ task.exp - WBias + NBias > 0 => result.scale = result.h

-----------------------------------------------------------------------------
(* Small matrices of whole groups, in q8 by row and in q4.                 *)

Values == {-6, -1, 0, 2, 9}

MatrixTasks ==
  [kind : {"matrix"}, w : UNION {[1..rows -> [1..(QGroup * n) -> Values]] :
                                   <<rows, n>> \in {<<1, 1>>, <<1, 2>>, <<2, 1>>}}]

Quantize == Run("matrix", [q8 |-> Q8Encode(task.w[1]), q4 |-> Q4Encode(task.w)])

\* Decoded, a value is off by half a step at most: in q8 always, in q4 when its
\* group has values on both sides of zero or only one value (a group of one
\* sign and several values is clipped). What the kernel loads is what q4Decode
\* gives, two elements at a time.
QuantizedIsClose ==
  Ran("matrix") =>
    /\ \A k \in DOMAIN task.w[1] :
         LET s == result.q8.scale
         IN  2 * Abs(task.w[1][k] * s.den - result.q8.q[k] * s.num) <= s.num
    /\ \A o \in DOMAIN task.w, k \in DOMAIN task.w[1] :
         LET g   == ToSet(GroupOf(task.w, o, (k - 1) \div QGroup + 1))
             d   == Q4Decode(result.q4, o, k)
             off == Abs(task.w[o][k] * d.scale.den - d.steps * d.scale.num)
         IN  /\ Cardinality(g) = 1 => off = 0
             /\ Min(g) <= 0 /\ Max(g) >= 0 => 2 * off <= d.scale.num
             /\ k % 2 = 1 =>
                  LoadW2(result.q4, o, k) = <<d, Q4Decode(result.q4, o, k + 1)>>

-----------------------------------------------------------------------------
(* Entries: of matrices of any kind, and of parts of odd lengths.          *)

PartLengths == {1, 2, 255, 256, 257}

EntryTasks ==
  [kind : {"entry"},
   lengths : UNION {[1..n -> PartLengths] : n \in 1..3}
             \cup {PartLengthsOf(kind, out, in) :
                     kind \in {"fp16", "q8", "q4"}, out \in 1..9, in \in {128, 384}}]

LayOut == Run("entry", EntryParts(task.lengths))

\* Each part is bound at an offset the device takes, and its rounded length
\* covers no byte of another part and stays inside the padded buffer ("which
\* stays inside the padded buffer", buffers.ts).
BindingsFit ==
  Ran("entry") =>
    \A p \in DOMAIN result :
      LET b == PartBinding(result[p])
      IN  /\ b.offset % 256 = 0
          /\ b.offset + b.size <= Pad4(EntrySize(result))
          /\ p < Len(result) => b.offset + b.size <= result[p + 1].offset

-----------------------------------------------------------------------------
(* Distributions over up to four tokens.                                   *)

Distributions ==
  UNION {{p \in [1..n -> 0..Whole] : MassOf(p, 1..n) = Whole} : n \in 1..4}

SampleTasks == [kind : {"sample"}, p : Distributions, topP : 0..Whole]

DrawAll ==
  Run("sample",
      [drawn |-> [u \in 0..(Draws - 1) |-> Sample(task.p, task.topP, u)],
       first |-> Argmax(task.p), top |-> [k \in 1..3 |-> Topk(task.p, k)]])

\* The local sampler follows the server's rules ("Same rules as the server's
\* Sampler", lmhead.ts): it draws only tokens the server may keep, each as often
\* as its share of what is kept, up to one draw, although it never sorts the
\* tokens below its bound. topP = 0, which the server cannot sample with, is the
\* likeliest token. Ties go to the first token, in argmax and topk too.
SampleIsNucleus ==
  Ran("sample") =>
    LET p     == task.p
        drawn == {result.drawn[u] : u \in 0..(Draws - 1)}
        kept  == IF task.topP = 0 THEN {{Argmax(p)}} ELSE ServerKept(p, task.topP)
        times(i) == Cardinality({u \in 0..(Draws - 1) : result.drawn[u] = i})
    IN  /\ \E S \in kept :
             /\ drawn \subseteq S
             /\ \A i \in S : Abs(times(i) * MassOf(p, S) - Draws * p[i]) < MassOf(p, S)
        /\ \A k \in 1..3 :
             LET top == result.top[k]
             IN  /\ Len(top) = Min({k, Len(p)}) /\ top[1] = result.first
                 /\ \A i \in DOMAIN p \ ToSet(top), n \in DOMAIN top :
                      p[top[n]] > p[i] \/ (p[top[n]] = p[i] /\ top[n] < i)
                 /\ \A n, m \in DOMAIN top :
                      n < m => p[top[n]] > p[top[m]]
                               \/ (p[top[n]] = p[top[m]] /\ top[n] < top[m])

\* What is stored is what is read, and what is drawn what was computed: all four.
NumbersAreKept == RoundsToNearestEven /\ QuantizedIsClose /\ BindingsFit /\ SampleIsNucleus

-----------------------------------------------------------------------------
(* The microbench, with its own length of context or the default one.      *)

BenchTasks ==
  {[kind |-> "microbench", T |-> T, runs |-> runs, reps |-> 2, maxCtx |-> ctx, head |-> head] :
     T \in 1..2, runs \in 1..2, ctx \in 2..6, head \in BOOLEAN}

Measure == Run("microbench", Microbench(task))

\* With the context it chooses itself the microbench never asks for a position
\* beyond it, and gives back all it took; so it does with any other that is
\* long enough.
MicrobenchFreesAll ==
  Ran("microbench") =>
    /\ task.maxCtx >= task.T + task.runs + 2 => ~result.failed
    /\ ~result.failed => result.left = {}

\* The GPU as its callers need it: the runtime computes the model, and both the
\* runtime and the microbench leave nothing on the device.
RuntimeIsTheModel == ForwardIsTheModel /\ DestroyFreesAll /\ MicrobenchFreesAll

-----------------------------------------------------------------------------
RuntimeTasks == GpuTasks \cup BenchTasks \cup FloatTasks \cup MatrixTasks \cup EntryTasks \cup SampleTasks

Measuring == (Measure \/ RoundFloat \/ Quantize \/ LayOut \/ DrawAll) /\ UNCHANGED gpuVars
=============================================================================
