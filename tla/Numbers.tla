------------------------------ MODULE Numbers -------------------------------
(***************************************************************************)
(* Numbers as the runtime stores them: binary16 (f16.ts), the q8 and q4    *)
(* encodings (quant.ts, a port of the ingest's quant.py) and how the       *)
(* kernels read them back (weights_q4.wgsl), and the parts of an uploaded  *)
(* weight (buffers.ts).                                                    *)
(*                                                                         *)
(* The two floating-point formats have their widths as constants. Weights  *)
(* are small integers and a scale is an exact fraction: the rounding of    *)
(* the scale itself to binary16 is left out.                               *)
(***************************************************************************)
EXTENDS Integers, Sequences, SequencesExt, FiniteSetsExt

CONSTANTS
  WExp, WMant,       \* exponent and mantissa bits of the wide format (8 and 23)
  NExp, NMant,       \* of the narrow one (5 and 10)
  QGroup             \* Q4_GROUP (128)

WBias == 2^(WExp - 1) - 1
NBias == 2^(NExp - 1) - 1
WSpecial == 2^WExp - 1         \* the exponent of infinities and NaNs
NSpecial == 2^NExp - 1

-----------------------------------------------------------------------------
(* f16.ts. A number is its sign and its bits without it: wide as exponent  *)
(* and mantissa, narrow as one integer, so that a carry of the mantissa    *)
(* moves into the exponent.                                                *)

\* Seeded fault: half of the last place always rounds up.
RoundedUpAlways(half, rem, halfway) == IF rem >= halfway THEN half + 1 ELSE half

\* Half of the last place rounds to the even neighbour.
RoundedUp(half, rem, halfway) ==
  IF rem > halfway \/ (rem = halfway /\ half % 2 = 1) THEN half + 1 ELSE half

F32ToF16(exp, mant) ==
  LET e    == exp - WBias + NBias
      drop == WMant - NMant
  IN  CASE exp = WSpecial ->
             NSpecial * 2^NMant
             + (IF mant = 0 THEN 0
                ELSE LET kept == mant \div 2^drop          \* a NaN stays quiet
                     IN  IF kept >= 2^(NMant - 1) THEN kept ELSE kept + 2^(NMant - 1))
        [] exp # WSpecial /\ e >= NSpecial -> NSpecial * 2^NMant
        [] e <= 0 /\ e < -NMant -> 0
        [] e <= 0 /\ e >= -NMant ->
             LET full  == mant + 2^WMant
                 shift == drop + 1 - e
             IN  RoundedUp(full \div 2^shift, full % 2^shift, 2^(shift - 1))
        [] OTHER ->
             RoundedUp(e * 2^NMant + mant \div 2^drop, mant % 2^drop, 2^(drop - 1))

\* The wide exponent and mantissa of a narrow number that is not subnormal.
F16ToF32(h) ==
  LET e == h \div 2^NMant
      m == h % 2^NMant
  IN  [exp |-> IF e = NSpecial THEN WSpecial ELSE e + WBias - NBias,
       mant |-> m * 2^(WMant - NMant)]

\* microbench.ts has a conversion of its own, for scales: subnormals become 0.
F16Bits(exp, mant) ==
  LET e    == exp - WBias + NBias
      drop == WMant - NMant
  IN  CASE e <= 0 -> 0
        [] e >= NSpecial -> NSpecial * 2^NMant
        [] OTHER ->
             RoundedUp(e * 2^NMant + mant \div 2^drop, mant % 2^drop, 2^(drop - 1))

-----------------------------------------------------------------------------
(* quant.ts. The ratio of two integers, rounded half to even.              *)

RoundHalfEven(num, den) ==
  LET f == num \div den
      d == 2 * (num % den)
  IN  IF d < den \/ (d = den /\ f % 2 = 0) THEN f ELSE f + 1

Abs(n) == IF n < 0 THEN -n ELSE n
Clipped(n, low, high) == Max({low, Min({high, n})})

\* q8Encode of one row: the scale is the fraction num/den.
Q8Encode(w) ==
  LET amax  == Max({Abs(w[i]) : i \in DOMAIN w})
      scale == IF amax = 0 THEN [num |-> 1, den |-> 1] ELSE [num |-> amax, den |-> 127]
  IN  [scale |-> scale,
       q |-> [i \in DOMAIN w |->
                Clipped(RoundHalfEven(w[i] * scale.den, scale.num), -127, 127)]]

\* The scale and the zero point of one group.
GroupScale(w) ==
  LET mn == Min(ToSet(w))
      mx == Max(ToSet(w))
  IN  CASE mx = mn /\ mn = 0  -> [num |-> 1, den |-> 1]
        [] mx = mn /\ mn # 0  -> [num |-> Abs(mn), den |-> 1]
        [] OTHER              -> [num |-> mx - mn, den |-> 15]

GroupZero(w, scale) ==
  Clipped(RoundHalfEven(-Min(ToSet(w)) * scale.den, scale.num), 0, 15)

GroupOf(w, o, g) == SubSeq(w[o], (g - 1) * QGroup + 1, g * QGroup)

\* Seeded fault: the odd element goes to the low nibble.
PackedSwapped(nibbles) ==
  [b \in 1..(Len(nibbles) \div 2) |-> nibbles[2 * b] + 16 * nibbles[2 * b - 1]]

\* Two elements per byte, the even one low.
Packed(nibbles) ==
  [b \in 1..(Len(nibbles) \div 2) |-> nibbles[2 * b - 1] + 16 * nibbles[2 * b]]

\* q4Encode of a matrix (a sequence of rows): bytes, then one scale and one
\* zero point per group, row by row.
Q4Encode(w) ==
  LET groups == Len(w[1]) \div QGroup
      each   == FlattenSeq([o \in DOMAIN w |-> [g \in 1..groups |-> GroupOf(w, o, g)]])
      scales == [n \in DOMAIN each |-> GroupScale(each[n])]
      zeros  == [n \in DOMAIN each |-> GroupZero(each[n], scales[n])]
  IN  [packed |-> Packed(FlattenSeq([n \in DOMAIN each |->
                    [i \in 1..QGroup |->
                       Clipped(RoundHalfEven(each[n][i] * scales[n].den, scales[n].num)
                                 + zeros[n], 0, 15)]])),
       scale |-> scales, zero |-> zeros, in |-> Len(w[1])]

\* q4Decode: the steps of the scale that the element at row o, column k stands
\* for, and the scale.
Q4Decode(z, o, k) ==
  LET idx  == (o - 1) * z.in + k - 1
      byte == z.packed[idx \div 2 + 1]
      g    == (o - 1) * (z.in \div QGroup) + (k - 1) \div QGroup + 1
      q    == IF idx % 2 = 0 THEN byte % 16 ELSE byte \div 16
  IN  [steps |-> q - z.zero[g], scale |-> z.scale[g]]

\* load_w2 of weights_q4.wgsl: two elements from a word of eight nibbles.
LoadW2(z, o, k) ==
  LET byteAt(n)  == IF n \in DOMAIN z.packed THEN z.packed[n] ELSE 0
      idx        == (o - 1) * z.in + k - 1
      word       == [b \in 0..3 |-> byteAt(4 * (idx \div 8) + b + 1)]
      nibble(n)  == IF n % 2 = 0 THEN word[n \div 2] % 16 ELSE word[n \div 2] \div 16
      g          == (o - 1) * (z.in \div QGroup) + (k - 1) \div QGroup + 1
      loaded(n)  == [steps |-> nibble(n) - z.zero[g], scale |-> z.scale[g]]
  IN  <<loaded(idx % 8), loaded((idx % 8) + 1)>>

-----------------------------------------------------------------------------
(* Parts of an entry: weights, scales, zeros, each aligned (q8Bytes,       *)
(* q4Bytes), uploaded and bound (uploadWeight, partBinding).               *)

Aligned(n) == ((n + 255) \div 256) * 256
Pad4(n) == ((n + 3) \div 4) * 4

\* Seeded fault: the next part starts where the last one ends.
PartsUnaligned(lengths) ==
  [p \in DOMAIN lengths |->
     [offset |-> FoldLeft(+, 0, SubSeq(lengths, 1, p - 1)), length |-> lengths[p]]]

EntryParts(lengths) ==
  [p \in DOMAIN lengths |->
     [offset |-> FoldLeft(LAMBDA at, n : Aligned(at + n), 0, SubSeq(lengths, 1, p - 1)),
      length |-> lengths[p]]]

\* The parts of a matrix of out rows, `in` wide, in whole groups of 128
\* (syntheticWeight of microbench.ts lays them out as the ingest does).
PartLengthsOf(kind, out, in) ==
  CASE kind = "fp16" -> <<2 * out * in>>
    [] kind = "q8"   -> <<out * in, 2 * out>>
    [] kind = "q4"   -> <<(out * in) \div 2, 2 * out * (in \div 128), out * (in \div 128)>>

EntrySize(parts) == Last(parts).offset + Last(parts).length

PartBinding(part) == [offset |-> part.offset, size |-> Pad4(part.length)]
=============================================================================
