------------------------------ MODULE Sampler -------------------------------
(***************************************************************************)
(* The local sampler (lmhead.ts). Probabilities are what is left of the    *)
(* softmax: weights in parts of Whole, and so is topP; the random draw is  *)
(* one of Draws equal parts of the interval it is multiplied with. What    *)
(* rounding can do at the end of a walk is left out.                       *)
(***************************************************************************)
EXTENDS Integers, Sequences, SequencesExt, FiniteSetsExt, TLC

CONSTANTS
  Whole,             \* parts of probability one
  Draws              \* distinct values of the generator

\* argmax: the first of the greatest.
Argmax(v) ==
  CHOOSE i \in DOMAIN v :
    /\ \A j \in DOMAIN v : v[j] <= v[i]
    /\ \A j \in 1..(i - 1) : v[j] < v[i]

\* topk: each value goes behind those that are not smaller; the last falls off.
Topk(v, k) ==
  FoldLeft(
    LAMBDA out, i :
      IF Len(out) < k \/ v[i] > v[Last(out)]
      THEN LET place == Cardinality({n \in DOMAIN out : v[out[n]] >= v[i]}) + 1
               more  == InsertAt(out, place, i)
           IN  IF Len(more) > k THEN Front(more) ELSE more
      ELSE out,
    <<>>, [i \in DOMAIN v |-> i])

\* The first of a walk over idx at which the draw, u/Draws of `mass`, is used up.
Walked(p, idx, mass, u) ==
  LET upTo(n) == FoldLeft(LAMBDA sum, i : sum + p[i], 0, SubSeq(idx, 1, n))
  IN  idx[CHOOSE n \in DOMAIN idx :
            /\ u * mass < Draws * upTo(n)
            /\ \A m \in 1..(n - 1) : u * mass >= Draws * upTo(m)]

\* Tokens of at least a bound, the likelier first, then by index: below the
\* bound no token can belong to the nucleus.
Likely(p, topP) ==
  SetToSortSeq({i \in DOMAIN p : p[i] * Len(p) >= Whole - topP},
               LAMBDA a, b : p[a] > p[b] \/ (p[a] = p[b] /\ a < b))

\* Seeded fault: the walk leaves out the token that reaches topP.
NucleusShort(p, topP) ==
  LET idx == Likely(p, topP)
      upTo(n) == FoldLeft(LAMBDA sum, i : sum + p[i], 0, SubSeq(idx, 1, n))
  IN  SelectSeq(idx, LAMBDA i : \E n \in DOMAIN idx : idx[n] = i /\ upTo(n) < topP)

\* The candidates kept: as long as what came before has not reached topP.
Nucleus(p, topP) ==
  LET idx == Likely(p, topP)
      upTo(n) == FoldLeft(LAMBDA sum, i : sum + p[i], 0, SubSeq(idx, 1, n))
  IN  SelectSeq(idx, LAMBDA i : \E n \in DOMAIN idx : idx[n] = i /\ upTo(n - 1) < topP)

MassOf(p, S) == MapThenSumSet(LAMBDA i : p[i], S)

\* sample at a temperature above 0, for the draw u.
Sample(p, topP, u) ==
  LET kept == Nucleus(p, topP)
  IN  CASE topP = Whole -> Walked(p, [i \in DOMAIN p |-> i], Whole, u)
        [] topP < Whole /\ kept = <<>> -> Likely(p, topP)[1]
        [] OTHER -> Walked(p, kept, MassOf(p, ToSet(kept)), u)

\* The split server's rule (model.py), whose sort breaks ties as it likes: the
\* sets of tokens it may keep.
ServerKept(p, topP) ==
  LET orders == {o \in Permutations(DOMAIN p) :
                   \A a, b \in DOMAIN p : a < b => p[o[a]] >= p[o[b]]}
      before(o, n) == MassOf(p, {o[m] : m \in 1..(n - 1)})
  IN  {{o[n] : n \in {n \in DOMAIN p : before(o, n) < topP}} : o \in orders}
=============================================================================
