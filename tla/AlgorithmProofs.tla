--------------------------- MODULE AlgorithmProofs ---------------------------
(***************************************************************************)
(* Proofs about the functions of Bench: what the walks of LoadPlan come to *)
(* for any groups, and what Planner chooses for any measurements.          *)
(*                                                                         *)
(* Both are folds, or choices among finitely many; the induction they need *)
(* is proved first, from the least exception there would be.               *)
(***************************************************************************)
EXTENDS MCAlgorithms, Functions, FiniteSetsExt, FiniteSetTheorems, SequenceTheorems,
        WellFoundedInduction, TLAPS

-----------------------------------------------------------------------------
(***************************************************************************)
(* Walks: what a fold over a sequence computes, step by step               *)
(***************************************************************************)

\* A nonempty set of natural numbers has a least one.
LEMMA LeastPlace ==
  ASSUME NEW S \in SUBSET Nat, S # {}
  PROVE  \E n \in S : \A m \in S : n <= m
  <1>1. PICK n \in S : \A m \in S : <<m, n>> \notin OpToRel(<, Nat)
    BY NatLessThanWellFounded, WFMin
  <1>2. \A m \in S : <<m, n>> \in Nat \X Nat /\ ~(m < n)
    BY <1>1 DEF OpToRel
  <1>3. n \in Nat /\ \A m \in S : m \in Nat
    OBVIOUS
  <1>4. ASSUME NEW m \in S PROVE n <= m
    <2>1. m \in Nat /\ ~(m < n)
      BY <1>2
    <2> QED
      BY <1>3, <2>1
  <1> QED
    BY <1>4

\* Induction along a sequence: a set of places that has 0, and each place whose
\* predecessor it has, has them all. The least place it lacks would be neither.
LEMMA AllPlaces ==
  ASSUME NEW n \in Nat, NEW S, 0 \in S, \A k \in 1..n : k - 1 \in S => k \in S
  PROVE  \A k \in 0..n : k \in S
  <1> DEFINE C == {k \in 0..n : k \notin S}
  <1> SUFFICES ASSUME C # {} PROVE FALSE
    OBVIOUS
  <1>1. C \in SUBSET Nat
    OBVIOUS
  <1>2. PICK k \in C : \A m \in C : k <= m
    <2> HIDE DEF C
    <2> QED
      BY <1>1, LeastPlace
  <1>3. k \in 1..n
    BY <1>2
  <1>4. ~(k <= k - 1) /\ k - 1 \in 0..n
    BY <1>3
  <1>5. k - 1 \notin C
    BY <1>2, <1>4
  <1> QED
    BY <1>2, <1>3, <1>4, <1>5

LEMMA MaxIsOne ==
  ASSUME NEW n \in Nat, NEW A \in SUBSET (1..n), A # {}
  PROVE  Max(A) \in A
  <1> DEFINE S == {n - x : x \in A}
  <1>1. S \in SUBSET Nat /\ S # {}
    <2>1. ASSUME NEW x \in A PROVE n - x \in Nat
      <3>1. x \in 1..n
        OBVIOUS
      <3> QED
        BY <3>1
    <2> QED
      BY <2>1
  <1>2. PICK d \in S : \A e \in S : d <= e
    <2> HIDE DEF S
    <2> QED
      BY <1>1, LeastPlace
  <1>3. PICK x \in A : d = n - x
    BY <1>2
  <1>4. ASSUME NEW y \in A PROVE x >= y
    <2>1. n - x <= n - y
      BY <1>2, <1>3
    <2>2. x \in Nat /\ y \in Nat
      OBVIOUS
    <2> QED
      BY <2>1, <2>2
  <1> QED
    BY <1>4 DEF Max

LEMMA MaxIsLast ==
  ASSUME NEW n \in Nat, NEW A \in SUBSET (1..n), n \in A
  PROVE  Max(A) = n
  <1>1. \A y \in A : n >= y
    OBVIOUS
  <1>2. \A x \in A : (\A y \in A : x >= y) => x = n
    <2>1. \A x \in A : x \in Nat /\ x <= n
      OBVIOUS
    <2> QED
      BY <2>1
  <1> QED
    BY <1>1, <1>2 DEF Max

\* The recursion by which FoldLeft is defined, over sets of places up to n.
Recursion(f, st, b, s, n) ==
  \A A \in SUBSET (1..n) :
    f[A] = IF A = {} THEN b ELSE st[<<f[A \ {Max(A)}], s[Max(A)]>>]

LEMMA RecursionExists ==
  ASSUME NEW V, NEW E, NEW st \in [V \X E -> V], NEW b \in V, NEW s \in Seq(E)
  PROVE  \E f \in [SUBSET (1..Len(s)) -> V] : Recursion(f, st, b, s, Len(s))
  <1> DEFINE Good(n) == \E f \in [SUBSET (1..n) -> V] : Recursion(f, st, b, s, n)
             C == {n \in 0..Len(s) : Good(n)}
  <1>0. Len(s) \in Nat /\ \A k \in 1..Len(s) : s[k] \in E
    OBVIOUS
  <1>1. Good(0)
    <2>1. [A \in SUBSET (1..0) |-> b] \in [SUBSET (1..0) -> V]
      OBVIOUS
    <2>2. \A A \in SUBSET (1..0) : A = {}
      OBVIOUS
    <2>3. Recursion([A \in SUBSET (1..0) |-> b], st, b, s, 0)
      BY <2>2 DEF Recursion
    <2> QED
      BY <2>1, <2>3
  <1>2. ASSUME NEW n \in 1..Len(s), Good(n - 1) PROVE Good(n)
    <2>0. n \in Nat /\ n - 1 \in Nat /\ s[n] \in E
      BY <1>0
    <2>1. PICK f \in [SUBSET (1..(n - 1)) -> V] : Recursion(f, st, b, s, n - 1)
      BY <1>2
    <2> DEFINE h == [A \in SUBSET (1..n) |-> IF n \in A THEN st[<<f[A \ {n}], s[n]>>] ELSE f[A]]
    <2>2. \A A \in SUBSET (1..n) : A \ {n} \in SUBSET (1..(n - 1))
      BY <2>0
    <2>3. \A A \in SUBSET (1..n) : n \notin A => A \in SUBSET (1..(n - 1))
      BY <2>0
    <2>4. h \in [SUBSET (1..n) -> V]
      <3>1. ASSUME NEW A \in SUBSET (1..n), n \in A PROVE st[<<f[A \ {n}], s[n]>>] \in V
        <4>1. f[A \ {n}] \in V
          BY <2>2
        <4>2. <<f[A \ {n}], s[n]>> \in V \X E
          BY <2>0, <4>1
        <4> QED
          BY <4>2
      <3>2. ASSUME NEW A \in SUBSET (1..n), n \notin A PROVE f[A] \in V
        BY <2>3, <3>2
      <3>3. \A A \in SUBSET (1..n) : (IF n \in A THEN st[<<f[A \ {n}], s[n]>>] ELSE f[A]) \in V
        BY <3>1, <3>2
      <3> QED
        BY <3>3
    <2>5. ASSUME NEW A \in SUBSET (1..n), A # {}
          PROVE  h[A] = st[<<h[A \ {Max(A)}], s[Max(A)]>>]
      <3>1. CASE n \in A
        <4>1. Max(A) = n
          BY <2>0, <3>1, MaxIsLast
        <4>2. h[A \ {n}] = f[A \ {n}]
          OBVIOUS
        <4>3. h[A] = st[<<f[A \ {n}], s[n]>>]
          BY <3>1
        <4> HIDE DEF h
        <4> QED
          BY <4>1, <4>2, <4>3
      <3>2. CASE n \notin A
        <4>1. h[A] = f[A] /\ h[A \ {Max(A)}] = f[A \ {Max(A)}]
          BY <3>2
        <4>2. f[A] = st[<<f[A \ {Max(A)}], s[Max(A)]>>]
          BY <2>1, <2>3, <2>5, <3>2 DEF Recursion
        <4> HIDE DEF h
        <4> QED
          BY <4>1, <4>2
      <3> QED
        BY <3>1, <3>2
    <2>6. h[{}] = b
      <3>1. f[{}] = b
        BY <2>1 DEF Recursion
      <3> QED
        BY <3>1
    <2> HIDE DEF h
    <2> QED
      BY <2>4, <2>5, <2>6 DEF Recursion
  <1> HIDE DEF Good
  <1>3. 0 \in C /\ \A n \in 1..Len(s) : n - 1 \in C => n \in C
    BY <1>0, <1>1, <1>2
  <1>4. Len(s) \in C
    <2> HIDE DEF C
    <2>1. \A n \in 0..Len(s) : n \in C
      BY <1>0, <1>3, AllPlaces
    <2> QED
      BY <1>0, <2>1
  <1> QED
    BY <1>4 DEF Good

\* A walk along s, from b, by steps st over the values V.
Steps(V, E, st, b, s) == st \in [V \X E -> V] /\ b \in V /\ s \in Seq(E)

Walk(p, st, b, s, V) ==
  /\ p \in [0..Len(s) -> V]
  /\ p[0] = b
  /\ \A k \in 1..Len(s) : p[k] = st[<<p[k - 1], s[k]>>]

\* What the recursion finds for the places up to each is the walk.
LEMMA RecursionWalks ==
  ASSUME NEW V, NEW E, NEW st, NEW b, NEW s, Steps(V, E, st, b, s),
         NEW f \in [SUBSET (1..Len(s)) -> V], Recursion(f, st, b, s, Len(s))
  PROVE  \E p : Walk(p, st, b, s, V) /\ p[Len(s)] = f[1..Len(s)]
  <1> DEFINE p == [k \in 0..Len(s) |-> f[1..k]]
  <1>0. Len(s) \in Nat
    BY DEF Steps
  <1>1. \A k \in 0..Len(s) : 1..k \in SUBSET (1..Len(s))
    BY <1>0
  <1>2. p \in [0..Len(s) -> V]
    BY <1>1
  <1>3. p[0] = b
    <2>1. 1..0 = {}
      OBVIOUS
    <2>2. f[{}] = b
      BY DEF Recursion
    <2> QED
      BY <1>0, <2>1, <2>2
  <1>4. ASSUME NEW k \in 1..Len(s) PROVE p[k] = st[<<p[k - 1], s[k]>>]
    <2>0. k \in Nat /\ k \in 1..k /\ k - 1 \in 0..Len(s)
      BY <1>0
    <2>1. k \in Nat /\ k \in 1..k /\ 1..k # {} /\ k - 1 \in 0..Len(s)
      BY <2>0
    <2>2. Max(1..k) = k
      BY <2>1, MaxIsLast
    <2>3. (1..k) \ {k} = 1..(k - 1)
      BY <2>1
    <2>4. f[1..k] = st[<<f[1..(k - 1)], s[k]>>]
      BY <1>1, <2>1, <2>2, <2>3 DEF Recursion
    <2> QED
      BY <1>0, <2>1, <2>4
  <1>5. p[Len(s)] = f[1..Len(s)]
    BY <1>0
  <1> HIDE DEF p
  <1> QED
    BY <1>2, <1>3, <1>4, <1>5 DEF Walk

LEMMA WalksExist ==
  ASSUME NEW V, NEW E, NEW st, NEW b, NEW s, Steps(V, E, st, b, s)
  PROVE  \E p : Walk(p, st, b, s, V)
  BY RecursionExists, RecursionWalks DEF Steps

\* Whatever goes from b by these steps, from values to values, has gone the walk.
Follows(q, st, b, s, V) ==
  /\ q[0] = b
  /\ \A k \in 1..Len(s) : q[k - 1] \in V => q[k] = st[<<q[k - 1], s[k]>>]

LEMMA WalkIsFollowed ==
  ASSUME NEW V, NEW E, NEW st, NEW b, NEW s, Steps(V, E, st, b, s),
         NEW q, Follows(q, st, b, s, V), NEW p, Walk(p, st, b, s, V)
  PROVE  q[Len(s)] = p[Len(s)]
  <1>0. Len(s) \in Nat
    BY DEF Steps
  <1> DEFINE S == {k \in 0..Len(s) : q[k] = p[k]}
  <1>2. 0 \in S
    BY <1>0 DEF Walk, Follows
  <1>3. ASSUME NEW k \in 1..Len(s), k - 1 \in S PROVE k \in S
    <2>1. q[k - 1] = p[k - 1] /\ p[k - 1] \in V /\ k \in 0..Len(s)
      BY <1>0, <1>3 DEF Walk
    <2>2. p[k] = st[<<p[k - 1], s[k]>>]
      BY DEF Walk
    <2>3. q[k] = p[k]
      BY <2>1, <2>2 DEF Follows
    <2> QED
      BY <2>1, <2>3
  <1> HIDE DEF S
  <1>4. \A k \in 0..Len(s) : k \in S
    BY <1>0, <1>2, <1>3, AllPlaces
  <1> QED
    BY <1>0, <1>4 DEF S

\* The places up to the k-th are the k-th and the places before it.
LEMMA PlacesUpTo ==
  ASSUME NEW n \in Nat, NEW k \in 1..n
  PROVE  /\ 1..k \in SUBSET (1..n) /\ 1..k # {}
         /\ Max(1..k) = k /\ (1..k) \ {k} = 1..(k - 1)
  <1>1. k \in Nat /\ 1..k \in SUBSET (1..n) /\ k \in 1..k
    OBVIOUS
  <1>2. Max(1..k) = k
    BY <1>1, MaxIsLast
  <1>3. (1..k) \ {k} = 1..(k - 1)
    BY <1>1
  <1> QED
    BY <1>1, <1>2, <1>3

\* What has the recursion for its values, where they are values, walks.
Recurs(f, st, b, s, V) ==
  \A A \in SUBSET (1..Len(s)) :
    /\ A = {} => f[A] = b
    /\ A # {} /\ f[A \ {Max(A)}] \in V => f[A] = st[<<f[A \ {Max(A)}], s[Max(A)]>>]

LEMMA FoldIsWalk ==
  ASSUME NEW V, NEW E, NEW st, NEW b, NEW s, Steps(V, E, st, b, s),
         NEW f, Recurs(f, st, b, s, V)
  PROVE  \E p : Walk(p, st, b, s, V) /\ f[1..Len(s)] = p[Len(s)]
  <1> DEFINE q == [k \in 0..Len(s) |-> f[1..k]]
  <1>0. Len(s) \in Nat
    BY DEF Steps
  <1>1. PICK p : Walk(p, st, b, s, V)
    BY WalksExist
  <1>2. q[0] = b
    <2>1. 1..0 = {} /\ {} \in SUBSET (1..Len(s))
      OBVIOUS
    <2>2. f[{}] = b
      BY <2>1 DEF Recurs
    <2> QED
      BY <1>0, <2>1, <2>2
  <1>3. ASSUME NEW k \in 1..Len(s), q[k - 1] \in V
        PROVE  q[k] = st[<<q[k - 1], s[k]>>]
    <2>1. 1..k \in SUBSET (1..Len(s)) /\ 1..k # {} /\ Max(1..k) = k /\ (1..k) \ {k} = 1..(k - 1)
      BY <1>0, PlacesUpTo
    <2>2. q[k] = f[1..k] /\ q[k - 1] = f[1..(k - 1)]
      BY <1>0
    <2> HIDE DEF q
    <2>3. f[1..k] = st[<<f[1..(k - 1)], s[k]>>]
      BY <1>3, <2>1, <2>2 DEF Recurs
    <2> QED
      BY <2>2, <2>3
  <1>4. f[1..Len(s)] = q[Len(s)]
    BY <1>0
  <1> HIDE DEF q
  <1>5. Follows(q, st, b, s, V)
    BY <1>2, <1>3 DEF Follows
  <1>6. q[Len(s)] = p[Len(s)]
    BY <1>1, <1>5, WalkIsFollowed
  <1> QED
    BY <1>1, <1>4, <1>6

\* The two folds of the plan: what `add` collects, and what the map of last uses
\* becomes, group by group.
LEMMA FoldOfAdds ==
  ASSUME NEW E, NEW s \in Seq(E)
  PROVE  \E p \in [0..Len(s) -> Seq(E)] :
           /\ p[0] = <<>>
           /\ \A k \in 1..Len(s) : p[k] = Add(p[k - 1], s[k])
           /\ FoldLeft(LAMBDA out, sha : Add(out, sha), <<>>, s) = p[Len(s)]
  <1> DEFINE st == [x \in Seq(E) \X E |-> Add(x[1], x[2])]
             F(f, A) == IF A = {} THEN <<>> ELSE Add(f[A \ {Max(A)}], s[Max(A)])
             f == CHOOSE f : f = [A \in SUBSET DOMAIN s |-> F(f, A)]
  <1>0. Len(s) \in Nat /\ DOMAIN s = 1..Len(s) /\ \A k \in 1..Len(s) : s[k] \in E
    OBVIOUS
  <1>1. FoldLeft(LAMBDA out, sha : Add(out, sha), <<>>, s) = f[1..Len(s)]
    BY <1>0 DEF FoldLeft, MapThenFoldSet
  <1>2. \A x \in Seq(E), e \in E : Add(x, e) \in Seq(E) /\ st[<<x, e>>] = Add(x, e)
    BY DEF Add
  <1>3. st \in [Seq(E) \X E -> Seq(E)] /\ <<>> \in Seq(E)
    <2>1. \A x \in Seq(E) \X E : Add(x[1], x[2]) \in Seq(E)
      BY <1>2
    <2> QED
      BY <2>1
  <1> HIDE DEF st
  <1>4. Steps(Seq(E), E, st, <<>>, s)
    BY <1>3 DEF Steps
  <1>5. \A A \in SUBSET (1..Len(s)) : A # {} => Max(A) \in 1..Len(s) /\ s[Max(A)] \in E
    BY <1>0, MaxIsOne
  <1>6. PICK g \in [SUBSET (1..Len(s)) -> Seq(E)] : Recursion(g, st, <<>>, s, Len(s))
    BY <1>3, RecursionExists
  <1>7. g = [A \in SUBSET DOMAIN s |-> F(g, A)]
    <2>1. ASSUME NEW A \in SUBSET (1..Len(s)) PROVE g[A] = F(g, A)
      <3>1. CASE A = {}
        BY <1>6, <3>1 DEF Recursion
      <3>2. CASE A # {}
        <4>1. g[A \ {Max(A)}] \in Seq(E) /\ s[Max(A)] \in E
          BY <1>5, <3>2
        <4>2. g[A] = st[<<g[A \ {Max(A)}], s[Max(A)]>>]
          BY <1>6, <3>2 DEF Recursion
        <4> QED
          BY <1>2, <3>2, <4>1, <4>2
      <3> QED
        BY <3>1, <3>2
    <2> HIDE DEF F
    <2> QED
      BY <1>0, <2>1
  <1>8. f = [A \in SUBSET DOMAIN s |-> F(f, A)]
    <2> HIDE DEF F
    <2> QED
      BY <1>7
  <1> HIDE DEF f
  <1>9. Recurs(f, st, <<>>, s, Seq(E))
    <2>1. \A A \in SUBSET (1..Len(s)) : f[A] = F(f, A)
      <3> HIDE DEF F
      <3> QED
        BY <1>0, <1>8
    <2> QED
      BY <1>2, <1>5, <2>1 DEF Recurs
  <1>10. PICK p : Walk(p, st, <<>>, s, Seq(E)) /\ f[1..Len(s)] = p[Len(s)]
    BY <1>4, <1>9, FoldIsWalk
  <1>11. ASSUME NEW k \in 1..Len(s) PROVE p[k] = Add(p[k - 1], s[k])
    <2>1. p[k - 1] \in Seq(E) /\ s[k] \in E
      BY <1>0, <1>10 DEF Walk
    <2> QED
      BY <1>2, <1>10, <2>1 DEF Walk
  <1>12. p \in [0..Len(s) -> Seq(E)] /\ p[0] = <<>>
    BY <1>10 DEF Walk
  <1> QED
    BY <1>1, <1>10, <1>11, <1>12

\* One step of the last uses, and the maps it makes.
Mark(needs, last, g) ==
  [sha \in DOMAIN last \cup ToSet(needs[g]) |->
     IF sha \in ToSet(needs[g]) THEN g ELSE last[sha]]

LEMMA FoldOfMarks ==
  ASSUME NEW E, NEW needs \in Seq(Seq(E))
  PROVE  \E p :
           /\ p[0] = <<>>
           /\ \A k \in 1..Len(needs) : p[k] = Mark(needs, p[k - 1], k)
           /\ LastUseOf(needs) = p[Len(needs)]
  <1> DEFINE V == UNION {[D -> Nat] : D \in SUBSET E}
             s == [g \in DOMAIN needs |-> g]
             st == [x \in V \X DOMAIN needs |-> Mark(needs, x[1], x[2])]
             F(f, A) == IF A = {} THEN <<>> ELSE Mark(needs, f[A \ {Max(A)}], s[Max(A)])
             f == CHOOSE f : f = [A \in SUBSET DOMAIN s |-> F(f, A)]
  <1>0. /\ Len(needs) \in Nat /\ DOMAIN needs = 1..Len(needs) /\ s \in Seq(DOMAIN needs)
        /\ Len(s) = Len(needs) /\ DOMAIN s = 1..Len(s) /\ \A k \in 1..Len(s) : s[k] = k
    OBVIOUS
  <1>1. LastUseOf(needs) = f[1..Len(s)]
    BY <1>0 DEF LastUseOf, FoldLeft, MapThenFoldSet, Mark
  <1>2. \A x \in V, e \in DOMAIN needs : Mark(needs, x, e) \in V
    <2> SUFFICES ASSUME NEW D \in SUBSET E, NEW x \in [D -> Nat], NEW e \in DOMAIN needs
                 PROVE  Mark(needs, x, e) \in V
      OBVIOUS
    <2>1. ToSet(needs[e]) \in SUBSET E /\ e \in Nat
      BY <1>0 DEF ToSet
    <2>2. Mark(needs, x, e) \in [D \cup ToSet(needs[e]) -> Nat]
      BY <2>1 DEF Mark
    <2> QED
      BY <2>1, <2>2
  <1>3. st \in [V \X DOMAIN needs -> V] /\ <<>> \in V
    <2>1. \A x \in V \X DOMAIN needs : Mark(needs, x[1], x[2]) \in V
      BY <1>2
    <2>2. <<>> \in [{} -> Nat]
      OBVIOUS
    <2> HIDE DEF st
    <2>3. <<>> \in V
      BY <2>2
    <2> HIDE DEF V
    <2> QED
      BY <2>1, <2>3 DEF st
  <1>13. \A x \in V, e \in DOMAIN needs : st[<<x, e>>] = Mark(needs, x, e)
    OBVIOUS
  <1> HIDE DEF st, V
  <1>4. Steps(V, DOMAIN needs, st, <<>>, s)
    BY <1>0, <1>3 DEF Steps
  <1>5. \A A \in SUBSET (1..Len(s)) : A # {} => Max(A) \in 1..Len(s) /\ s[Max(A)] \in DOMAIN needs
    BY <1>0, MaxIsOne
  <1>6. PICK g \in [SUBSET (1..Len(s)) -> V] : Recursion(g, st, <<>>, s, Len(s))
    BY <1>0, <1>3, RecursionExists
  <1> HIDE DEF s
  <1>7. g = [A \in SUBSET DOMAIN s |-> F(g, A)]
    <2>1. ASSUME NEW A \in SUBSET (1..Len(s)) PROVE g[A] = F(g, A)
      <3>1. CASE A = {}
        BY <1>6, <3>1 DEF Recursion
      <3>2. CASE A # {}
        <4>1. g[A \ {Max(A)}] \in V /\ s[Max(A)] \in DOMAIN needs
          BY <1>5, <3>2
        <4>2. g[A] = st[<<g[A \ {Max(A)}], s[Max(A)]>>]
          BY <1>6, <3>2 DEF Recursion
        <4> QED
          BY <1>13, <3>2, <4>1, <4>2
      <3> QED
        BY <3>1, <3>2
    <2> HIDE DEF F
    <2> QED
      BY <1>0, <2>1
  <1>8. f = [A \in SUBSET DOMAIN s |-> F(f, A)]
    <2> HIDE DEF F
    <2> QED
      BY <1>7
  <1> HIDE DEF f
  <1>9. Recurs(f, st, <<>>, s, V)
    <2>1. \A A \in SUBSET (1..Len(s)) : f[A] = F(f, A)
      <3> HIDE DEF F
      <3> QED
        BY <1>0, <1>8
    <2> QED
      BY <1>13, <1>5, <2>1 DEF Recurs
  <1>10. PICK p : Walk(p, st, <<>>, s, V) /\ f[1..Len(s)] = p[Len(s)]
    BY <1>4, <1>9, FoldIsWalk
  <1>11. ASSUME NEW k \in 1..Len(s) PROVE p[k] = Mark(needs, p[k - 1], k)
    <2>1. p[k - 1] \in V /\ s[k] = k /\ k \in DOMAIN needs
      BY <1>0, <1>10 DEF Walk
    <2> QED
      BY <1>13, <1>10, <2>1 DEF Walk
  <1>12. p[0] = <<>>
    BY <1>10 DEF Walk
  <1> QED
    BY <1>0, <1>1, <1>10, <1>11, <1>12

\* After k places, `add` has each of their values once, in the order in which
\* they first came.
Collected(out, s, k) ==
  /\ \A i, j \in 1..Len(out) : out[i] = out[j] => i = j
  /\ \A i \in 1..Len(out) : \E a \in 1..k : s[a] = out[i]
  /\ \A a \in 1..k : \E i \in 1..Len(out) : out[i] = s[a]
  /\ \A i, j \in 1..Len(out) : i < j =>
       \A b \in 1..k : s[b] = out[j] => \E a \in 1..b : s[a] = out[i]

LEMMA AddCollects ==
  ASSUME NEW E, NEW s \in Seq(E), NEW k \in 1..Len(s), NEW out \in Seq(E),
         Collected(out, s, k - 1)
  PROVE  Collected(Add(out, s[k]), s, k)
  <1>0. Len(s) \in Nat /\ k \in Nat /\ Len(out) \in Nat /\ s[k] \in E
    OBVIOUS
  <1>1. \A a \in 1..k : a = k \/ a \in 1..(k - 1)
    BY <1>0
  <1>2. \A a \in 1..(k - 1) : a \in 1..k
    BY <1>0
  <1>3. CASE Contains(out, s[k])
    <2>1. Add(out, s[k]) = out
      BY <1>3 DEF Add
    <2>2. PICK n \in 1..Len(out) : out[n] = s[k]
      BY <1>3 DEF Contains
    <2>3. ASSUME NEW i \in 1..Len(out), NEW j \in 1..Len(out), i < j,
                 NEW b \in 1..k, s[b] = out[j]
          PROVE  \E a \in 1..b : s[a] = out[i]
      <3>1. CASE b \in 1..(k - 1)
        BY <2>3, <3>1 DEF Collected
      <3>2. CASE b = k
        BY <1>2, <3>2 DEF Collected
      <3> QED
        BY <1>1, <3>1, <3>2
    <2>4. \A i \in 1..Len(out) : \E a \in 1..k : s[a] = out[i]
      BY <1>2 DEF Collected
    <2>5. \A a \in 1..k : \E i \in 1..Len(out) : out[i] = s[a]
      BY <1>1, <2>2 DEF Collected
    <2>6. \A i, j \in 1..Len(out) : out[i] = out[j] => i = j
      BY DEF Collected
    <2> QED
      BY <2>1, <2>3, <2>4, <2>5, <2>6 DEF Collected
  <1>4. CASE ~Contains(out, s[k])
    <2> DEFINE n == Len(out) + 1
               new == Append(out, s[k])
    <2>1. Add(out, s[k]) = new
      BY <1>4 DEF Add
    <2>2. \A i \in 1..Len(out) : out[i] # s[k]
      BY <1>4 DEF Contains
    <2>3. Len(new) = n /\ new[n] = s[k] /\ \A i \in 1..Len(out) : new[i] = out[i]
      OBVIOUS
    <2>4. \A i \in 1..n : i = n \/ i \in 1..Len(out)
      BY <1>0
    <2>5. n \in 1..n /\ \A i \in 1..Len(out) : i \in 1..n /\ i < n
      BY <1>0
    <2> HIDE DEF n, new
    <2>6. ASSUME NEW i \in 1..n, NEW j \in 1..n, new[i] = new[j] PROVE i = j
      BY <2>2, <2>3, <2>4, <2>6 DEF Collected
    <2>7. ASSUME NEW i \in 1..n PROVE \E a \in 1..k : s[a] = new[i]
      <3>1. CASE i = n
        <4>1. k \in 1..k
          BY <1>0
        <4> QED
          BY <2>3, <3>1, <4>1
      <3>2. CASE i \in 1..Len(out)
        <4>1. PICK a \in 1..(k - 1) : s[a] = out[i]
          BY <3>2 DEF Collected
        <4> QED
          BY <1>2, <2>3, <3>2, <4>1
      <3> QED
        BY <2>4, <3>1, <3>2
    <2>8. ASSUME NEW a \in 1..k PROVE \E i \in 1..n : new[i] = s[a]
      BY <1>1, <2>3, <2>5 DEF Collected
    <2>9. ASSUME NEW i \in 1..n, NEW j \in 1..n, i < j, NEW b \in 1..k, s[b] = new[j]
          PROVE  \E a \in 1..b : s[a] = new[i]
      <3>1. i \in 1..Len(out) /\ new[i] = out[i]
        <4>1. i # n
          <5>1. n \in Nat
            BY <1>0 DEF n
          <5> QED
            BY <2>9, <5>1
        <4> QED
          BY <2>3, <2>4, <4>1
      <3>2. CASE b = k
        BY <1>2, <3>1, <3>2 DEF Collected
      <3>3. CASE b \in 1..(k - 1)
        <4>1. j # n
          <5>1. \E m \in 1..Len(out) : out[m] = s[b]
            BY <3>3 DEF Collected
          <5> QED
            BY <2>2, <2>3, <2>9, <5>1
        <4>2. j \in 1..Len(out) /\ new[j] = out[j]
          BY <2>3, <2>4, <4>1
        <4> QED
          BY <2>9, <3>1, <3>3, <4>2 DEF Collected
      <3> QED
        BY <1>1, <3>2, <3>3
    <2> QED
      BY <2>1, <2>3, <2>6, <2>7, <2>8, <2>9 DEF Collected
  <1> QED
    BY <1>3, <1>4

LEMMA AddsAreExact ==
  ASSUME NEW E, NEW s \in Seq(E)
  PROVE  LET out == FoldLeft(LAMBDA o, sha : Add(o, sha), <<>>, s)
         IN  out \in Seq(E) /\ Collected(out, s, Len(s))
  <1>0. Len(s) \in Nat
    OBVIOUS
  <1>1. PICK p \in [0..Len(s) -> Seq(E)] :
          /\ p[0] = <<>>
          /\ \A k \in 1..Len(s) : p[k] = Add(p[k - 1], s[k])
          /\ FoldLeft(LAMBDA out, sha : Add(out, sha), <<>>, s) = p[Len(s)]
    BY FoldOfAdds
  <1> DEFINE S == {k \in 0..Len(s) : Collected(p[k], s, k)}
  <1>2. 0 \in S
    <2>1. Collected(<<>>, s, 0)
      BY DEF Collected
    <2>2. Collected(p[0], s, 0)
      BY <1>1, <2>1
    <2> QED
      BY <1>0, <2>2
  <1>3. ASSUME NEW k \in 1..Len(s), k - 1 \in S PROVE k \in S
    <2>1. p[k - 1] \in Seq(E) /\ Collected(p[k - 1], s, k - 1) /\ k \in 0..Len(s)
      BY <1>0, <1>3
    <2>2. Collected(p[k], s, k)
      BY <1>1, <2>1, AddCollects
    <2> QED
      BY <2>1, <2>2
  <1> HIDE DEF S
  <1>4. \A k \in 0..Len(s) : k \in S
    BY <1>0, <1>2, <1>3, AllPlaces
  <1>5. Collected(p[Len(s)], s, Len(s)) /\ p[Len(s)] \in Seq(E)
    BY <1>0, <1>4 DEF S
  <1> QED
    BY <1>1, <1>5

\* The groups' lists one behind the other: w[k] is what the first k come to.
Joined(w, lists, E) ==
  /\ w \in [0..Len(lists) -> Seq(E)]
  /\ w[0] = <<>>
  /\ \A k \in 1..Len(lists) : w[k] = w[k - 1] \o lists[k]

LEMMA ListsAreJoined ==
  ASSUME NEW E, NEW lists \in Seq(Seq(E))
  PROVE  \E w : Joined(w, lists, E) /\ FlattenSeq(lists) = w[Len(lists)]
  <1> DEFINE n == Len(lists)
             st == [x \in Seq(E) \X Seq(E) |-> x[1] \o x[2]]
  <1>0. n \in Nat /\ \A k \in 1..n : lists[k] \in Seq(E)
    OBVIOUS
  <1>1. \A x, y \in Seq(E) : x \o y \in Seq(E) /\ st[<<x, y>>] = x \o y
    <2>1. ASSUME NEW x \in Seq(E), NEW y \in Seq(E) PROVE x \o y \in Seq(E)
      OBVIOUS
    <2>2. ASSUME NEW x \in Seq(E), NEW y \in Seq(E) PROVE st[<<x, y>>] = x \o y
      OBVIOUS
    <2> QED
      BY <2>1, <2>2
  <1>2. Steps(Seq(E), Seq(E), st, <<>>, lists)
    <2>1. \A x \in Seq(E) \X Seq(E) : x[1] \o x[2] \in Seq(E)
      OBVIOUS
    <2>2. st \in [Seq(E) \X Seq(E) -> Seq(E)]
      BY <2>1
    <2> HIDE DEF st
    <2> QED
      BY <2>2 DEF Steps
  <1> HIDE DEF st
  <1>3. PICK w : Walk(w, st, <<>>, lists, Seq(E))
    BY <1>2, WalksExist
  <1>4. Joined(w, lists, E)
    <2>1. ASSUME NEW k \in 1..n PROVE w[k] = w[k - 1] \o lists[k]
      <3>1. w[k - 1] \in Seq(E) /\ lists[k] \in Seq(E)
        <4>1. k - 1 \in 0..n
          BY <1>0
        <4> QED
          BY <1>0, <1>3, <4>1 DEF Walk
      <3> QED
        BY <1>1, <1>3, <3>1 DEF Walk
    <2> QED
      BY <1>3, <2>1 DEF Walk, Joined
  <1>5. CASE n = 0
    <2>1. lists = <<>>
      BY <1>5
    <2> QED
      BY <1>4, <1>5, <2>1 DEF FlattenSeq, Joined
  <1>6. CASE n # 0
    <2> DEFINE F(f, i) == IF i = 1 THEN lists[i] ELSE f[i - 1] \o lists[i]
               f == CHOOSE f : f = [i \in 1..n |-> F(f, i)]
               g == [i \in 1..n |-> w[i]]
    <2>1. FlattenSeq(lists) = f[n]
      BY <1>6 DEF FlattenSeq
    <2>2. w[1] = lists[1]
      <3>1. 1 \in 1..n /\ lists[1] \in Seq(E)
        BY <1>0, <1>6
      <3>2. w[1] = w[0] \o lists[1] /\ w[0] = <<>>
        <4>1. w[1] = w[1 - 1] \o lists[1]
          BY <1>4, <3>1 DEF Joined
        <4>2. 1 - 1 = 0
          OBVIOUS
        <4> QED
          BY <1>4, <4>1, <4>2 DEF Joined
      <3> QED
        BY <3>1, <3>2
    <2>3. g = [i \in 1..n |-> F(g, i)]
      <3>1. ASSUME NEW i \in 1..n PROVE w[i] = F(g, i)
        <4>1. CASE i = 1
          BY <2>2, <4>1
        <4>2. CASE i # 1
          <5>1. i - 1 \in 1..n
            BY <1>0, <4>2
          <5>2. w[i] = w[i - 1] \o lists[i]
            BY <1>4 DEF Joined
          <5> QED
            BY <4>2, <5>1, <5>2
        <4> QED
          BY <4>1, <4>2
      <3> HIDE DEF F
      <3> QED
        BY <3>1
    <2>4. f = [i \in 1..n |-> F(f, i)]
      <3> HIDE DEF F, g
      <3> QED
        BY <2>3
    <2> HIDE DEF f
    <2> DEFINE S == {k \in 0..n : k # 0 => f[k] = w[k]}
    <2>5. 0 \in S
      BY <1>0
    <2>6. ASSUME NEW k \in 1..n, k - 1 \in S PROVE k \in S
      <3>1. f[k] = F(f, k) /\ k \in 0..n
        <4>1. \A i \in 1..n : f[i] = F(f, i)
          <5> HIDE DEF F
          <5> QED
            BY <2>4
        <4> QED
          BY <1>0, <4>1
      <3>2. CASE k = 1
        BY <2>2, <3>1, <3>2
      <3>3. CASE k # 1
        <4>1. f[k - 1] = w[k - 1]
          BY <1>0, <2>6, <3>3
        <4>2. w[k] = w[k - 1] \o lists[k]
          BY <1>4 DEF Joined
        <4> QED
          BY <3>1, <3>3, <4>1, <4>2
      <3> QED
        BY <3>2, <3>3
    <2> HIDE DEF S
    <2>7. \A k \in 0..n : k \in S
      BY <1>0, <2>5, <2>6, AllPlaces
    <2>8. f[n] = w[n]
      BY <1>0, <1>6, <2>7 DEF S
    <2> QED
      BY <1>4, <2>1, <2>8
  <1> QED
    BY <1>5, <1>6

\* What the first k lists come to has just their members, and stands at the head
\* of what more of them come to.
JoinedUpTo(w, lists, k) ==
  /\ \A a \in 1..Len(w[k]) : \E g \in 1..k : w[k][a] \in ToSet(lists[g])
  /\ \A g \in 1..k : \A e \in ToSet(lists[g]) : \E a \in 1..Len(w[k]) : w[k][a] = e
  /\ \A h \in 0..k : Len(w[h]) <= Len(w[k]) /\ \A a \in 1..Len(w[h]) : w[k][a] = w[h][a]

LEMMA JoinedIsExact ==
  ASSUME NEW E, NEW lists \in Seq(Seq(E)), NEW w, Joined(w, lists, E)
  PROVE  \A k \in 0..Len(lists) : JoinedUpTo(w, lists, k)
  <1> DEFINE n == Len(lists)
             S == {k \in 0..n : JoinedUpTo(w, lists, k)}
  <1>0. n \in Nat /\ \A k \in 0..n : w[k] \in Seq(E) /\ Len(w[k]) \in Nat
    BY DEF Joined
  <1>1. 0 \in S
    <2>1. w[0] = <<>>
      BY DEF Joined
    <2>2. JoinedUpTo(w, lists, 0)
      BY <2>1 DEF JoinedUpTo
    <2> QED
      BY <1>0, <2>2
  <1>2. ASSUME NEW k \in 1..n, k - 1 \in S PROVE k \in S
    <2> DEFINE x == w[k - 1]
               y == lists[k]
               z == w[k]
    <2>1. x \in Seq(E) /\ y \in Seq(E) /\ k - 1 \in 0..n /\ k \in 0..n /\ k \in Nat
      BY <1>0
    <2>2. z = x \o y
      BY DEF Joined
    <2>3. JoinedUpTo(w, lists, k - 1)
      BY <1>2
    <2>4. /\ Len(x) \in Nat /\ Len(y) \in Nat /\ Len(z) = Len(x) + Len(y)
          /\ \A a \in 1..Len(x) : z[a] = x[a]
          /\ \A b \in 1..Len(y) : z[Len(x) + b] = y[b]
      <3> HIDE DEF x, y, z
      <3>1. Len(x) \in Nat /\ Len(y) \in Nat
        BY <2>1
      <3>2. Len(x \o y) = Len(x) + Len(y) /\ \A a \in 1..(Len(x) + Len(y)) :
              (x \o y)[a] = IF a <= Len(x) THEN x[a] ELSE y[a - Len(x)]
        BY <2>1, ConcatProperties
      <3>3. ASSUME NEW a \in 1..Len(x) PROVE z[a] = x[a]
        BY <2>2, <3>1, <3>2
      <3>4. ASSUME NEW b \in 1..Len(y) PROVE z[Len(x) + b] = y[b]
        <4>1. /\ Len(x) + b \in 1..(Len(x) + Len(y))
              /\ ~(Len(x) + b <= Len(x)) /\ Len(x) + b - Len(x) = b
          BY <3>1
        <4> QED
          BY <2>2, <3>2, <4>1
      <3> QED
        BY <2>2, <3>1, <3>2, <3>3, <3>4
    <2> HIDE DEF x, y, z
    <2>5. \A g \in 1..k : g = k \/ g \in 1..(k - 1)
      BY <2>1
    <2>6. \A g \in 1..(k - 1) : g \in 1..k
      BY <2>1
    <2>7. k \in 1..k
      BY <2>1
    <2>8. \A e : e \in ToSet(y) <=> \E b \in 1..Len(y) : y[b] = e
      BY <2>1 DEF ToSet
    <2>9. \A a \in 1..Len(z) : a \in 1..Len(x) \/ \E b \in 1..Len(y) : a = Len(x) + b
      <3> SUFFICES ASSUME NEW a \in 1..Len(z), a \notin 1..Len(x)
                   PROVE  \E b \in 1..Len(y) : a = Len(x) + b
        OBVIOUS
      <3> DEFINE b == a - Len(x)
      <3>1. b \in 1..Len(y) /\ a = Len(x) + b
        BY <2>4
      <3> HIDE DEF b
      <3> QED
        BY <3>1
    <2>10. \A a \in 1..Len(x) : a \in 1..Len(z)
      BY <2>4
    <2>11. \A b \in 1..Len(y) : Len(x) + b \in 1..Len(z)
      BY <2>4
    <2>12. /\ \A a \in 1..Len(x) : \E g \in 1..(k - 1) : x[a] \in ToSet(lists[g])
           /\ \A g \in 1..(k - 1) : \A e \in ToSet(lists[g]) : \E a \in 1..Len(x) : x[a] = e
           /\ \A h \in 0..(k - 1) : Len(w[h]) <= Len(x) /\ \A a \in 1..Len(w[h]) : x[a] = w[h][a]
      BY <2>3 DEF JoinedUpTo, x
    <2>13. ASSUME NEW a \in 1..Len(z) PROVE \E g \in 1..k : z[a] \in ToSet(lists[g])
      <3>1. CASE a \in 1..Len(x)
        <4>1. PICK g \in 1..(k - 1) : x[a] \in ToSet(lists[g])
          BY <2>12, <3>1
        <4> QED
          BY <2>4, <2>6, <3>1, <4>1
      <3>2. CASE a \notin 1..Len(x)
        <4>1. PICK b \in 1..Len(y) : a = Len(x) + b
          BY <2>9, <3>2
        <4> QED
          BY <2>4, <2>7, <2>8, <4>1 DEF y
      <3> QED
        BY <3>1, <3>2
    <2>14. ASSUME NEW g \in 1..k, NEW e \in ToSet(lists[g]) PROVE \E a \in 1..Len(z) : z[a] = e
      <3>1. CASE g = k
        <4>1. PICK b \in 1..Len(y) : y[b] = e
          BY <2>8, <2>14, <3>1 DEF y
        <4> QED
          BY <2>4, <2>11, <4>1
      <3>2. CASE g # k
        <4>1. PICK a \in 1..Len(x) : x[a] = e
          BY <2>5, <2>12, <3>2
        <4> QED
          BY <2>4, <2>10, <4>1
      <3> QED
        BY <3>1, <3>2
    <2>15. ASSUME NEW h \in 0..k
           PROVE  Len(w[h]) <= Len(z) /\ \A a \in 1..Len(w[h]) : z[a] = w[h][a]
      <3>1. CASE h = k
        BY <2>4, <3>1 DEF z
      <3>2. CASE h # k
        <4>1. h \in 0..(k - 1) /\ h \in 0..n
          BY <2>1, <3>2
        <4>2. Len(w[h]) \in Nat /\ Len(w[h]) <= Len(x) /\ \A a \in 1..Len(w[h]) : x[a] = w[h][a]
          BY <1>0, <2>12, <4>1
        <4>3. Len(w[h]) <= Len(z) /\ \A a \in 1..Len(w[h]) : a \in 1..Len(x)
          BY <2>4, <4>2
        <4> QED
          BY <2>4, <4>2, <4>3
      <3> QED
        BY <3>1, <3>2
    <2>16. JoinedUpTo(w, lists, k)
      BY <2>13, <2>14, <2>15 DEF JoinedUpTo, z
    <2> QED
      BY <2>1, <2>16
  <1> HIDE DEF S
  <1>3. \A k \in 0..n : k \in S
    BY <1>0, <1>1, <1>2, AllPlaces
  <1> QED
    BY <1>3 DEF S

\* What a group needs: its own chunks and those its segments point into, each
\* once.
LEMMA NeedsAreExact ==
  ASSUME NEW E, NEW own \in Seq(E), NEW segments \in Seq(E)
  PROVE  /\ NeedsOf(own, segments) \in Seq(E)
         /\ \A i, j \in DOMAIN NeedsOf(own, segments) :
              NeedsOf(own, segments)[i] = NeedsOf(own, segments)[j] => i = j
         /\ ToSet(NeedsOf(own, segments)) = ToSet(own) \cup ToSet(segments)
  <1> DEFINE s == own \o segments
             out == NeedsOf(own, segments)
  <1>1. s \in Seq(E)
    OBVIOUS
  <1>2. out \in Seq(E) /\ Collected(out, s, Len(s))
    BY <1>1, AddsAreExact DEF NeedsOf
  <1>3. ToSet(s) = ToSet(own) \cup ToSet(segments)
    <2> DEFINE n == Len(own)
               m == Len(segments)
    <2>1. /\ n \in Nat /\ m \in Nat /\ Len(s) = n + m
          /\ \A a \in 1..(n + m) : s[a] = IF a <= n THEN own[a] ELSE segments[a - n]
      BY ConcatProperties
    <2>2. DOMAIN s = 1..(n + m) /\ DOMAIN own = 1..n /\ DOMAIN segments = 1..m
      BY <1>1, <2>1
    <2> HIDE DEF n, m, s
    <2>3. ASSUME NEW a \in 1..(n + m) PROVE s[a] \in ToSet(own) \cup ToSet(segments)
      <3>1. CASE a <= n
        <4>1. a \in 1..n /\ s[a] = own[a]
          BY <2>1, <3>1
        <4> QED
          BY <2>2, <4>1 DEF ToSet
      <3>2. CASE ~(a <= n)
        <4>1. a - n \in 1..m /\ s[a] = segments[a - n]
          BY <2>1, <3>2
        <4> QED
          BY <2>2, <4>1 DEF ToSet
      <3> QED
        BY <3>1, <3>2
    <2>4. ASSUME NEW a \in 1..n PROVE own[a] \in ToSet(s)
      <3>1. a \in 1..(n + m) /\ s[a] = own[a]
        BY <2>1
      <3> QED
        BY <2>2, <3>1 DEF ToSet
    <2>5. ASSUME NEW b \in 1..m PROVE segments[b] \in ToSet(s)
      <3>1. n + b \in 1..(n + m) /\ ~(n + b <= n) /\ n + b - n = b
        BY <2>1
      <3>2. s[n + b] = segments[b]
        BY <2>1, <3>1
      <3> QED
        BY <2>2, <3>1, <3>2 DEF ToSet
    <2> QED
      BY <2>2, <2>3, <2>4, <2>5 DEF ToSet
  <1>4. DOMAIN out = 1..Len(out) /\ DOMAIN s = 1..Len(s)
    BY <1>1, <1>2
  <1> HIDE DEF out, s
  <1>5. ToSet(out) = ToSet(s)
    <2>1. ToSet(out) \subseteq ToSet(s)
      BY <1>2, <1>4 DEF Collected, ToSet
    <2>2. ToSet(s) \subseteq ToSet(out)
      <3>1. ASSUME NEW a \in 1..Len(s) PROVE s[a] \in ToSet(out)
        BY <1>2, <1>4 DEF Collected, ToSet
      <3> QED
        BY <1>4, <3>1 DEF ToSet
    <2> QED
      BY <2>1, <2>2
  <1> QED
    BY <1>2, <1>3, <1>4, <1>5 DEF Collected, out

\* A group in which the chunk is needed, and none after it, is the last one.
LEMMA LastIsOne ==
  ASSUME NEW needs, DOMAIN needs \in SUBSET Nat, NEW sha, NEW g \in DOMAIN needs,
         sha \in ToSet(needs[g]),
         \A h \in DOMAIN needs : sha \in ToSet(needs[h]) => h <= g
  PROVE  LastNeeding(needs, sha) = g
  <1>1. \A h \in DOMAIN needs :
          (/\ sha \in ToSet(needs[h])
           /\ \A i \in DOMAIN needs : sha \in ToSet(needs[i]) => i <= h) => h = g
    <2> SUFFICES ASSUME NEW h \in DOMAIN needs, sha \in ToSet(needs[h]),
                        \A i \in DOMAIN needs : sha \in ToSet(needs[i]) => i <= h
                 PROVE  h = g
      OBVIOUS
    <2>1. h <= g /\ g <= h /\ h \in Nat /\ g \in Nat
      OBVIOUS
    <2> QED
      BY <2>1
  <1> QED
    BY <1>1 DEF LastNeeding

\* The marks after k groups: for each chunk they need, the last that does.
MarkedUpTo(last, needs, k) ==
  /\ \A sha \in DOMAIN last : /\ last[sha] \in 1..k
                              /\ sha \in ToSet(needs[last[sha]])
  /\ \A g \in 1..k : \A sha \in ToSet(needs[g]) : sha \in DOMAIN last /\ g <= last[sha]

LEMMA LastUseIsExact ==
  ASSUME NEW E, NEW needs \in Seq(Seq(E))
  PROVE  /\ DOMAIN LastUseOf(needs) = UNION {ToSet(needs[g]) : g \in DOMAIN needs}
         /\ \A sha \in DOMAIN LastUseOf(needs) :
              LastUseOf(needs)[sha] = LastNeeding(needs, sha)
  <1> DEFINE n == Len(needs)
  <1>0. n \in Nat /\ DOMAIN needs = 1..n
    OBVIOUS
  <1>1. PICK p :
          /\ p[0] = <<>>
          /\ \A k \in 1..n : p[k] = Mark(needs, p[k - 1], k)
          /\ LastUseOf(needs) = p[n]
    BY FoldOfMarks
  <1> DEFINE S == {k \in 0..n : MarkedUpTo(p[k], needs, k)}
  <1>2. 0 \in S
    <2>1. DOMAIN p[0] = {}
      BY <1>1
    <2>2. MarkedUpTo(p[0], needs, 0)
      BY <2>1 DEF MarkedUpTo
    <2> QED
      BY <1>0, <2>2
  <1>3. ASSUME NEW k \in 1..n, k - 1 \in S PROVE k \in S
    <2> DEFINE old == p[k - 1]
               new == p[k]
    <2>1. MarkedUpTo(old, needs, k - 1) /\ k \in 0..n /\ k \in Nat
      BY <1>0, <1>3
    <2>2. new = Mark(needs, old, k)
      BY <1>1
    <2> HIDE DEF old, new
    <2>3. /\ DOMAIN new = DOMAIN old \cup ToSet(needs[k])
          /\ \A sha \in ToSet(needs[k]) : new[sha] = k
          /\ \A sha \in DOMAIN old : sha \notin ToSet(needs[k]) => new[sha] = old[sha]
      BY <2>2 DEF Mark
    <2>4. \A g \in 1..k : g = k \/ g \in 1..(k - 1)
      BY <2>1
    <2>5. \A g \in 1..(k - 1) : g \in 1..k /\ g <= k
      BY <2>1
    <2>6. k \in 1..k /\ k <= k
      BY <2>1
    <2>7. ASSUME NEW sha \in DOMAIN new
          PROVE  new[sha] \in 1..k /\ sha \in ToSet(needs[new[sha]])
      <3>1. CASE sha \in ToSet(needs[k])
        BY <2>3, <2>6, <3>1
      <3>2. CASE sha \notin ToSet(needs[k])
        <4>1. sha \in DOMAIN old /\ new[sha] = old[sha]
          BY <2>3, <3>2
        <4>2. old[sha] \in 1..(k - 1) /\ sha \in ToSet(needs[old[sha]])
          BY <2>1, <4>1 DEF MarkedUpTo
        <4> QED
          BY <2>5, <4>1, <4>2
      <3> QED
        BY <3>1, <3>2
    <2>8. ASSUME NEW g \in 1..k, NEW sha \in ToSet(needs[g])
          PROVE  sha \in DOMAIN new /\ g <= new[sha]
      <3>1. CASE sha \in ToSet(needs[k])
        BY <2>3, <2>4, <2>5, <2>6, <3>1
      <3>2. CASE sha \notin ToSet(needs[k])
        <4>1. g \in 1..(k - 1)
          BY <2>4, <3>2
        <4>2. sha \in DOMAIN old /\ g <= old[sha]
          BY <2>1, <4>1 DEF MarkedUpTo
        <4> QED
          BY <2>3, <3>2, <4>2
      <3> QED
        BY <3>1, <3>2
    <2>9. MarkedUpTo(new, needs, k)
      BY <2>7, <2>8 DEF MarkedUpTo
    <2> QED
      BY <2>1, <2>9 DEF new
  <1> HIDE DEF S
  <1>4. \A k \in 0..n : k \in S
    BY <1>0, <1>2, <1>3, AllPlaces
  <1>5. MarkedUpTo(LastUseOf(needs), needs, n)
    BY <1>0, <1>1, <1>4 DEF S
  <1> DEFINE last == LastUseOf(needs)
  <1> HIDE DEF last, n
  <1>6. DOMAIN last = UNION {ToSet(needs[g]) : g \in DOMAIN needs}
    <2>1. \A sha \in DOMAIN last : \E g \in DOMAIN needs : sha \in ToSet(needs[g])
      BY <1>0, <1>5 DEF MarkedUpTo, last
    <2>2. \A g \in DOMAIN needs : \A sha \in ToSet(needs[g]) : sha \in DOMAIN last
      BY <1>0, <1>5 DEF MarkedUpTo, last
    <2> QED
      BY <2>1, <2>2
  <1>7. ASSUME NEW sha \in DOMAIN last PROVE last[sha] = LastNeeding(needs, sha)
    <2>1. last[sha] \in DOMAIN needs /\ sha \in ToSet(needs[last[sha]])
      BY <1>0, <1>5, <1>7 DEF MarkedUpTo, last
    <2>2. \A h \in DOMAIN needs : sha \in ToSet(needs[h]) => h <= last[sha]
      BY <1>0, <1>5 DEF MarkedUpTo, last
    <2>3. DOMAIN needs \in SUBSET Nat
      BY <1>0
    <2> QED
      BY <2>1, <2>2, <2>3, LastIsOne
  <1> QED
    BY <1>6, <1>7 DEF last

\* The order: the lists joined, each chunk once, where it came first.
LEMMA OrderIsExact ==
  ASSUME NEW E, NEW needs \in Seq(Seq(E))
  PROVE  /\ OrderOf(needs) \in Seq(E)
         /\ IsInjective(OrderOf(needs))
         /\ ToSet(OrderOf(needs)) = UNION {ToSet(needs[g]) : g \in DOMAIN needs}
         /\ \A i, j \in DOMAIN OrderOf(needs) : i < j =>
              \A h \in DOMAIN needs : OrderOf(needs)[j] \in ToSet(needs[h]) =>
                \E g \in 1..h : OrderOf(needs)[i] \in ToSet(needs[g])
  <1> DEFINE n == Len(needs)
             s == FlattenSeq(needs)
             out == OrderOf(needs)
  <1>0. n \in Nat /\ DOMAIN needs = 1..n
    OBVIOUS
  <1>1. PICK w : Joined(w, needs, E) /\ s = w[n]
    BY ListsAreJoined
  <1>2. s \in Seq(E)
    BY <1>0, <1>1 DEF Joined
  <1>3. \A k \in 0..n : JoinedUpTo(w, needs, k)
    BY <1>1, JoinedIsExact
  <1>4. out \in Seq(E) /\ Collected(out, s, Len(s))
    BY <1>2, AddsAreExact DEF OrderOf
  <1>5. DOMAIN out = 1..Len(out) /\ Len(s) \in Nat
    BY <1>2, <1>4
  <1>6. /\ \A a \in 1..Len(s) : \E g \in 1..n : s[a] \in ToSet(needs[g])
        /\ \A g \in 1..n : \A e \in ToSet(needs[g]) : \E a \in 1..Len(s) : s[a] = e
        /\ \A h \in 0..n : Len(w[h]) <= Len(s) /\ \A a \in 1..Len(w[h]) : s[a] = w[h][a]
    <2>1. JoinedUpTo(w, needs, n)
      BY <1>0, <1>3
    <2> HIDE DEF s, n
    <2> QED
      BY <1>1, <2>1 DEF JoinedUpTo
  <1> HIDE DEF n, s, out
  <1>7. ToSet(out) = UNION {ToSet(needs[g]) : g \in DOMAIN needs}
    <2>1. ASSUME NEW i \in 1..Len(out) PROVE \E g \in DOMAIN needs : out[i] \in ToSet(needs[g])
      <3>1. PICK a \in 1..Len(s) : s[a] = out[i]
        BY <1>4 DEF Collected
      <3> QED
        BY <1>0, <1>6, <3>1
    <2>2. ASSUME NEW g \in DOMAIN needs, NEW e \in ToSet(needs[g]) PROVE e \in ToSet(out)
      <3>1. PICK a \in 1..Len(s) : s[a] = e
        BY <1>0, <1>6
      <3>2. PICK i \in 1..Len(out) : out[i] = e
        BY <1>4, <3>1 DEF Collected
      <3> QED
        BY <1>5, <3>2 DEF ToSet
    <2>3. \A x \in ToSet(out) : \E g \in DOMAIN needs : x \in ToSet(needs[g])
      BY <1>5, <2>1 DEF ToSet
    <2> QED
      BY <2>2, <2>3
  <1>8. ASSUME NEW i \in 1..Len(out), NEW j \in 1..Len(out), i < j,
               NEW h \in 1..n, out[j] \in ToSet(needs[h])
        PROVE  \E g \in 1..h : out[i] \in ToSet(needs[g])
    <2>1. h \in 0..n /\ h \in Nat /\ h \in 1..h
      BY <1>0
    <2>2. JoinedUpTo(w, needs, h)
      BY <1>3, <2>1
    <2>3. w[h] \in Seq(E)
      BY <1>1, <2>1 DEF Joined, n
    <2>4. PICK b \in 1..Len(w[h]) : w[h][b] = out[j]
      BY <1>8, <2>1, <2>2 DEF JoinedUpTo
    <2>5. b \in 1..Len(s) /\ s[b] = out[j]
      BY <1>5, <1>6, <2>1, <2>3, <2>4
    <2>6. PICK a \in 1..b : s[a] = out[i]
      BY <1>4, <1>8, <2>5 DEF Collected
    <2>7. a \in 1..Len(w[h])
      BY <2>3, <2>4, <2>6
    <2>8. w[h][a] = out[i]
      BY <1>6, <2>1, <2>6, <2>7
    <2> QED
      BY <2>2, <2>7, <2>8 DEF JoinedUpTo
  <1>9. IsInjective(out)
    BY <1>4, <1>5 DEF Collected, IsInjective
  <1> QED
    BY <1>0, <1>4, <1>5, <1>7, <1>8, <1>9 DEF out

\* A manifest's groups: lists of chunk names.
PlanGroups(Names) == Seq([own : Seq(Names), segments : Seq(Names)])

\* For any groups over any names, shared, tied or repeated in any way, the walk
\* of plan.ts comes to the plan it should: each group needs what it owns and
\* points into, the order has every chunk once and none before one that only
\* earlier groups need, and a chunk may be dropped after just its last use. So
\* the lists StreamLoad is given are what StreamAssumption says.
THEOREM PlansAreExact ==
  ASSUME NEW Names, NEW groups \in PlanGroups(Names)
  PROVE  PlanIsExact(groups, LoadPlanOf(groups))
  <1> DEFINE needs == [g \in DOMAIN groups |-> NeedsOf(groups[g].own, groups[g].segments)]
             plan == LoadPlanOf(groups)
  <1>1. \A g \in DOMAIN groups : groups[g].own \in Seq(Names) /\ groups[g].segments \in Seq(Names)
    <2>1. ASSUME NEW g \in DOMAIN groups
          PROVE  groups[g] \in [own : Seq(Names), segments : Seq(Names)]
      <3> DEFINE R == [own : Seq(Names), segments : Seq(Names)]
      <3>1. groups \in Seq(R)
        BY DEF PlanGroups
      <3> HIDE DEF R
      <3>2. groups[g] \in R
        BY <3>1
      <3> QED
        BY <3>2 DEF R
    <2> QED
      BY <2>1
  <1>2. ASSUME NEW g \in DOMAIN groups
        PROVE  /\ needs[g] \in Seq(Names)
               /\ IsInjective(needs[g])
               /\ ToSet(needs[g]) = ToSet(groups[g].own) \cup ToSet(groups[g].segments)
    BY <1>1, NeedsAreExact DEF IsInjective
  <1>3. needs \in Seq(Seq(Names)) /\ DOMAIN needs = DOMAIN groups
    <2>1. Len(groups) \in Nat /\ DOMAIN groups = 1..Len(groups)
      BY DEF PlanGroups
    <2>2. needs \in [1..Len(groups) -> Seq(Names)]
      BY <1>2, <2>1
    <2> HIDE DEF needs
    <2> QED
      BY <2>1, <2>2
  <1>4. plan = [needs |-> needs, order |-> OrderOf(needs), lastUse |-> LastUseOf(needs)]
    BY DEF LoadPlanOf
  <1>5. plan.needs = needs /\ plan.order = OrderOf(needs) /\ plan.lastUse = LastUseOf(needs)
    BY <1>4
  <1> HIDE DEF needs, plan
  <1>6. UNION {ToSet(needs[g]) : g \in DOMAIN needs} =
        UNION {ToSet(groups[g].own) \cup ToSet(groups[g].segments) : g \in DOMAIN groups}
    BY <1>2, <1>3
  <1>7. NeedsAreTheGroups(groups, plan)
    BY <1>2, <1>5 DEF NeedsAreTheGroups
  <1>8. OrderCoversPlan(groups, plan)
    <2> DEFINE order == OrderOf(needs)
    <2>1. IsInjective(order) /\ ToSet(order) = UNION {ToSet(needs[g]) : g \in DOMAIN needs}
      BY <1>3, OrderIsExact
    <2>2. \A i, j \in DOMAIN order : i < j =>
            \A h \in DOMAIN needs : order[j] \in ToSet(needs[h]) =>
              \E g \in 1..h : order[i] \in ToSet(needs[g])
      BY <1>3, OrderIsExact
    <2>3. plan.order = order /\ plan.needs = needs
      BY <1>5
    <2> HIDE DEF order
    <2> QED
      BY <1>3, <1>6, <2>1, <2>2, <2>3 DEF OrderCoversPlan
  <1>9. MarksLastUse(plan)
    BY <1>3, <1>5, OrderIsExact, LastUseIsExact DEF MarksLastUse
  <1> QED
    BY <1>7, <1>8, <1>9 DEF PlanIsExact, plan

-----------------------------------------------------------------------------
(***************************************************************************)
(* Planner                                                                 *)
(***************************************************************************)

Measured == Nat \cup {Unknown}

\* What plan() may be given: any model of at least one block, any measurement,
\* known or not, and any policy. The floor is a fraction below one, as the code
\* clamps it.
PlannerInputs ==
  {in \in [kind : {"split"}, L : Nat \ {0}, blockBytes : Seq(Nat), embedBytes : Nat,
           headGpuBytes : Nat, headDownloadBytes : Nat, kvBytes : Nat, workspaceBytes : Nat,
           maxEntry : Nat, floor : [p : Nat, q : Nat], webgpu : BOOLEAN, maxBuffer : Measured,
           gpuBudget : Nat, msT1 : Measured, headMs : Measured, exportMs : Nat,
           cachedBlocks : Nat, embedCached : BOOLEAN, bandwidth : Measured, rtt : Measured,
           reachable : BOOLEAN, serverL : Measured, serverMs : Measured,
           serverHeadMs : Measured, prefer : Preferences, maxLoad : Measured,
           maxShare : Measured, requireLocal : BOOLEAN, samplingMs : Nat] :
     /\ Len(in.blockBytes) = in.L
     /\ in.cachedBlocks <= in.L
     /\ in.floor.p < in.floor.q}

LEMMA CandidatesAre ==
  ASSUME NEW L \in Nat \ {0}, NEW c \in Candidates(L)
  PROVE  /\ c.mode \in {"server", "split", "local"} /\ c.N \in 0..L
         /\ c = [mode |-> c.mode, N |-> c.N]
         /\ c.mode = "server" <=> c.N = 0
         /\ c.mode = "local" => c.N = L
  BY DEF Candidates

\* Two candidates of as many blocks are the same, or one of them is local.
LEMMA SameSplit ==
  ASSUME NEW L \in Nat \ {0}, NEW c \in Candidates(L), NEW d \in Candidates(L), c.N = d.N
  PROVE  c = d \/ (c.mode = "local" /\ d.mode = "split") \/ (c.mode = "split" /\ d.mode = "local")
  <1>1. c.mode = d.mode => c = d
    BY CandidatesAre
  <1>2. c.mode \in {"server", "split", "local"} /\ d.mode \in {"server", "split", "local"}
    BY CandidatesAre
  <1>3. (c.mode = "server" <=> c.N = 0) /\ (d.mode = "server" <=> d.N = 0)
    BY CandidatesAre
  <1> QED
    BY <1>1, <1>2, <1>3

\* The server's share falls as the client's blocks grow, and a local run has none.
LEMMA ShareFalls ==
  ASSUME NEW in \in PlannerInputs, NEW c \in Candidates(in.L), NEW d \in Candidates(in.L)
  PROVE  /\ ServerShare(in, c) \in Nat
         /\ c.mode = "local" => ServerShare(in, c) = 0
         /\ "local" \notin {c.mode, d.mode} /\ d.N <= c.N =>
             ServerShare(in, c) <= ServerShare(in, d)
  <1> DEFINE k == in.floor.q - in.floor.p
             e == in.floor.p * in.L
             x == in.L - c.N
             y == in.L - d.N
  <1>1. in.L \in Nat \ {0} /\ in.floor.p \in Nat /\ in.floor.q \in Nat /\ in.floor.p < in.floor.q
    BY DEF PlannerInputs
  <1>2. c.N \in 0..in.L /\ d.N \in 0..in.L
    BY <1>1, CandidatesAre
  <1>3. k \in Nat /\ e \in Nat /\ x \in Nat /\ y \in Nat /\ (d.N <= c.N => x <= y)
    BY <1>1, <1>2
  <1>4. /\ c.mode # "local" => ServerShare(in, c) = x * k + e
        /\ d.mode # "local" => ServerShare(in, d) = y * k + e
        /\ c.mode = "local" => ServerShare(in, c) = 0
    BY DEF ServerShare
  <1> HIDE DEF k, e, x, y
  <1>5. x * k \in Nat /\ y * k \in Nat
    BY <1>3
  <1>6. x <= y => x * k <= y * k
    <2> SUFFICES ASSUME x <= y PROVE x * k <= y * k
      OBVIOUS
    <2>1. y - x \in Nat /\ y = x + (y - x)
      BY <1>3
    <2>2. PICK z \in Nat : y = x + z
      BY <2>1
    <2>3. y * k = x * k + z * k /\ z * k \in Nat
      BY <1>3, <2>2
    <2> QED
      BY <1>5, <2>3
  <1> QED
    BY <1>3, <1>4, <1>5, <1>6

LEMMA TimesAreMeasured ==
  ASSUME NEW in \in PlannerInputs, NEW c \in Candidates(in.L)
  PROVE  MsPerToken(in, c) \in Measured
  <1> DEFINE client == IF c.N = 0 THEN 0 ELSE IF Known(in.msT1) THEN in.msT1 * c.N ELSE Unknown
             export == IF c.N = 0 THEN 0 ELSE in.exportMs
             server == IF Known(in.serverL) /\ Known(in.serverMs) /\ Known(in.serverHeadMs)
                       THEN in.serverMs * (in.L - c.N) + in.serverHeadMs ELSE Unknown
  <1>1. c.N \in 0..in.L /\ in.L \in Nat \ {0} /\ in.L - c.N \in Nat /\ c.N \in Nat
    <2>1. in.L \in Nat \ {0}
      BY DEF PlannerInputs
    <2> QED
      BY <2>1, CandidatesAre
  <1>2. /\ in.msT1 \in Measured /\ in.headMs \in Measured /\ in.rtt \in Measured
        /\ in.serverMs \in Measured /\ in.serverHeadMs \in Measured /\ in.exportMs \in Nat
        /\ in.samplingMs \in Nat /\ in.headGpuBytes \in Nat /\ in.blockBytes \in Seq(Nat)
        /\ Len(in.blockBytes) = in.L
    BY DEF PlannerInputs
  <1>3. \A a, b \in Nat : a * b \in Nat
    OBVIOUS
  <1>4. client \in Measured
    BY <1>1, <1>2, <1>3 DEF Measured, Known
  <1>5. server \in Measured /\ export \in Nat
    <2>1. CASE Known(in.serverMs) /\ Known(in.serverHeadMs)
      <3>1. in.serverMs \in Nat /\ in.serverHeadMs \in Nat
        BY <1>2, <2>1 DEF Measured, Known
      <3>2. in.serverMs * (in.L - c.N) \in Nat
        BY <1>1, <1>3, <3>1
      <3> QED
        BY <1>2, <3>1, <3>2 DEF Measured
    <2>2. CASE ~(Known(in.serverMs) /\ Known(in.serverHeadMs))
      BY <1>2, <2>2 DEF Measured
    <2> QED
      BY <2>1, <2>2
  <1>6. ClientHeadMs(in) \in Measured
    <2>1. CASE Known(in.headMs)
      BY <1>2, <2>1 DEF ClientHeadMs
    <2>2. CASE ~Known(in.headMs) /\ Known(in.msT1) /\ in.blockBytes[1] > 0
      <3>1. in.msT1 \in Nat /\ in.blockBytes[1] \in Nat \ {0}
        BY <1>1, <1>2, <2>2 DEF Measured, Known
      <3>2. in.msT1 * in.headGpuBytes \in Nat
        BY <1>2, <1>3, <3>1
      <3>3. ClientHeadMs(in) = (in.msT1 * in.headGpuBytes) \div in.blockBytes[1]
        BY <2>2 DEF ClientHeadMs
      <3>4. \A a \in Nat, b \in Nat \ {0} : a \div b \in Nat
        OBVIOUS
      <3> QED
        BY <3>1, <3>2, <3>3, <3>4 DEF Measured
    <2>3. CASE ~Known(in.headMs) /\ ~(Known(in.msT1) /\ in.blockBytes[1] > 0)
      BY <2>3 DEF ClientHeadMs, Measured
    <2> QED
      BY <2>1, <2>2, <2>3
  <1>7. MsPerToken(in, c) =
          IF c.mode = "local"
          THEN IF Known(client) /\ Known(ClientHeadMs(in))
               THEN client + ClientHeadMs(in) + in.samplingMs ELSE Unknown
          ELSE IF Known(client) /\ Known(server) /\ Known(in.rtt)
               THEN client + export + in.rtt + server ELSE Unknown
    BY DEF MsPerToken
  <1> HIDE DEF client, export, server
  <1>8. \A m \in Measured : Known(m) => m \in Nat
    BY DEF Measured, Known
  <1>9. \A a, b, x, y \in Nat : a + b \in Nat /\ a + b + x \in Nat /\ a + b + x + y \in Nat
    OBVIOUS
  <1>10. CASE c.mode = "local" /\ Known(client) /\ Known(ClientHeadMs(in))
    <2>1. client \in Nat /\ ClientHeadMs(in) \in Nat
      BY <1>4, <1>6, <1>8, <1>10
    <2> QED
      BY <1>2, <1>7, <1>9, <1>10, <2>1 DEF Measured
  <1>11. CASE c.mode # "local" /\ Known(client) /\ Known(server) /\ Known(in.rtt)
    <2>1. client \in Nat /\ server \in Nat /\ in.rtt \in Nat
      BY <1>2, <1>4, <1>5, <1>8, <1>11
    <2>2. client + export + in.rtt + server \in Nat
      BY <1>5, <1>9, <2>1
    <2> QED
      BY <1>7, <1>11, <2>2 DEF Measured
  <1>12. CASE MsPerToken(in, c) = Unknown
    BY <1>12 DEF Measured
  <1> QED
    BY <1>7, <1>10, <1>11, <1>12

LEMMA MinIsFirst ==
  ASSUME NEW S \in SUBSET Nat, NEW i \in S, \A j \in S : i <= j
  PROVE  Min(S) = i
  <1>1. \A x \in S : (\A y \in S : x <= y) => x = i
    <2> SUFFICES ASSUME NEW x \in S, \A y \in S : x <= y PROVE x = i
      OBVIOUS
    <2>1. x <= i /\ i <= x /\ x \in Nat /\ i \in Nat
      OBVIOUS
    <2> QED
      BY <2>1
  <1> QED
    BY <1>1 DEF Min

LEMMA FirstOfThem ==
  ASSUME NEW n \in Nat, NEW alternatives, DOMAIN alternatives = 1..n
  PROVE  /\ (\A i \in 1..n : alternatives[i] = {}) => FirstOf(alternatives) = {}
         /\ \A i \in 1..n :
              alternatives[i] # {} /\ (\A j \in 1..(i - 1) : alternatives[j] = {})
                => FirstOf(alternatives) = alternatives[i]
  <1> DEFINE found == {i \in DOMAIN alternatives : alternatives[i] # {}}
  <1>1. FirstOf(alternatives) = IF found = {} THEN {} ELSE alternatives[Min(found)]
    BY DEF FirstOf
  <1>2. ASSUME NEW i \in 1..n, alternatives[i] # {}, \A j \in 1..(i - 1) : alternatives[j] = {}
        PROVE  FirstOf(alternatives) = alternatives[i]
    <2>1. i \in found /\ found \in SUBSET Nat
      BY <1>2
    <2>2. \A j \in found : i <= j
      BY <1>2
    <2>3. Min(found) = i
      <3> HIDE DEF found
      <3> QED
        BY <2>1, <2>2, MinIsFirst
    <2> QED
      BY <1>1, <2>1, <2>3
  <1> QED
    BY <1>1, <1>2

\* The largest of some candidates without local is one, and the fastest of some
\* whose times are known is one, once local has given way to a split as fast.
LEMMA LargestIsOne ==
  ASSUME NEW L \in Nat \ {0}, NEW S \in SUBSET Candidates(L), S # {},
         \A c \in S : c.mode # "local"
  PROVE  \E c \in S : /\ {x \in S : \A d \in S : d.N <= x.N} = {c}
                      /\ \A d \in S : d.N <= c.N
  <1>1. \A c \in S : c.N \in 0..L
    BY CandidatesAre
  <1>2. PICK c \in S : \A d \in S : d.N <= c.N
    <2> DEFINE T == {L - d.N : d \in S}
    <2>1. T \in SUBSET Nat /\ T # {}
      BY <1>1
    <2>2. PICK n \in T : \A m \in T : n <= m
      <3> HIDE DEF T
      <3> QED
        BY <2>1, LeastPlace
    <2>3. PICK c \in S : n = L - c.N
      BY <2>2
    <2>4. ASSUME NEW d \in S PROVE d.N <= c.N
      <3>1. L - c.N <= L - d.N
        BY <2>2, <2>3
      <3> QED
        BY <1>1, <3>1
    <2> QED
      BY <2>4
  <1>3. ASSUME NEW x \in S, \A d \in S : d.N <= x.N PROVE x = c
    <2>1. x.N = c.N
      BY <1>1, <1>2, <1>3
    <2>2. x \in Candidates(L) /\ c \in Candidates(L)
      OBVIOUS
    <2>3. x = c \/ x.mode = "local" \/ c.mode = "local"
      BY <2>1, <2>2, SameSplit
    <2> QED
      BY <2>3
  <1> QED
    BY <1>2, <1>3

LEMMA FastestIsOne ==
  ASSUME NEW in \in PlannerInputs, NEW timed \in SUBSET Candidates(in.L), timed # {},
         \A c \in timed : Known(MsPerToken(in, c)),
         NEW fastest, fastest = {c \in timed : \A d \in timed : ~Earlier(in, d, c)}
  PROVE  \E c \in timed :
           /\ (IF Cardinality(fastest) > 1 THEN {x \in fastest : x.mode # "local"}
               ELSE fastest) = {c}
           /\ \A d \in timed : MsPerToken(in, c) <= MsPerToken(in, d)
  <1>1. in.L \in Nat \ {0}
    BY DEF PlannerInputs
  <1>2. \A c \in timed : c.N \in 0..in.L /\ MsPerToken(in, c) \in Nat
    <2> SUFFICES ASSUME NEW c \in timed PROVE c.N \in 0..in.L /\ MsPerToken(in, c) \in Nat
      OBVIOUS
    <2>1. c \in Candidates(in.L)
      OBVIOUS
    <2>2. MsPerToken(in, c) \in Measured /\ Known(MsPerToken(in, c))
      BY <2>1, TimesAreMeasured
    <2>3. c.N \in 0..in.L
      BY <1>1, <2>1, CandidatesAre
    <2> QED
      BY <2>2, <2>3 DEF Measured, Known
  <1>3. PICK t \in Nat : /\ \E c \in timed : MsPerToken(in, c) = t
                         /\ \A d \in timed : t <= MsPerToken(in, d)
    <2> DEFINE T == {MsPerToken(in, c) : c \in timed}
    <2>1. T \in SUBSET Nat /\ T # {}
      BY <1>2
    <2>2. PICK n \in T : \A m \in T : n <= m
      <3> HIDE DEF T
      <3> QED
        BY <2>1, LeastPlace
    <2> QED
      BY <2>1, <2>2
  <1>4. PICK n \in 0..in.L : /\ \E c \in timed : MsPerToken(in, c) = t /\ c.N = n
                             /\ \A d \in timed : MsPerToken(in, d) = t => d.N <= n
    <2> DEFINE T == {in.L - c.N : c \in {d \in timed : MsPerToken(in, d) = t}}
    <2>1. T \in SUBSET Nat /\ T # {}
      BY <1>1, <1>2, <1>3
    <2>2. PICK k \in T : \A m \in T : k <= m
      <3> HIDE DEF T
      <3> QED
        BY <2>1, LeastPlace
    <2>3. PICK c \in timed : MsPerToken(in, c) = t /\ k = in.L - c.N
      BY <2>2
    <2>4. ASSUME NEW d \in timed, MsPerToken(in, d) = t PROVE d.N <= c.N
      <3>1. in.L - c.N <= in.L - d.N
        BY <2>2, <2>3, <2>4
      <3> QED
        BY <1>1, <1>2, <3>1
    <2> QED
      BY <1>2, <2>3, <2>4
  <1>5. \A c \in timed : c \in fastest <=> MsPerToken(in, c) = t /\ c.N = n
    <2> SUFFICES ASSUME NEW c \in timed
                 PROVE  c \in fastest <=> MsPerToken(in, c) = t /\ c.N = n
      OBVIOUS
    <2>1. ASSUME MsPerToken(in, c) = t, c.N = n PROVE c \in fastest
      <3> SUFFICES ASSUME NEW d \in timed, Earlier(in, d, c) PROVE FALSE
        OBVIOUS
      <3>1. t <= MsPerToken(in, d) /\ MsPerToken(in, d) \in Nat /\ d.N \in 0..in.L
        BY <1>2, <1>3
      <3>2. MsPerToken(in, d) = t /\ d.N > n
        BY <2>1, <3>1 DEF Earlier
      <3> QED
        BY <1>1, <1>4, <3>1, <3>2
    <2>2. ASSUME c \in fastest PROVE MsPerToken(in, c) = t /\ c.N = n
      <3>1. PICK d \in timed : MsPerToken(in, d) = t /\ d.N = n
        BY <1>4
      <3>2. ~(t < MsPerToken(in, c)) /\ ~(t = MsPerToken(in, c) /\ n > c.N)
        BY <2>2, <3>1 DEF Earlier
      <3>3. t <= MsPerToken(in, c) /\ MsPerToken(in, c) \in Nat /\ c.N \in 0..in.L
        BY <1>2, <1>3
      <3>4. MsPerToken(in, c) = t
        BY <3>2, <3>3
      <3>5. c.N <= n
        BY <1>4, <3>4
      <3> QED
        BY <1>1, <3>2, <3>3, <3>4, <3>5
    <2> QED
      BY <2>1, <2>2
  <1>6. fastest \subseteq timed /\ fastest # {}
    BY <1>4, <1>5
  <1>7. \A a, b \in fastest : a = b \/ (a.mode = "local" /\ b.mode = "split")
                                    \/ (a.mode = "split" /\ b.mode = "local")
    <2> SUFFICES ASSUME NEW a \in fastest, NEW b \in fastest
                 PROVE  a = b \/ (a.mode = "local" /\ b.mode = "split")
                              \/ (a.mode = "split" /\ b.mode = "local")
      OBVIOUS
    <2>1. a \in Candidates(in.L) /\ b \in Candidates(in.L) /\ a.N = b.N
      BY <1>5, <1>6
    <2> QED
      BY <1>1, <2>1, SameSplit
  <1>8. ASSUME NEW c \in fastest,
               (IF Cardinality(fastest) > 1 THEN {x \in fastest : x.mode # "local"}
                ELSE fastest) = {c}
        PROVE  \E x \in timed :
                 /\ (IF Cardinality(fastest) > 1 THEN {y \in fastest : y.mode # "local"}
                     ELSE fastest) = {x}
                 /\ \A d \in timed : MsPerToken(in, x) <= MsPerToken(in, d)
    BY <1>3, <1>5, <1>6, <1>8
  <1>9. PICK a \in fastest : TRUE
    BY <1>6
  <1>10. CASE fastest = {a}
    <2>1. Cardinality(fastest) = 1
      BY <1>10, FS_Singleton
    <2>2. (IF Cardinality(fastest) > 1 THEN {x \in fastest : x.mode # "local"} ELSE fastest) = {a}
      BY <1>10, <2>1
    <2> QED
      BY <1>8, <2>2
  <1>11. CASE fastest # {a}
    <2>1. PICK b \in fastest : b # a
      BY <1>11
    <2>2. PICK c \in {a, b} : c.mode # "local"
      BY <1>7, <2>1
    <2>3. fastest = {a, b}
      BY <1>7, <2>1
    <2>4. Cardinality({a} \cup {b}) = 2
      <3>1. IsFiniteSet({a}) /\ Cardinality({a}) = 1
        BY FS_Singleton
      <3>2. Cardinality({a} \cup {b}) = IF b \in {a} THEN Cardinality({a}) ELSE Cardinality({a}) + 1
        BY <3>1, FS_AddElement
      <3> QED
        BY <2>1, <3>1, <3>2
    <2>5. Cardinality(fastest) = 2
      <3>1. fastest = {a} \cup {b}
        BY <2>3
      <3> QED
        BY <2>4, <3>1
    <2>6. {x \in fastest : x.mode # "local"} = {c}
      BY <1>7, <2>1, <2>2, <2>3
    <2>7. (IF Cardinality(fastest) > 1 THEN {x \in fastest : x.mode # "local"} ELSE fastest) = {c}
      <3>1. Cardinality(fastest) > 1
        BY <2>5
      <3> QED
        BY <2>6, <3>1, Zenon
    <2> QED
      BY <1>8, <2>2, <2>3, <2>7
  <1> QED
    BY <1>10, <1>11

\* The choices plan() makes among what it may choose from.
Allowed(in) == {c \in Candidates(in.L) : Feasible(in, c)}

LocalOf(in) == {c \in Allowed(in) : c.mode = "local"}

ServerOf(in) == {c \in Allowed(in) : c.mode = "server"}

LargestOf(in) == {c \in Allowed(in) \ LocalOf(in) : \A d \in Allowed(in) \ LocalOf(in) : d.N <= c.N}

TimedOf(in) == {c \in Allowed(in) : Known(MsPerToken(in, c))}

ChosenOf(in) ==
  LET fastest == {c \in TimedOf(in) : \A d \in TimedOf(in) : ~Earlier(in, d, c)}
  IN  IF Cardinality(fastest) > 1 THEN fastest \ LocalOf(in) ELSE fastest

LEMMA PickIs ==
  ASSUME NEW in
  PROVE  /\ in.prefer = "server" => Pick(in) = FirstOf(<<ServerOf(in), LocalOf(in), LargestOf(in)>>)
         /\ in.prefer \in {"local", "cost"} => Pick(in) = FirstOf(<<LocalOf(in), LargestOf(in)>>)
         /\ in.prefer = "latency" =>
              Pick(in) = FirstOf(<<ChosenOf(in), LocalOf(in), LargestOf(in), ServerOf(in)>>)
  BY DEF Pick, ServerOf, LocalOf, LargestOf, ChosenOf, TimedOf, Allowed

\* The first alternative that exists, of two, three and four.
LEMMA FirstOfTwo ==
  ASSUME NEW a, NEW b
  PROVE  FirstOf(<<a, b>>) = IF a # {} THEN a ELSE b
  <1> DEFINE s == <<a, b>>
  <1>1. DOMAIN s = 1..2 /\ s[1] = a /\ s[2] = b
    OBVIOUS
  <1>2. /\ 1..(1 - 1) = {} /\ 1..(2 - 1) = {1}
        /\ 1..2 = {1, 2}
    OBVIOUS
  <1> HIDE DEF s
  <1>3. /\ (\A i \in 1..2 : s[i] = {}) => FirstOf(s) = {}
        /\ \A i \in 1..2 : s[i] # {} /\ (\A j \in 1..(i - 1) : s[j] = {}) => FirstOf(s) = s[i]
    BY <1>1, FirstOfThem
  <1>4. FirstOf(s) = IF a # {} THEN a ELSE b
    BY <1>1, <1>2, <1>3
  <1> QED
    BY <1>4 DEF s

LEMMA FirstOfThree ==
  ASSUME NEW a, NEW b, NEW c
  PROVE  FirstOf(<<a, b, c>>) = IF a # {} THEN a ELSE IF b # {} THEN b ELSE c
  <1> DEFINE s == <<a, b, c>>
  <1>1. DOMAIN s = 1..3 /\ s[1] = a /\ s[2] = b /\ s[3] = c
    OBVIOUS
  <1>2. /\ 1..(1 - 1) = {} /\ 1..(2 - 1) = {1} /\ 1..(3 - 1) = {1, 2}
        /\ 1..3 = {1, 2, 3}
    OBVIOUS
  <1> HIDE DEF s
  <1>3. /\ (\A i \in 1..3 : s[i] = {}) => FirstOf(s) = {}
        /\ \A i \in 1..3 : s[i] # {} /\ (\A j \in 1..(i - 1) : s[j] = {}) => FirstOf(s) = s[i]
    BY <1>1, FirstOfThem
  <1>4. FirstOf(s) = IF a # {} THEN a ELSE IF b # {} THEN b ELSE c
    BY <1>1, <1>2, <1>3
  <1> QED
    BY <1>4 DEF s

LEMMA FirstOfFour ==
  ASSUME NEW a, NEW b, NEW c, NEW d
  PROVE  FirstOf(<<a, b, c, d>>) =
           IF a # {} THEN a ELSE IF b # {} THEN b ELSE IF c # {} THEN c ELSE d
  <1> DEFINE s == <<a, b, c, d>>
  <1>1. DOMAIN s = 1..4 /\ s[1] = a /\ s[2] = b /\ s[3] = c /\ s[4] = d
    OBVIOUS
  <1>2. /\ 1..(1 - 1) = {} /\ 1..(2 - 1) = {1} /\ 1..(3 - 1) = {1, 2} /\ 1..(4 - 1) = {1, 2, 3}
        /\ 1..4 = {1, 2, 3, 4}
    OBVIOUS
  <1> HIDE DEF s
  <1>3. /\ (\A i \in 1..4 : s[i] = {}) => FirstOf(s) = {}
        /\ \A i \in 1..4 : s[i] # {} /\ (\A j \in 1..(i - 1) : s[j] = {}) => FirstOf(s) = s[i]
    BY <1>1, FirstOfThem
  <1>4. FirstOf(s) = IF a # {} THEN a ELSE IF b # {} THEN b ELSE IF c # {} THEN c ELSE d
    BY <1>1, <1>2, <1>3
  <1> QED
    BY <1>4 DEF s

\* What every policy falls back to: local, or the largest of the rest, is the
\* one of least server share.
LEMMA LeastShareIsOne ==
  ASSUME NEW in \in PlannerInputs, Allowed(in) # {}
  PROVE  \E c \in Allowed(in) :
           /\ (IF LocalOf(in) # {} THEN LocalOf(in) ELSE LargestOf(in)) = {c}
           /\ \A d \in Allowed(in) : ~(ServerShare(in, d) < ServerShare(in, c))
           /\ c.mode # "local" =>
                \A d \in Allowed(in) : d.mode # "local" /\ d.N <= c.N
  <1>1. in.L \in Nat \ {0} /\ Allowed(in) \subseteq Candidates(in.L)
    BY DEF PlannerInputs, Allowed
  <1>2. \A c, d \in Allowed(in) :
          /\ ServerShare(in, c) \in Nat
          /\ c.mode = "local" => ServerShare(in, c) = 0
          /\ "local" \notin {c.mode, d.mode} /\ d.N <= c.N =>
               ServerShare(in, c) <= ServerShare(in, d)
    <2> SUFFICES ASSUME NEW c \in Allowed(in), NEW d \in Allowed(in)
                 PROVE  /\ ServerShare(in, c) \in Nat
                        /\ c.mode = "local" => ServerShare(in, c) = 0
                        /\ "local" \notin {c.mode, d.mode} /\ d.N <= c.N =>
                             ServerShare(in, c) <= ServerShare(in, d)
      OBVIOUS
    <2>1. c \in Candidates(in.L) /\ d \in Candidates(in.L)
      BY <1>1
    <2> QED
      BY <2>1, ShareFalls
  <1>3. CASE LocalOf(in) # {}
    <2>1. PICK c \in LocalOf(in) : TRUE
      BY <1>3
    <2>2. ASSUME NEW d \in LocalOf(in) PROVE d = c
      <3>1. c \in Candidates(in.L) /\ d \in Candidates(in.L) /\ c.mode = "local" /\ d.mode = "local"
        BY <1>1, <2>1 DEF LocalOf
      <3>2. c.N = in.L /\ d.N = in.L
        BY <1>1, <3>1, CandidatesAre
      <3>3. c = d \/ c.mode = "split" \/ d.mode = "split"
        BY <1>1, <3>1, <3>2, SameSplit
      <3> QED
        BY <3>1, <3>3
    <2>3. LocalOf(in) = {c}
      BY <2>1, <2>2
    <2>4. c \in Allowed(in) /\ c.mode = "local" /\ ServerShare(in, c) = 0
      BY <1>2, <2>1 DEF LocalOf
    <2>5. \A d \in Allowed(in) : ~(ServerShare(in, d) < ServerShare(in, c))
      BY <1>2, <2>4
    <2>6. (IF LocalOf(in) # {} THEN LocalOf(in) ELSE LargestOf(in)) = {c}
      BY <1>3, <2>3, Zenon
    <2> QED
      BY <2>4, <2>5, <2>6
  <1>4. CASE LocalOf(in) = {}
    <2>1. \A c \in Allowed(in) : c.mode # "local"
      BY <1>4 DEF LocalOf
    <2>2. LargestOf(in) = {x \in Allowed(in) : \A d \in Allowed(in) : d.N <= x.N}
      BY <1>4 DEF LargestOf
    <2>3. PICK c \in Allowed(in) :
            /\ {x \in Allowed(in) : \A d \in Allowed(in) : d.N <= x.N} = {c}
            /\ \A d \in Allowed(in) : d.N <= c.N
      BY <1>1, <2>1, LargestIsOne
    <2>4. ASSUME NEW d \in Allowed(in) PROVE ~(ServerShare(in, d) < ServerShare(in, c))
      <3>1. ServerShare(in, c) <= ServerShare(in, d)
        BY <1>2, <2>1, <2>3
      <3>2. ServerShare(in, c) \in Nat /\ ServerShare(in, d) \in Nat
        BY <1>2, <2>3
      <3> QED
        BY <3>1, <3>2
    <2>5. (IF LocalOf(in) # {} THEN LocalOf(in) ELSE LargestOf(in)) = {c}
      BY <1>4, <2>2, <2>3, Zenon
    <2> QED
      BY <2>1, <2>3, <2>4, <2>5
  <1> QED
    BY <1>3, <1>4

\* The answer is one of what is allowed, when there is any, and the policy would
\* not rather have another.
LEMMA ChoiceIsBest ==
  ASSUME NEW in \in PlannerInputs
  PROVE  /\ Allowed(in) = {} => Pick(in) = {}
         /\ Allowed(in) # {} =>
              \E c \in Allowed(in) : /\ Pick(in) = {c}
                                     /\ \A d \in Allowed(in) : ~Rather(in, d, c)
  <1>0. in.prefer \in {"cost", "latency", "local", "server"}
    BY DEF PlannerInputs, Preferences
  <1>1. ASSUME Allowed(in) = {} PROVE Pick(in) = {}
    <2>1. ServerOf(in) = {} /\ LocalOf(in) = {} /\ LargestOf(in) = {} /\ TimedOf(in) = {}
      BY <1>1 DEF ServerOf, LocalOf, LargestOf, TimedOf
    <2>2. ChosenOf(in) = {}
      BY <2>1 DEF ChosenOf
    <2> QED
      <3>1. FirstOf(<<LocalOf(in), LargestOf(in)>>) = {}
        BY <2>1, FirstOfTwo
      <3>2. FirstOf(<<ServerOf(in), LocalOf(in), LargestOf(in)>>) = {}
        BY <2>1, FirstOfThree
      <3>3. FirstOf(<<ChosenOf(in), LocalOf(in), LargestOf(in), ServerOf(in)>>) = {}
        BY <2>1, <2>2, FirstOfFour
      <3> QED
        BY <1>0, <3>1, <3>2, <3>3, PickIs
  <1>2. ASSUME Allowed(in) # {}
        PROVE  \E c \in Allowed(in) : /\ Pick(in) = {c}
                                      /\ \A d \in Allowed(in) : ~Rather(in, d, c)
    <2>1. PICK c \in Allowed(in) :
            /\ (IF LocalOf(in) # {} THEN LocalOf(in) ELSE LargestOf(in)) = {c}
            /\ \A d \in Allowed(in) : ~(ServerShare(in, d) < ServerShare(in, c))
      BY <1>2, LeastShareIsOne
    <2>2. CASE in.prefer \in {"local", "cost"}
      <3>1. Pick(in) = {c}
        <4>1. Pick(in) = FirstOf(<<LocalOf(in), LargestOf(in)>>)
          BY <2>2, PickIs
        <4>2. FirstOf(<<LocalOf(in), LargestOf(in)>>)
                = IF LocalOf(in) # {} THEN LocalOf(in) ELSE LargestOf(in)
          BY FirstOfTwo
        <4> QED
          BY <2>1, <4>1, <4>2, Zenon
      <3>2. \A d \in Allowed(in) : ~Rather(in, d, c)
        BY <2>1, <2>2 DEF Rather
      <3> QED
        BY <3>1, <3>2
    <2>3. CASE in.prefer = "server" /\ ServerOf(in) # {}
      <3>1. Pick(in) = ServerOf(in)
        <4>1. Pick(in) = FirstOf(<<ServerOf(in), LocalOf(in), LargestOf(in)>>)
          BY <2>3, PickIs
        <4>2. FirstOf(<<ServerOf(in), LocalOf(in), LargestOf(in)>>)
                = IF ServerOf(in) # {} THEN ServerOf(in)
                  ELSE IF LocalOf(in) # {} THEN LocalOf(in) ELSE LargestOf(in)
          BY FirstOfThree
        <4> QED
          BY <2>3, <4>1, <4>2, Zenon
      <3>2. PICK s \in ServerOf(in) : TRUE
        BY <2>3
      <3>3. ASSUME NEW d \in ServerOf(in) PROVE d = s
        <4>1. /\ in.L \in Nat \ {0} /\ s \in Candidates(in.L) /\ d \in Candidates(in.L)
              /\ s.mode = "server" /\ d.mode = "server"
          BY <3>2 DEF ServerOf, Allowed, PlannerInputs
        <4>2. s.N = 0 /\ d.N = 0
          BY <4>1, CandidatesAre
        <4>3. d = s \/ d.mode = "local" \/ d.mode = "split"
          BY <4>1, <4>2, SameSplit
        <4> QED
          BY <4>1, <4>3
      <3>4. ServerOf(in) = {s} /\ s \in Allowed(in) /\ s.mode = "server"
        BY <3>2, <3>3 DEF ServerOf
      <3>5. \A d \in Allowed(in) : ~Rather(in, d, s)
        BY <2>3, <3>4 DEF Rather
      <3> QED
        BY <3>1, <3>4, <3>5
    <2>4. CASE in.prefer = "server" /\ ServerOf(in) = {}
      <3>1. Pick(in) = {c}
        <4>1. Pick(in) = FirstOf(<<ServerOf(in), LocalOf(in), LargestOf(in)>>)
          BY <2>4, PickIs
        <4>2. FirstOf(<<ServerOf(in), LocalOf(in), LargestOf(in)>>)
                = IF ServerOf(in) # {} THEN ServerOf(in)
                  ELSE IF LocalOf(in) # {} THEN LocalOf(in) ELSE LargestOf(in)
          BY FirstOfThree
        <4> QED
          BY <2>1, <2>4, <4>1, <4>2, Zenon
      <3>2. \A d \in Allowed(in) : d.mode # "server"
        BY <2>4 DEF ServerOf
      <3>3. \A d \in Allowed(in) : ~Rather(in, d, c)
        BY <2>1, <2>4, <3>2 DEF Rather
      <3> QED
        BY <3>1, <3>3
    <2>5. CASE in.prefer = "latency" /\ TimedOf(in) # {}
      <3> DEFINE fastest == {x \in TimedOf(in) : \A d \in TimedOf(in) : ~Earlier(in, d, x)}
      <3>1. PICK x \in TimedOf(in) :
              /\ (IF Cardinality(fastest) > 1 THEN {y \in fastest : y.mode # "local"}
                  ELSE fastest) = {x}
              /\ \A d \in TimedOf(in) : MsPerToken(in, x) <= MsPerToken(in, d)
        <4>1. TimedOf(in) \in SUBSET Candidates(in.L)
              /\ \A d \in TimedOf(in) : Known(MsPerToken(in, d))
          BY DEF TimedOf, Allowed
        <4> HIDE DEF fastest
        <4>2. fastest = {y \in TimedOf(in) : \A d \in TimedOf(in) : ~Earlier(in, d, y)}
          BY DEF fastest
        <4> QED
          BY <2>5, <4>1, <4>2, FastestIsOne
      <3>2. fastest \ LocalOf(in) = {y \in fastest : y.mode # "local"}
        BY DEF LocalOf, TimedOf
      <3>3. ChosenOf(in) = {x}
        <4>1. ChosenOf(in) = IF Cardinality(fastest) > 1 THEN fastest \ LocalOf(in) ELSE fastest
          BY DEF ChosenOf
        <4> HIDE DEF fastest
        <4> QED
          BY <3>1, <3>2, <4>1, Zenon
      <3>4. Pick(in) = {x}
        <4>1. Pick(in) = FirstOf(<<ChosenOf(in), LocalOf(in), LargestOf(in), ServerOf(in)>>)
          BY <2>5, PickIs
        <4>2. ChosenOf(in) # {}
          BY <3>3
        <4>3. FirstOf(<<ChosenOf(in), LocalOf(in), LargestOf(in), ServerOf(in)>>)
                = IF ChosenOf(in) # {} THEN ChosenOf(in)
                  ELSE IF LocalOf(in) # {} THEN LocalOf(in)
                  ELSE IF LargestOf(in) # {} THEN LargestOf(in) ELSE ServerOf(in)
          BY FirstOfFour
        <4> QED
          BY <3>3, <4>1, <4>2, <4>3, Zenon
      <3>5. ASSUME NEW d \in Allowed(in) PROVE ~Rather(in, d, x)
        <4>1. Known(MsPerToken(in, x))
          BY <3>1 DEF TimedOf
        <4>2. Known(MsPerToken(in, d)) => d \in TimedOf(in)
          BY DEF TimedOf
        <4>3. x \in Candidates(in.L) /\ d \in Candidates(in.L)
          BY <3>1 DEF TimedOf, Allowed
        <4>4. MsPerToken(in, x) \in Measured /\ MsPerToken(in, d) \in Measured
          BY <4>3, TimesAreMeasured
        <4>5. Known(MsPerToken(in, d)) => ~(MsPerToken(in, d) < MsPerToken(in, x))
          BY <3>1, <4>2, <4>4 DEF Measured, Unknown
        <4> QED
          BY <2>5, <4>1, <4>5 DEF Rather
      <3>6. x \in Allowed(in)
        BY <3>1 DEF TimedOf
      <3> QED
        BY <3>4, <3>5, <3>6
    <2>6. CASE in.prefer = "latency" /\ TimedOf(in) = {}
      <3>1. ChosenOf(in) = {}
        BY <2>6 DEF ChosenOf
      <3>2. Pick(in) = {c}
        <4>1. Pick(in) = FirstOf(<<ChosenOf(in), LocalOf(in), LargestOf(in), ServerOf(in)>>)
          BY <2>6, PickIs
        <4> DEFINE least == IF LocalOf(in) # {} THEN LocalOf(in) ELSE LargestOf(in)
        <4>2. FirstOf(<<ChosenOf(in), LocalOf(in), LargestOf(in), ServerOf(in)>>)
                = IF ChosenOf(in) # {} THEN ChosenOf(in)
                  ELSE IF LocalOf(in) # {} THEN LocalOf(in)
                  ELSE IF LargestOf(in) # {} THEN LargestOf(in) ELSE ServerOf(in)
          BY FirstOfFour
        <4>3. least = {c}
          BY <2>1
        <4>4. LocalOf(in) # {} \/ LargestOf(in) # {}
          BY <4>3
        <4>5. (IF LocalOf(in) # {} THEN LocalOf(in)
               ELSE IF LargestOf(in) # {} THEN LargestOf(in) ELSE ServerOf(in)) = least
          BY <4>4, Zenon
        <4>6. ~(ChosenOf(in) # {})
          BY <3>1
        <4> QED
          BY <4>1, <4>2, <4>3, <4>5, <4>6, Zenon
      <3>3. \A d \in Allowed(in) : ~Known(MsPerToken(in, d))
        BY <2>6 DEF TimedOf
      <3>4. \A d \in Allowed(in) : ~Rather(in, d, c)
        BY <2>1, <2>6, <3>3 DEF Rather
      <3> QED
        BY <3>2, <3>4
    <2> QED
      BY <1>0, <2>2, <2>3, <2>4, <2>5, <2>6
  <1> QED
    BY <1>1, <1>2

\* What the fold of a download adds up.
LEMMA FoldOfSums ==
  ASSUME NEW s \in Seq(Nat)
  PROVE  \E p \in [0..Len(s) -> Nat] :
           /\ p[0] = 0
           /\ \A k \in 1..Len(s) : p[k] = p[k - 1] + s[k]
           /\ FoldLeft(+, 0, s) = p[Len(s)]
  <1> DEFINE st == [x \in Nat \X Nat |-> x[1] + x[2]]
             F(f, A) == IF A = {} THEN 0 ELSE f[A \ {Max(A)}] + s[Max(A)]
             f == CHOOSE f : f = [A \in SUBSET DOMAIN s |-> F(f, A)]
  <1>0. Len(s) \in Nat /\ DOMAIN s = 1..Len(s) /\ \A k \in 1..Len(s) : s[k] \in Nat
    OBVIOUS
  <1>1. FoldLeft(+, 0, s) = f[1..Len(s)]
    BY <1>0 DEF FoldLeft, MapThenFoldSet
  <1>2. \A x, e \in Nat : st[<<x, e>>] = x + e
    OBVIOUS
  <1>3. st \in [Nat \X Nat -> Nat] /\ 0 \in Nat
    OBVIOUS
  <1> HIDE DEF st
  <1>4. Steps(Nat, Nat, st, 0, s)
    BY <1>3 DEF Steps
  <1>5. \A A \in SUBSET (1..Len(s)) : A # {} => Max(A) \in 1..Len(s) /\ s[Max(A)] \in Nat
    BY <1>0, MaxIsOne
  <1>6. PICK g \in [SUBSET (1..Len(s)) -> Nat] : Recursion(g, st, 0, s, Len(s))
    BY <1>3, RecursionExists
  <1>7. g = [A \in SUBSET DOMAIN s |-> F(g, A)]
    <2>1. ASSUME NEW A \in SUBSET (1..Len(s)) PROVE g[A] = F(g, A)
      <3>1. CASE A = {}
        BY <1>6, <3>1 DEF Recursion
      <3>2. CASE A # {}
        <4>1. g[A \ {Max(A)}] \in Nat /\ s[Max(A)] \in Nat
          BY <1>5, <3>2
        <4>2. g[A] = st[<<g[A \ {Max(A)}], s[Max(A)]>>]
          BY <1>6, <3>2 DEF Recursion
        <4> QED
          BY <1>2, <3>2, <4>1, <4>2
      <3> QED
        BY <3>1, <3>2
    <2> HIDE DEF F
    <2> QED
      BY <1>0, <2>1
  <1>8. f = [A \in SUBSET DOMAIN s |-> F(f, A)]
    <2> HIDE DEF F
    <2> QED
      BY <1>7
  <1> HIDE DEF f
  <1>9. Recurs(f, st, 0, s, Nat)
    <2>1. \A A \in SUBSET (1..Len(s)) : f[A] = F(f, A)
      <3> HIDE DEF F
      <3> QED
        BY <1>0, <1>8
    <2> QED
      BY <1>2, <1>5, <2>1 DEF Recurs
  <1>10. PICK p : Walk(p, st, 0, s, Nat) /\ f[1..Len(s)] = p[Len(s)]
    BY <1>4, <1>9, FoldIsWalk
  <1>11. ASSUME NEW k \in 1..Len(s) PROVE p[k] = p[k - 1] + s[k]
    <2>1. p[k - 1] \in Nat /\ s[k] \in Nat
      BY <1>0, <1>10 DEF Walk
    <2> QED
      BY <1>2, <1>10, <2>1 DEF Walk
  <1>12. p \in [0..Len(s) -> Nat] /\ p[0] = 0
    BY <1>10 DEF Walk
  <1> QED
    BY <1>1, <1>10, <1>11, <1>12

\* A sum of fewer bytes is no more.
LEMMA SumFalls ==
  ASSUME NEW b \in Seq(Nat), NEW from \in Nat \ {0}, NEW to \in Nat, to <= Len(b)
  PROVE  /\ SumOf(b, from, to) \in Nat
         /\ SumOf(b, from + 1, to) \in Nat
         /\ SumOf(b, from + 1, to) <= SumOf(b, from, to)
  <1> DEFINE s == SubSeq(b, from, to)
             t == SubSeq(b, from + 1, to)
  <1>1. /\ s \in Seq(Nat) /\ Len(s) = IF from <= to THEN to - from + 1 ELSE 0
        /\ \A i \in 1..(to - from + 1) : s[i] = b[from + i - 1]
    <2>1. \A i \in from..to : b[i] \in Nat
      OBVIOUS
    <2> QED
      BY <2>1, SubSeqProperties
  <1>2. /\ t \in Seq(Nat) /\ Len(t) = IF from + 1 <= to THEN to - (from + 1) + 1 ELSE 0
        /\ \A i \in 1..(to - (from + 1) + 1) : t[i] = b[from + 1 + i - 1]
    <2>1. \A i \in (from + 1)..to : b[i] \in Nat
      OBVIOUS
    <2> QED
      BY <2>1, SubSeqProperties
  <1>3. SumOf(b, from, to) = FoldLeft(+, 0, s) /\ SumOf(b, from + 1, to) = FoldLeft(+, 0, t)
    BY DEF SumOf
  <1> HIDE DEF s, t
  <1>4. PICK p \in [0..Len(s) -> Nat] :
          /\ p[0] = 0
          /\ \A k \in 1..Len(s) : p[k] = p[k - 1] + s[k]
          /\ FoldLeft(+, 0, s) = p[Len(s)]
    BY <1>1, FoldOfSums
  <1>5. PICK q \in [0..Len(t) -> Nat] :
          /\ q[0] = 0
          /\ \A k \in 1..Len(t) : q[k] = q[k - 1] + t[k]
          /\ FoldLeft(+, 0, t) = q[Len(t)]
    BY <1>2, FoldOfSums
  <1>a. /\ p \in [0..Len(s) -> Nat] /\ p[0] = 0
        /\ \A k \in 1..Len(s) : p[k] = p[k - 1] + s[k]
        /\ SumOf(b, from, to) = p[Len(s)]
    BY <1>3, <1>4, Zenon
  <1>b. /\ q \in [0..Len(t) -> Nat] /\ q[0] = 0
        /\ \A k \in 1..Len(t) : q[k] = q[k - 1] + t[k]
        /\ SumOf(b, from + 1, to) = q[Len(t)]
    BY <1>3, <1>5, Zenon
  <1>6. Len(s) \in Nat /\ Len(t) \in Nat /\ p[Len(s)] \in Nat /\ q[Len(t)] \in Nat
    BY <1>1, <1>2, <1>a, <1>b
  <1>c. \A i \in 1..Len(s) : s[i] \in Nat
    <2>1. s \in Seq(Nat)
      BY <1>1
    <2> QED
      BY <2>1, ElementOfSeq
  <1>7. CASE from > to
    <2>1. Len(t) = 0
      BY <1>2, <1>7
    <2> QED
      BY <1>a, <1>b, <1>6, <2>1
  <1>8. CASE from <= to
    <2>1. Len(s) = Len(t) + 1 /\ \A i \in 1..Len(t) : t[i] = s[i + 1]
      <3>1. Len(s) = to - from + 1 /\ Len(t) = to - from
        BY <1>1, <1>2, <1>8
      <3>2. ASSUME NEW i \in 1..Len(t) PROVE t[i] = s[i + 1]
        <4>1. i \in 1..(to - (from + 1) + 1) /\ i + 1 \in 1..(to - from + 1)
          BY <1>8, <3>1
        <4>2. t[i] = b[from + 1 + i - 1] /\ s[i + 1] = b[from + (i + 1) - 1]
          BY <1>1, <1>2, <4>1
        <4>3. from + 1 + i - 1 = from + (i + 1) - 1
          BY <4>1
        <4> QED
          BY <4>2, <4>3
      <3>3. Len(s) = Len(t) + 1
        BY <1>8, <3>1
      <3> QED
        BY <3>2, <3>3
    <2> DEFINE S == {k \in 0..Len(t) : q[k] <= p[k + 1]}
    <2>2. 0 \in S
      BY <1>a, <1>b, <1>6, <2>1
    <2>3. ASSUME NEW k \in 1..Len(t), k - 1 \in S PROVE k \in S
      <3>1. q[k] = q[k - 1] + t[k] /\ t[k] = s[k + 1] /\ q[k - 1] <= p[k]
        BY <1>b, <2>1, <2>3
      <3>4. k + 1 \in 1..Len(s) /\ k \in 0..Len(s) /\ k - 1 \in 0..Len(t) /\ (k + 1) - 1 = k
        BY <1>6, <2>1
      <3>2. p[k + 1] = p[k] + s[k + 1]
        BY <1>a, <3>4
      <3>3. p[k] \in Nat /\ q[k - 1] \in Nat /\ s[k + 1] \in Nat
        BY <1>a, <1>b, <1>c, <3>4
      <3> QED
        BY <3>1, <3>2, <3>3
    <2> HIDE DEF S
    <2>4. \A k \in 0..Len(t) : k \in S
      BY <1>6, <2>2, <2>3, AllPlaces
    <2>5. q[Len(t)] <= p[Len(t) + 1]
      BY <1>6, <2>4 DEF S
    <2> QED
      BY <1>a, <1>b, <1>6, <2>1, <2>5
  <1> QED
    BY <1>7, <1>8

\* Two inputs between which only room differs: what is asked, what it costs and
\* how long it takes is the same, and so is what the policy would rather have.
SameButRoom(in, more) ==
  /\ more.L = in.L /\ more.floor = in.floor /\ more.prefer = in.prefer
  /\ more.msT1 = in.msT1 /\ more.headMs = in.headMs /\ more.exportMs = in.exportMs
  /\ more.rtt = in.rtt /\ more.samplingMs = in.samplingMs
  /\ more.blockBytes = in.blockBytes /\ more.headGpuBytes = in.headGpuBytes
  /\ more.serverL = in.serverL /\ more.serverMs = in.serverMs
  /\ more.serverHeadMs = in.serverHeadMs
  /\ more.reachable = in.reachable /\ more.webgpu = in.webgpu /\ more.maxBuffer = in.maxBuffer
  /\ more.maxEntry = in.maxEntry /\ more.kvBytes = in.kvBytes
  /\ more.workspaceBytes = in.workspaceBytes /\ more.bandwidth = in.bandwidth
  /\ more.maxShare = in.maxShare /\ more.requireLocal = in.requireLocal

\* No more to load, no less to load it in, and no less memory for it.
MoreRoom(in, more) ==
  /\ more.gpuBudget >= in.gpuBudget
  /\ Known(more.maxLoad) => Known(in.maxLoad) /\ more.maxLoad >= in.maxLoad
  /\ \A c \in Candidates(in.L) : DownloadBytes(more, c) <= DownloadBytes(in, c)

LEMMA SameWishes ==
  ASSUME NEW in, NEW more, SameButRoom(in, more), NEW c, NEW d
  PROVE  Rather(more, c, d) <=> Rather(in, c, d)
  <1>1. ServerShare(more, c) = ServerShare(in, c) /\ ServerShare(more, d) = ServerShare(in, d)
    BY DEF SameButRoom, ServerShare
  <1>2. ClientHeadMs(more) = ClientHeadMs(in)
    BY DEF SameButRoom, ClientHeadMs
  <1>3. MsPerToken(more, c) = MsPerToken(in, c) /\ MsPerToken(more, d) = MsPerToken(in, d)
    BY <1>2 DEF SameButRoom, MsPerToken
  <1>4. more.prefer = in.prefer
    BY DEF SameButRoom
  <1> QED
    BY <1>1, <1>3, <1>4 DEF Rather

LEMMA DownloadsAreBytes ==
  ASSUME NEW in \in PlannerInputs, NEW c \in Candidates(in.L)
  PROVE  DownloadBytes(in, c) \in Nat
  <1>1. /\ in.L \in Nat \ {0} /\ in.blockBytes \in Seq(Nat) /\ Len(in.blockBytes) = in.L
        /\ in.cachedBlocks \in Nat /\ in.embedBytes \in Nat /\ in.headDownloadBytes \in Nat
    BY DEF PlannerInputs
  <1>2. c.N \in Nat /\ c.N <= in.L
    BY <1>1, CandidatesAre
  <1>3. SumOf(in.blockBytes, in.cachedBlocks + 1, c.N) \in Nat
    <2>1. in.cachedBlocks + 1 \in Nat \ {0} /\ c.N <= Len(in.blockBytes)
      BY <1>1, <1>2
    <2> QED
      BY <1>1, <1>2, <2>1, SumFalls
  <1> QED
    BY <1>1, <1>3 DEF DownloadBytes

LEMMA GpuIsBytes ==
  ASSUME NEW in \in PlannerInputs, NEW c \in Candidates(in.L)
  PROVE  GpuBytes(in, c) \in Nat
  <1>1. /\ in.L \in Nat \ {0} /\ in.blockBytes \in Seq(Nat) /\ Len(in.blockBytes) = in.L
        /\ in.kvBytes \in Nat /\ in.workspaceBytes \in Nat /\ in.headGpuBytes \in Nat
    BY DEF PlannerInputs
  <1>2. c.N \in Nat /\ c.N <= in.L
    BY <1>1, CandidatesAre
  <1>3. SumOf(in.blockBytes, 1, c.N) \in Nat
    <2>1. 1 \in Nat \ {0} /\ c.N <= Len(in.blockBytes)
      BY <1>1, <1>2
    <2> QED
      BY <1>1, <1>2, <2>1, SumFalls
  <1>4. c.N * in.kvBytes \in Nat
    BY <1>1, <1>2
  <1> QED
    BY <1>1, <1>3, <1>4 DEF GpuBytes

LEMMA RoomKeepsFeasible ==
  ASSUME NEW in \in PlannerInputs, NEW more \in PlannerInputs, SameButRoom(in, more),
         MoreRoom(in, more), NEW c \in Allowed(in)
  PROVE  c \in Allowed(more)
  <1>1. c \in Candidates(in.L) /\ Feasible(in, c) /\ more.L = in.L
    BY DEF Allowed, SameButRoom
  <1>2. ServerAnswers(more, c)
    BY <1>1 DEF Feasible, ServerAnswers, SameButRoom
  <1>3. PolicyAllows(more, c)
    <2>1. ServerShare(more, c) = ServerShare(in, c) /\ WholeShare(more) = WholeShare(in)
      BY DEF SameButRoom, ServerShare, WholeShare
    <2>2. more.maxShare = in.maxShare /\ more.requireLocal = in.requireLocal
      BY DEF SameButRoom
    <2> QED
      BY <1>1, <2>1, <2>2 DEF Feasible, PolicyAllows
  <1>4. ASSUME LoadsTooLong(more, c) PROVE LoadsTooLong(in, c)
    <2>1. DownloadBytes(more, c) <= DownloadBytes(in, c)
      BY <1>1 DEF MoreRoom
    <2>2. DownloadBytes(more, c) \in Nat /\ DownloadBytes(in, c) \in Nat
      BY <1>1, DownloadsAreBytes
    <2>3. /\ Known(more.maxLoad) /\ Known(in.maxLoad) /\ more.maxLoad >= in.maxLoad
          /\ more.bandwidth = in.bandwidth /\ Known(in.bandwidth) /\ in.bandwidth > 0
          /\ DownloadBytes(more, c) > more.maxLoad * in.bandwidth
      BY <1>4 DEF LoadsTooLong, MoreRoom, SameButRoom
    <2>4. more.maxLoad \in Nat /\ in.maxLoad \in Nat /\ in.bandwidth \in Nat
      BY <2>3 DEF PlannerInputs, Measured, Known
    <2>5. in.maxLoad * in.bandwidth <= more.maxLoad * in.bandwidth
      <3>1. PICK z \in Nat : more.maxLoad = in.maxLoad + z
        <4>1. more.maxLoad - in.maxLoad \in Nat
              /\ more.maxLoad = in.maxLoad + (more.maxLoad - in.maxLoad)
          BY <2>3, <2>4
        <4> QED
          BY <4>1
      <3>2. /\ more.maxLoad * in.bandwidth = in.maxLoad * in.bandwidth + z * in.bandwidth
            /\ z * in.bandwidth \in Nat /\ in.maxLoad * in.bandwidth \in Nat
        BY <2>4, <3>1
      <3> QED
        BY <3>2
    <2>6. in.maxLoad * in.bandwidth \in Nat /\ more.maxLoad * in.bandwidth \in Nat
      BY <2>4
    <2>7. DownloadBytes(in, c) > in.maxLoad * in.bandwidth
      BY <2>1, <2>2, <2>3, <2>5, <2>6
    <2> QED
      BY <2>3, <2>7 DEF LoadsTooLong
  <1>5. ClientHolds(more, c)
    <2>1. GpuBytes(more, c) = GpuBytes(in, c)
      BY DEF SameButRoom, GpuBytes
    <2>2. in.gpuBudget \in Nat /\ more.gpuBudget \in Nat /\ more.gpuBudget >= in.gpuBudget
      BY DEF PlannerInputs, MoreRoom
    <2>3. GpuBytes(in, c) <= in.gpuBudget => GpuBytes(in, c) <= more.gpuBudget
      <3>1. GpuBytes(in, c) \in Int
        BY <1>1, GpuIsBytes
      <3> QED
        BY <2>2, <3>1
    <2> QED
      BY <1>1, <1>4, <2>1, <2>3 DEF Feasible, ClientHolds, SameButRoom
  <1> QED
    BY <1>1, <1>2, <1>3, <1>5 DEF Allowed, Feasible

LEMMA LesserOfTwo ==
  ASSUME NEW a \in Nat, NEW b \in Nat
  PROVE  Min({a, b}) = IF a <= b THEN a ELSE b
  <1>1. CASE a <= b
    <2>1. {a, b} \in SUBSET Nat /\ a \in {a, b} /\ \A j \in {a, b} : a <= j
      BY <1>1
    <2>2. Min({a, b}) = a
      BY <2>1, MinIsFirst
    <2> QED
      BY <1>1, <2>2
  <1>2. CASE ~(a <= b)
    <2>1. {a, b} \in SUBSET Nat /\ b \in {a, b} /\ \A j \in {a, b} : b <= j
      BY <1>2
    <2>2. Min({a, b}) = b
      BY <2>1, MinIsFirst
    <2> QED
      BY <1>2, <2>2
  <1> QED
    BY <1>1, <1>2

LEMMA RoomierInputs ==
  ASSUME NEW in \in PlannerInputs,
         NEW more \in {[in EXCEPT !.gpuBudget = @ + 1],
                       [in EXCEPT !.maxLoad = IF Known(@) THEN @ + 1 ELSE @],
                       [in EXCEPT !.cachedBlocks = Min({@ + 1, in.L})],
                       [in EXCEPT !.embedCached = TRUE]}
  PROVE  more \in PlannerInputs /\ SameButRoom(in, more) /\ MoreRoom(in, more)
  <1>1. /\ in.L \in Nat \ {0} /\ in.cachedBlocks \in Nat /\ in.cachedBlocks <= in.L
        /\ in.gpuBudget \in Nat /\ in.maxLoad \in Measured /\ in.embedBytes \in Nat
        /\ in.blockBytes \in Seq(Nat) /\ Len(in.blockBytes) = in.L
        /\ in.headDownloadBytes \in Nat
    BY DEF PlannerInputs
  <1>2. CASE more = [in EXCEPT !.gpuBudget = @ + 1]
    <2>1. more \in PlannerInputs
      <3>1. \A x \in Nat : [in EXCEPT !.gpuBudget = x] \in PlannerInputs
        BY DEF PlannerInputs
      <3>2. in.gpuBudget + 1 \in Nat
        BY <1>1
      <3> QED
        BY <1>2, <3>1, <3>2, Zenon
    <2>2. SameButRoom(in, more)
      BY <1>2 DEF SameButRoom, PlannerInputs
    <2>3. more.gpuBudget = in.gpuBudget + 1 /\ more.maxLoad = in.maxLoad
      BY <1>2 DEF PlannerInputs
    <2>4. \A c \in Candidates(in.L) : DownloadBytes(more, c) = DownloadBytes(in, c)
      BY <1>2 DEF DownloadBytes, PlannerInputs
    <2> QED
      BY <1>1, <2>1, <2>2, <2>3, <2>4, DownloadsAreBytes DEF MoreRoom, Measured, Known
  <1>3. CASE more = [in EXCEPT !.maxLoad = IF Known(@) THEN @ + 1 ELSE @]
    <2>1. more \in PlannerInputs
      <3>1. \A x \in Measured : [in EXCEPT !.maxLoad = x] \in PlannerInputs
        BY DEF PlannerInputs
      <3>2. (IF Known(in.maxLoad) THEN in.maxLoad + 1 ELSE in.maxLoad) \in Measured
        BY <1>1 DEF Measured, Known
      <3> QED
        BY <1>3, <3>1, <3>2, Zenon
    <2>2. SameButRoom(in, more)
      BY <1>3 DEF SameButRoom, PlannerInputs
    <2>3. /\ more.gpuBudget = in.gpuBudget
          /\ more.maxLoad = IF Known(in.maxLoad) THEN in.maxLoad + 1 ELSE in.maxLoad
      BY <1>3 DEF PlannerInputs
    <2>4. \A c \in Candidates(in.L) : DownloadBytes(more, c) = DownloadBytes(in, c)
      BY <1>3 DEF DownloadBytes, PlannerInputs
    <2> QED
      BY <1>1, <2>1, <2>2, <2>3, <2>4, DownloadsAreBytes DEF MoreRoom, Measured, Known
  <1>4. CASE more = [in EXCEPT !.cachedBlocks = Min({@ + 1, in.L})]
    <2>0. /\ Min({in.cachedBlocks + 1, in.L}) \in Nat
          /\ Min({in.cachedBlocks + 1, in.L}) <= in.L
          /\ \/ Min({in.cachedBlocks + 1, in.L}) = in.cachedBlocks + 1
             \/ Min({in.cachedBlocks + 1, in.L}) = in.cachedBlocks
      <3>1. Min({in.cachedBlocks + 1, in.L})
              = IF in.cachedBlocks + 1 <= in.L THEN in.cachedBlocks + 1 ELSE in.L
        <4>1. in.cachedBlocks + 1 \in Nat /\ in.L \in Nat
          BY <1>1
        <4> QED
          BY <4>1, LesserOfTwo
      <3> QED
        BY <1>1, <3>1
    <2>1. more \in PlannerInputs
      BY <1>1, <1>4, <2>0 DEF PlannerInputs
    <2>2. SameButRoom(in, more)
      BY <1>4 DEF SameButRoom, PlannerInputs
    <2>3. /\ more.gpuBudget = in.gpuBudget /\ more.maxLoad = in.maxLoad
          /\ more.cachedBlocks = Min({in.cachedBlocks + 1, in.L})
          /\ more.embedCached = in.embedCached /\ more.embedBytes = in.embedBytes
          /\ more.blockBytes = in.blockBytes /\ more.headDownloadBytes = in.headDownloadBytes
      BY <1>4 DEF PlannerInputs
    <2>4. ASSUME NEW c \in Candidates(in.L)
          PROVE  DownloadBytes(more, c) <= DownloadBytes(in, c)
      <3>1. c.N \in Nat /\ c.N <= in.L
        BY <1>1, CandidatesAre
      <3> DEFINE now == SumOf(in.blockBytes, in.cachedBlocks + 1, c.N)
                 then == SumOf(in.blockBytes, more.cachedBlocks + 1, c.N)
      <3>2. now \in Nat /\ then \in Nat /\ then <= now
        <4>1. /\ now \in Nat
              /\ SumOf(in.blockBytes, in.cachedBlocks + 1 + 1, c.N) \in Nat
              /\ SumOf(in.blockBytes, in.cachedBlocks + 1 + 1, c.N) <= now
          <5>1. in.cachedBlocks + 1 \in Nat \ {0} /\ c.N <= Len(in.blockBytes)
            BY <1>1, <3>1
          <5> QED
            BY <1>1, <3>1, <5>1, SumFalls
        <4>2. then = now \/ then = SumOf(in.blockBytes, in.cachedBlocks + 1 + 1, c.N)
          BY <2>0, <2>3
        <4> HIDE DEF now, then
        <4> QED
          BY <4>1, <4>2
      <3>3. /\ DownloadBytes(in, c) =
                 IF c.N = 0 THEN 0
                 ELSE (IF in.embedCached THEN 0 ELSE in.embedBytes) + now
                        + (IF c.mode = "local" THEN in.headDownloadBytes ELSE 0)
            /\ DownloadBytes(more, c) =
                 IF c.N = 0 THEN 0
                 ELSE (IF in.embedCached THEN 0 ELSE in.embedBytes) + then
                        + (IF c.mode = "local" THEN in.headDownloadBytes ELSE 0)
        BY <2>3 DEF DownloadBytes
      <3> HIDE DEF now, then
      <3> QED
        BY <1>1, <3>2, <3>3
    <2> QED
      BY <1>1, <2>1, <2>2, <2>3, <2>4 DEF MoreRoom, Measured, Known
  <1>5. CASE more = [in EXCEPT !.embedCached = TRUE]
    <2>1. more \in PlannerInputs
      BY <1>1, <1>5 DEF PlannerInputs
    <2>2. SameButRoom(in, more)
      BY <1>5 DEF SameButRoom, PlannerInputs
    <2>3. /\ more.gpuBudget = in.gpuBudget /\ more.maxLoad = in.maxLoad
          /\ more.cachedBlocks = in.cachedBlocks /\ more.embedCached = TRUE
          /\ more.blockBytes = in.blockBytes /\ more.headDownloadBytes = in.headDownloadBytes
      BY <1>5 DEF PlannerInputs
    <2>4. ASSUME NEW c \in Candidates(in.L)
          PROVE  DownloadBytes(more, c) <= DownloadBytes(in, c)
      <3>1. c.N \in Nat /\ c.N <= in.L
        BY <1>1, CandidatesAre
      <3> DEFINE now == SumOf(in.blockBytes, in.cachedBlocks + 1, c.N)
      <3>2. now \in Nat
        <4>1. in.cachedBlocks + 1 \in Nat \ {0} /\ c.N <= Len(in.blockBytes)
          BY <1>1, <3>1
        <4> QED
          BY <1>1, <3>1, <4>1, SumFalls
      <3>3. /\ DownloadBytes(in, c) =
                 IF c.N = 0 THEN 0
                 ELSE (IF in.embedCached THEN 0 ELSE in.embedBytes) + now
                        + (IF c.mode = "local" THEN in.headDownloadBytes ELSE 0)
            /\ DownloadBytes(more, c) =
                 IF c.N = 0 THEN 0
                 ELSE 0 + now + (IF c.mode = "local" THEN in.headDownloadBytes ELSE 0)
        BY <2>3 DEF DownloadBytes
      <3> HIDE DEF now
      <3> QED
        BY <1>1, <3>2, <3>3
    <2> QED
      BY <1>1, <2>1, <2>2, <2>3, <2>4 DEF MoreRoom, Measured, Known
  <1> QED
    BY <1>2, <1>3, <1>4, <1>5

\* A share of the whole cost is the server's time, when the floor is the head's
\* share of it.
LEMMA ShareIsTime ==
  ASSUME NEW in \in PlannerInputs, in.serverL = in.L, Known(Cost0(in)),
         NEW true, true = [in EXCEPT !.floor = [p |-> in.serverHeadMs, q |-> Cost0(in)]],
         NEW c \in Candidates(in.L)
  PROVE  Cost0(true) * ServerShare(true, c) =
           WholeShare(true) * (IF c.mode = "local" THEN 0
                               ELSE true.serverMs * (true.L - c.N) + true.serverHeadMs)
  <1> DEFINE L == in.L
             s == in.serverMs
             h == in.serverHeadMs
             q == Cost0(in)
             x == in.L - c.N
  <1>1. /\ true.L = L /\ true.serverL = in.serverL /\ true.serverMs = s /\ true.serverHeadMs = h
        /\ true.floor = [p |-> h, q |-> q]
    <2> HIDE DEF q
    <2> QED
      BY DEF PlannerInputs, q
  <1>2. Known(in.serverL) /\ Known(s) /\ Known(h)
    BY DEF Cost0, Known
  <1>3. L \in Nat \ {0} /\ s \in Nat /\ h \in Nat /\ x \in Nat
    <2>1. L \in Nat \ {0} /\ s \in Nat /\ h \in Nat
      BY <1>2 DEF PlannerInputs, Measured, Known
    <2>2. c.N \in 0..L
      BY <2>1, CandidatesAre
    <2> QED
      BY <2>1, <2>2
  <1>4. q = s * L + h
    BY <1>2 DEF Cost0
  <1>5. Cost0(true) = q
    BY <1>1, <1>2, <1>4 DEF Cost0
  <1>6. /\ WholeShare(true) = q * L
        /\ ServerShare(true, c) = IF c.mode = "local" THEN 0 ELSE x * (q - h) + h * L
        /\ true.L - c.N = x
    BY <1>1 DEF WholeShare, ServerShare
  <1> HIDE DEF L, s, h, q, x
  <1>7. s * L \in Nat /\ q \in Nat /\ q - h = s * L
    BY <1>3, <1>4
  <1>8. CASE c.mode = "local"
    <2>1. q * 0 = 0 /\ (q * L) * 0 = 0
      BY <1>3, <1>7
    <2> QED
      BY <1>5, <1>6, <1>8, <2>1
  <1>9. CASE c.mode # "local"
    <2>1. q * (x * (s * L) + h * L) = (q * L) * (s * x + h)
      BY <1>3, <1>7
    <2> QED
      BY <1>1, <1>5, <1>6, <1>7, <1>9, <2>1
  <1> QED
    BY <1>8, <1>9

\* What the page puts beside the run that took the cheapest plan.
LEMMA CardsFitTheRun ==
  ASSUME NEW in \in PlannerInputs, in.prefer = "cost", NEW ran, Pick(in) = {ran}
  PROVE  /\ Cardinality({i \in DOMAIN Cards(in, ran) : Cards(in, ran)[i].shows = "above"}) = 1
         /\ \A i \in DOMAIN Cards(in, ran) :
              /\ Cards(in, ran)[i].shows = "above" => Cards(in, ran)[i].cand = ran
              /\ Cards(in, ran)[i].shows = "run" => Feasible(in, Cards(in, ran)[i].cand)
              /\ Cards(in, ran)[i].shows = "not feasible" =>
                   \A c \in Candidates(in.L) :
                     c.mode = Cards(in, ran)[i].cand.mode => ~Feasible(in, c)
  <1> DEFINE splits == {c \in Candidates(in.L) : c.mode = "split"}
             able == {c \in splits : Feasible(in, c)}
             best(c) == \/ c \in able /\ \A d \in able : d.N <= c.N
                        \/ able = {} /\ \A d \in splits : d.N <= c.N
             split == CHOOSE c \in splits : best(c)
             server == [mode |-> "server", N |-> 0]
             local == [mode |-> "local", N |-> in.L]
             above(c) == c = ran \/ (c.mode = "local" /\ ran.mode = "local")
             shows(c) == CASE above(c) -> "above"
                           [] ~above(c) /\ ~Feasible(in, c) -> "not feasible"
                           [] OTHER -> "run"
             card(c) == [cand |-> c, shows |-> shows(c)]
  <1>1. Cards(in, ran) = <<card(server), card(split), card(local)>>
    BY DEF Cards
  <1>2. in.L \in Nat \ {0}
    BY DEF PlannerInputs
  <1>3. server \in Candidates(in.L) /\ local \in Candidates(in.L)
    BY <1>2 DEF Candidates
  <1>4. /\ \A c \in Candidates(in.L) : c.mode = "server" => c = server
        /\ \A c \in Candidates(in.L) : c.mode = "local" => c = local
    BY DEF Candidates
  <1>5. split \in splits /\ best(split)
    <2>1. splits \in SUBSET Candidates(in.L) /\ \A c \in splits : c.mode # "local"
      OBVIOUS
    <2>2. splits # {}
      <3>1. [mode |-> "split", N |-> in.L] \in splits
        BY <1>2 DEF Candidates
      <3> QED
        BY <3>1
    <2>3. \E c \in splits : best(c)
      <3>1. CASE able = {}
        <4>1. \E c \in splits : \A d \in splits : d.N <= c.N
          <5> HIDE DEF splits
          <5> QED
            BY <1>2, <2>1, <2>2, LargestIsOne
        <4> QED
          BY <3>1, <4>1
      <3>2. CASE able # {}
        <4>1. able \in SUBSET Candidates(in.L) /\ (\A c \in able : c.mode # "local")
              /\ able \subseteq splits
          OBVIOUS
        <4>2. \E c \in able : \A d \in able : d.N <= c.N
          <5> HIDE DEF able
          <5> QED
            BY <1>2, <3>2, <4>1, LargestIsOne
        <4> QED
          BY <4>1, <4>2
      <3> QED
        BY <3>1, <3>2
    <2> HIDE DEF splits, able, best
    <2> QED
      BY <2>3
  <1>6. split.mode = "split" /\ split \in Candidates(in.L)
    BY <1>5
  <1>7. /\ ran \in Allowed(in) /\ ran \in Candidates(in.L) /\ Feasible(in, ran)
        /\ ran.mode # "local" => \A d \in Allowed(in) : d.mode # "local" /\ d.N <= ran.N
    <2>1. Allowed(in) # {}
      BY ChoiceIsBest
    <2>2. PICK c \in Allowed(in) :
            /\ (IF LocalOf(in) # {} THEN LocalOf(in) ELSE LargestOf(in)) = {c}
            /\ c.mode # "local" => \A d \in Allowed(in) : d.mode # "local" /\ d.N <= c.N
      BY <2>1, LeastShareIsOne
    <2>3. Pick(in) = FirstOf(<<LocalOf(in), LargestOf(in)>>)
      BY PickIs
    <2>4. FirstOf(<<LocalOf(in), LargestOf(in)>>)
            = IF LocalOf(in) # {} THEN LocalOf(in) ELSE LargestOf(in)
      BY FirstOfTwo
    <2>5. {ran} = {c}
      BY <2>2, <2>3, <2>4, Zenon
    <2>6. ran = c
      BY <2>5
    <2> QED
      BY <2>2, <2>6 DEF Allowed
  <1>8. ran.mode = "split" => ran = split
    <2> SUFFICES ASSUME ran.mode = "split" PROVE ran = split
      OBVIOUS
    <2>1. ran \in able
      BY <1>7
    <2>2. split \in able /\ ran.N <= split.N
      BY <1>5, <2>1
    <2>3. split \in Allowed(in)
      BY <2>2 DEF Allowed
    <2>4. split.N <= ran.N
      BY <1>7, <2>3
    <2>5. split.N \in 0..in.L /\ ran.N \in 0..in.L
      BY <1>2, <1>6, <1>7, CandidatesAre
    <2>6. split.N = ran.N
      BY <1>2, <2>2, <2>4, <2>5
    <2>7. split = ran \/ split.mode = "local" \/ ran.mode = "local"
      BY <1>2, <1>6, <1>7, <2>6, SameSplit
    <2> QED
      BY <1>6, <2>7
  <1>9. /\ above(server) <=> ran.mode = "server"
        /\ above(split) <=> ran.mode = "split"
        /\ above(local) <=> ran.mode = "local"
        /\ ran.mode \in {"server", "split", "local"}
        /\ ran.mode = "local" => ran = local
        /\ ran.mode = "server" => ran = server
    <2>1. ran.mode \in {"server", "split", "local"}
      BY <1>2, <1>7, CandidatesAre
    <2>2. server.mode = "server" /\ local.mode = "local"
      OBVIOUS
    <2> HIDE DEF server, local, split
    <2> QED
      BY <1>4, <1>6, <1>7, <1>8, <2>1, <2>2
  <1>10. \A c \in {server, split, local} :
           /\ shows(c) = "above" <=> above(c)
           /\ shows(c) = "run" => Feasible(in, c)
           /\ shows(c) = "not feasible" => ~Feasible(in, c)
    <2> HIDE DEF server, split, local, above
    <2> QED
      OBVIOUS
  <1>11. ~Feasible(in, split) => \A c \in Candidates(in.L) : c.mode = "split" => ~Feasible(in, c)
    BY <1>5
  <1> DEFINE cards == <<card(server), card(split), card(local)>>
  <1>12. /\ DOMAIN cards = {1, 2, 3}
         /\ cards[1].cand = server /\ cards[2].cand = split /\ cards[3].cand = local
         /\ cards[1].shows = shows(server) /\ cards[2].shows = shows(split)
         /\ cards[3].shows = shows(local)
    <2> HIDE DEF server, split, local, shows
    <2> QED
      OBVIOUS
  <1>13. server.mode = "server" /\ local.mode = "local"
    OBVIOUS
  <1> HIDE DEF cards, server, split, local, shows, above, splits, able, best
  <1>14. /\ (cards[1].shows = "above") <=> ran.mode = "server"
         /\ (cards[2].shows = "above") <=> ran.mode = "split"
         /\ (cards[3].shows = "above") <=> ran.mode = "local"
    BY <1>9, <1>10, <1>12
  <1>15. Cardinality({i \in DOMAIN cards : cards[i].shows = "above"}) = 1
    <2>1. PICK k \in {1, 2, 3} : {i \in DOMAIN cards : cards[i].shows = "above"} = {k}
      <3>1. CASE ran.mode = "server"
        BY <1>12, <1>14, <3>1
      <3>2. CASE ran.mode = "split"
        BY <1>12, <1>14, <3>2
      <3>3. CASE ran.mode = "local"
        BY <1>12, <1>14, <3>3
      <3> QED
        BY <1>9, <3>1, <3>2, <3>3
    <2> QED
      BY <2>1, FS_Singleton
  <1>16. ASSUME NEW i \in DOMAIN cards
         PROVE  /\ cards[i].shows = "above" => cards[i].cand = ran
                /\ cards[i].shows = "run" => Feasible(in, cards[i].cand)
                /\ cards[i].shows = "not feasible" =>
                     \A c \in Candidates(in.L) : c.mode = cards[i].cand.mode => ~Feasible(in, c)
    <2>1. cards[i].shows = "above" => cards[i].cand = ran
      BY <1>8, <1>9, <1>12, <1>14
    <2>2. cards[i].shows = "run" => Feasible(in, cards[i].cand)
      BY <1>10, <1>12
    <2>3. cards[i].shows = "not feasible" => ~Feasible(in, cards[i].cand)
      BY <1>10, <1>12
    <2>4. \A c \in Candidates(in.L) : c.mode = cards[i].cand.mode =>
            c = cards[i].cand \/ (cards[i].cand = split /\ c.mode = "split")
      BY <1>4, <1>6, <1>12, <1>13
    <2>5. cards[i].shows = "not feasible" =>
            \A c \in Candidates(in.L) : c.mode = cards[i].cand.mode => ~Feasible(in, c)
      BY <1>11, <2>3, <2>4
    <2> QED
      BY <2>1, <2>2, <2>5
  <1>17. Cards(in, ran) = cards
    BY <1>1 DEF cards
  <1> QED
    BY <1>15, <1>16, <1>17

\* Any prompt may be planned for: one input, and plan() run on it.
PlannerSpec == task \in PlannerInputs /\ result = <<>> /\ [][ChooseSplit]_vars

\* For every model, device, network, server and policy, what plan() answers is
\* one of the candidates they allow, whenever there is one, and the policy would
\* not rather have another; more room never makes it worse; what a candidate
\* costs is the time the server spends on it; and the page's cards show it once,
\* beside what else was possible (planner.ts, summarize.ts).
THEOREM PlannerStaysSound == PlannerSpec => []PlannerIsSound
  <1> DEFINE Inv == /\ task \in PlannerInputs
                    /\ result = <<>> \/ result = [pick |-> Pick(task)]
  <1>1. task \in PlannerInputs /\ result = <<>> => Inv
    OBVIOUS
  <1>2. Inv /\ [ChooseSplit]_vars => Inv'
    <2> SUFFICES ASSUME Inv, [ChooseSplit]_vars PROVE Inv'
      OBVIOUS
    <2>1. CASE ChooseSplit
      <3>1. task' = task /\ result' = [pick |-> Pick(task)]
        BY <2>1 DEF ChooseSplit, Run
      <3>2. Pick(task') = Pick(task)
        BY <3>1
      <3> QED
        BY <3>1, <3>2
    <2>2. CASE UNCHANGED vars
      <3>1. task' = task /\ result' = result
        BY <2>2 DEF vars
      <3>2. Pick(task') = Pick(task)
        BY <3>1
      <3> QED
        BY <3>1, <3>2
    <2> QED
      BY <2>1, <2>2
  <1>3. Inv => PlannerIsSound
    <2> SUFFICES ASSUME Inv PROVE PlannerIsSound
      OBVIOUS
    <2>1. PickIsBest
      <3> SUFFICES ASSUME Ran("split")
                   PROVE  /\ result.pick \subseteq Allowed(task)
                          /\ Cardinality(result.pick) = (IF Allowed(task) = {} THEN 0 ELSE 1)
                          /\ \A c \in result.pick, d \in Allowed(task) : ~Rather(task, d, c)
        BY DEF PickIsBest, Allowed
      <3>1. result.pick = Pick(task)
        BY DEF Ran
      <3>2. CASE Allowed(task) = {}
        <4>1. result.pick = {}
          BY <3>1, <3>2, ChoiceIsBest
        <4> QED
          BY <3>2, <4>1, FS_EmptySet
      <3>3. CASE Allowed(task) # {}
        <4>1. PICK c \in Allowed(task) : /\ Pick(task) = {c}
                                         /\ \A d \in Allowed(task) : ~Rather(task, d, c)
          BY <3>3, ChoiceIsBest
        <4>2. result.pick = {c} /\ Cardinality({c}) = 1
          BY <3>1, <4>1, FS_Singleton
        <4> QED
          BY <3>3, <4>1, <4>2
      <3> QED
        BY <3>2, <3>3
    <2>2. RoomNeverHurts
      <3> SUFFICES ASSUME Ran("split"),
                          NEW more \in {[task EXCEPT !.gpuBudget = @ + 1],
                                        [task EXCEPT !.maxLoad = IF Known(@) THEN @ + 1 ELSE @],
                                        [task EXCEPT !.cachedBlocks = Min({@ + 1, task.L})],
                                        [task EXCEPT !.embedCached = TRUE]},
                          NEW c \in result.pick
                   PROVE  /\ Pick(more) # {}
                          /\ \A d \in Pick(more) : ~Rather(task, c, d)
        BY DEF RoomNeverHurts
      <3>1. more \in PlannerInputs /\ SameButRoom(task, more) /\ MoreRoom(task, more)
        BY RoomierInputs
      <3>2. c \in Pick(task)
        BY DEF Ran
      <3>3. c \in Allowed(task)
        BY <3>2, ChoiceIsBest
      <3>4. c \in Allowed(more)
        BY <3>1, <3>3, RoomKeepsFeasible
      <3>5. PICK d \in Allowed(more) : /\ Pick(more) = {d}
                                       /\ \A e \in Allowed(more) : ~Rather(more, e, d)
        BY <3>1, <3>4, ChoiceIsBest
      <3>6. ~Rather(more, c, d)
        BY <3>4, <3>5
      <3>7. ~Rather(task, c, d)
        BY <3>1, <3>6, SameWishes
      <3> QED
        BY <3>5, <3>7
    <2>3. CostIsServerTime
      <3> SUFFICES ASSUME task.serverL = task.L, Known(Cost0(task)),
                          NEW true, true = [task EXCEPT !.floor = [p |-> task.serverHeadMs,
                                                                   q |-> Cost0(task)]],
                          NEW c \in Candidates(task.L)
                   PROVE  Cost0(true) * ServerShare(true, c) =
                            WholeShare(true) * (IF c.mode = "local" THEN 0
                                                ELSE true.serverMs * (true.L - c.N) + true.serverHeadMs)
        BY DEF CostIsServerTime
      <3> QED
        BY ShareIsTime
    <2>4. ComparisonIsTheRun
      <3> SUFFICES ASSUME Ran("split"), task.prefer = "cost", NEW ran \in result.pick
                   PROVE  /\ Cardinality({i \in DOMAIN Cards(task, ran) :
                                            Cards(task, ran)[i].shows = "above"}) = 1
                          /\ \A i \in DOMAIN Cards(task, ran) :
                               /\ Cards(task, ran)[i].shows = "above" => Cards(task, ran)[i].cand = ran
                               /\ Cards(task, ran)[i].shows = "run" =>
                                    Feasible(task, Cards(task, ran)[i].cand)
                               /\ Cards(task, ran)[i].shows = "not feasible" =>
                                    \A c \in Candidates(task.L) :
                                      c.mode = Cards(task, ran)[i].cand.mode => ~Feasible(task, c)
        BY DEF ComparisonIsTheRun
      <3>1. ran \in Pick(task)
        BY DEF Ran
      <3>2. Pick(task) = {ran}
        BY <3>1, ChoiceIsBest
      <3> QED
        BY <3>2, CardsFitTheRun
    <2> QED
      BY <2>1, <2>2, <2>3, <2>4 DEF PlannerIsSound
  <1> HIDE DEF Inv
  <1> QED
    BY <1>1, <1>2, <1>3, PTL DEF PlannerSpec
==============================================================================
