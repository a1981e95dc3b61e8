--------------------------- MODULE StreamLoadProofs ---------------------------
(***************************************************************************)
(* Proofs about StreamLoad for any plan: any number of groups and chunks,  *)
(* shared in any way.                                                      *)
(*                                                                         *)
(* The generator sees the delivery through the channel, so the invariant   *)
(* speaks of the chunks it has pulled: what each counter counts, which     *)
(* groups are complete, and what may still be in the channel. An abort in  *)
(* time rests on what can no longer come: the loop is closed, and only its *)
(* rejection is left to be pulled.                                         *)
(***************************************************************************)
EXTENDS StreamLoad, FiniteSetTheorems, FunctionTheorems, WellFoundedInduction, TLAPS

Pulled == {c \in Chunks : handed[c] # <<>> /\ c \notin ToSet(channel)}

\* The delivery hands a chunk over once, and ends well with all of them.
DeliveryKept ==
  /\ handed \in [Chunks -> {<<>>, <<"good">>}]
  /\ closed \in BOOLEAN
  /\ outcome \in Outcomes
  /\ outcome = "done" => \A c \in Chunks : handed[c] # <<>>

\* What waits in the channel: chunks that were handed over, each once, and
\* behind them the mark of the settled loop.
ChannelInOrder ==
  /\ channel \in Seq(Chunks \cup {"done", "error"})
  /\ \A i, j \in 1..Len(channel) : channel[i] = channel[j] => i = j
  /\ \A i \in 1..Len(channel) :
       /\ channel[i] \in Chunks => handed[channel[i]] # <<>>
       /\ channel[i] \notin Chunks => i = Len(channel) /\ outcome # "running"
       /\ channel[i] = "done" => outcome = "done"
       /\ channel[i] = "error" => outcome \in {"failed", "aborted"}
  /\ doneSeen => outcome = "done" /\ channel = <<>>

\* Every counter counts what it should.
CountsArePulls ==
  /\ nextGroup \in 1..(NumGroups + 1)
  /\ pending = [g \in DOMAIN Needs |-> Cardinality(ToSet(Needs[g]) \ Pulled)]
  /\ counted = Cardinality(Pulled)

\* A group that was yielded had everything.
YieldedAreComplete ==
  \A g \in DOMAIN Needs : g <= Yielded => ToSet(Needs[g]) \subseteq Pulled

\* The map of the generator, and what its `fate` says.
GeneratorKept ==
  /\ gen \in {"pulling", "paused", "closing", "ended"}
  /\ fate \in {"none", "complete", "broken", "aborted", "error"}
  /\ gen \in {"pulling", "paused"} <=> fate = "none"
  /\ gen = "paused" => nextGroup <= NumGroups
  /\ gen \in {"pulling", "paused"} => chunks = {c \in Pulled : LastUse(c) > Yielded}
  /\ chunks \subseteq Chunks
  /\ fate = "complete" =>
       /\ nextGroup = NumGroups + 1
       /\ Pulled = Chunks
       /\ chunks = {}
       /\ outcome = "done"
  /\ gen # "ended" => ~report
  /\ report => fate = "complete"

\* After an abort in time only the loop's rejection can still come.
AbortCloses ==
  abortPhase = "fetching" =>
    /\ signal /\ closed /\ ~failed
    /\ outcome \in {"running", "aborted"}
    /\ fate \notin {"complete", "error"}

HistoryKept ==
  /\ failed \in BOOLEAN /\ signal \in BOOLEAN /\ doneSeen \in BOOLEAN /\ report \in BOOLEAN
  /\ abortPhase \in {"never", "fetching", "streaming", "late"}

StreamInv ==
  /\ DeliveryKept
  /\ ChannelInOrder
  /\ CountsArePulls
  /\ YieldedAreComplete
  /\ GeneratorKept
  /\ AbortCloses
  /\ HistoryKept

-----------------------------------------------------------------------------
(***************************************************************************)
(* The plan                                                                *)
(***************************************************************************)

LEMMA LeastOf ==
  ASSUME NEW T, T \subseteq Nat, T # {}
  PROVE  \E x \in T : \A y \in T : x <= y
  <1>1. IsWellFoundedOn(OpToRel(<, Nat), Nat)
    BY NatLessThanWellFounded
  <1>2. PICK x \in T : \A y \in T : ~(<<y, x>> \in OpToRel(<, Nat))
    BY <1>1, WFMin
  <1>3. \A y \in T : ~(y < x)
    BY <1>2 DEF OpToRel
  <1> QED BY <1>3

LEMMA GreatestOf ==
  ASSUME NEW n \in Nat, NEW T, T \subseteq 1..n, T # {}
  PROVE  \E x \in T : \A y \in T : y <= x
  <1> DEFINE U == {k \in 0..n : n - k \in T}
  <1>1. \A y \in T : n - y \in U
    <2> SUFFICES ASSUME NEW y \in T PROVE n - y \in U
      OBVIOUS
    <2>1. y \in 1..n /\ n - (n - y) = y
      OBVIOUS
    <2> QED BY <2>1
  <1>2. U \subseteq Nat /\ U # {}
    <2>1. PICK y \in T : TRUE
      OBVIOUS
    <2>2. n - y \in U
      BY <1>1, <2>1
    <2>3. \A k \in U : k \in Nat
      OBVIOUS
    <2> HIDE DEF U
    <2> QED BY <2>2, <2>3
  <1>3. PICK x \in U : \A y \in U : x <= y
    BY <1>2, LeastOf
  <1> QED BY <1>1, <1>3

LEMMA PlanType ==
  /\ NumGroups \in Nat /\ DOMAIN Needs = 1..NumGroups
  /\ \A g \in DOMAIN Needs : /\ Needs[g] \in Seq(Chunks)
                             /\ ToSet(Needs[g]) \subseteq Chunks
  BY StreamAssumption DEF NumGroups, ToSet

\* The last use of a chunk is a group that needs it, and no later one does.
LEMMA LastUseIsLast ==
  ASSUME NEW c \in Chunks
  PROVE  /\ LastUse(c) \in DOMAIN Needs
         /\ c \in ToSet(Needs[LastUse(c)])
         /\ \A h \in DOMAIN Needs : c \in ToSet(Needs[h]) => h <= LastUse(c)
  <1> DEFINE Users == {g \in DOMAIN Needs : c \in ToSet(Needs[g])}
  <1>1. Users \subseteq 1..NumGroups /\ Users # {}
    BY PlanType, StreamAssumption
  <1>2. \E g \in Users : \A h \in Users : h <= g
    BY <1>1, PlanType, GreatestOf
  <1>3. \E g \in DOMAIN Needs : /\ c \in ToSet(Needs[g])
                                /\ \A h \in DOMAIN Needs : c \in ToSet(Needs[h]) => h <= g
    BY <1>2
  <1> QED
    BY <1>3 DEF LastUse, LastNeeding

\* A group needs as many chunks as its list is long.
LEMMA NeedsAreCounted ==
  ASSUME NEW g \in DOMAIN Needs
  PROVE  IsFiniteSet(ToSet(Needs[g])) /\ Cardinality(ToSet(Needs[g])) = Len(Needs[g])
  <1> DEFINE s == Needs[g]
             n == Len(s)
  <1>1. /\ s \in Seq(Chunks) /\ DOMAIN s = 1..n /\ n \in Nat
        /\ \A i, j \in 1..n : s[i] = s[j] => i = j
    BY PlanType, StreamAssumption
  <1>2. IsFiniteSet(1..n) /\ Cardinality(1..n) = n
    BY <1>1, FS_Interval
  <1>3. s \in Bijection(1..n, ToSet(s))
    <2>1. s \in [1..n -> ToSet(s)]
      BY <1>1 DEF ToSet
    <2>2. \A t \in ToSet(s) : \E i \in 1..n : s[i] = t
      BY <1>1 DEF ToSet
    <2> QED
      BY <1>1, <2>1, <2>2, Fun_IsBij
  <1>4. ExistsBijection(1..n, ToSet(s))
    BY <1>3 DEF ExistsBijection
  <1> QED
    BY <1>2, <1>4, FS_Bijection

\* The chunks of a plan are finitely many, since each is needed by a group.
LEMMA ChunksAreFinite == IsFiniteSet(Chunks)
  <1> DEFINE lists == {ToSet(Needs[g]) : g \in DOMAIN Needs}
             f == [g \in DOMAIN Needs |-> ToSet(Needs[g])]
  <1>1. IsFiniteSet(DOMAIN Needs)
    BY PlanType, FS_Interval
  <1>2. f \in Surjection(DOMAIN Needs, lists)
    <2>1. f \in [DOMAIN Needs -> lists] /\ \A t \in lists : \E g \in DOMAIN Needs : f[g] = t
      OBVIOUS
    <2> QED BY <2>1, Fun_IsSurj
  <1>3. IsFiniteSet(lists)
    BY <1>1, <1>2, FS_Surjection
  <1>4. IsFiniteSet(UNION lists)
    BY <1>3, NeedsAreCounted, FS_UNION
  <1>5. Chunks \subseteq UNION lists
    BY StreamAssumption
  <1> QED
    BY <1>4, <1>5, FS_Subset

-----------------------------------------------------------------------------
(***************************************************************************)
(* The channel and the counters                                            *)
(***************************************************************************)

Events == Chunks \cup {"done", "error"}

\* Pulling takes the head, which is nowhere else in the channel.
LEMMA PullTakesHead ==
  ASSUME ChannelInOrder, NEW e, Pull(e)
  PROVE  /\ e \in Events /\ e \in ToSet(channel)
         /\ ToSet(channel') = ToSet(channel) \ {e}
         /\ channel' \in Seq(Events)
         /\ \A i, j \in 1..Len(channel') : channel'[i] = channel'[j] => i = j
         /\ \A i \in 1..Len(channel') :
              /\ channel'[i] \in Chunks => handed'[channel'[i]] # <<>>
              /\ channel'[i] \notin Chunks => i = Len(channel') /\ outcome' # "running"
              /\ channel'[i] = "done" => outcome' = "done"
              /\ channel'[i] = "error" => outcome' \in {"failed", "aborted"}
         /\ e \notin Chunks => channel' = <<>>
         /\ e = "done" => outcome = "done"
         /\ e = "error" => outcome \in {"failed", "aborted"}
  <1> DEFINE n == Len(channel)
  <1>1. /\ channel \in Seq(Events) /\ n \in Nat /\ n >= 1
        /\ e = channel[1] /\ channel' = Tail(channel)
        /\ UNCHANGED <<handed, outcome>>
    BY DEF ChannelInOrder, Pull, Events
  <1>2. /\ Tail(channel) \in Seq(Events) /\ Len(Tail(channel)) = n - 1
        /\ \A i \in 1..(n - 1) : Tail(channel)[i] = channel[i + 1]
    BY <1>1
  <1>3. \A i, j \in 1..n : channel[i] = channel[j] => i = j
    BY DEF ChannelInOrder
  <1>4. ToSet(channel) = {channel[i] : i \in 1..n}
        /\ ToSet(Tail(channel)) = {Tail(channel)[i] : i \in 1..(n - 1)}
    <2>1. DOMAIN channel = 1..n /\ DOMAIN Tail(channel) = 1..(n - 1)
      BY <1>1, <1>2
    <2> QED BY <2>1 DEF ToSet
  <1>5. ToSet(Tail(channel)) = ToSet(channel) \ {e}
    <2>1. ASSUME NEW x \in ToSet(Tail(channel)) PROVE x \in ToSet(channel) /\ x # e
      <3>1. PICK i \in 1..(n - 1) : x = channel[i + 1]
        BY <1>2, <1>4
      <3>2. i + 1 \in 1..n /\ 1 \in 1..n /\ i + 1 # 1
        BY <1>1
      <3> QED BY <1>1, <1>3, <1>4, <3>1, <3>2
    <2>2. ASSUME NEW x \in ToSet(channel), x # e PROVE x \in ToSet(Tail(channel))
      <3>1. PICK i \in 1..n : x = channel[i]
        BY <1>4
      <3>2. i # 1 /\ i - 1 \in 1..(n - 1) /\ (i - 1) + 1 = i
        BY <1>1, <2>2, <3>1
      <3> QED BY <1>2, <1>4, <3>1, <3>2
    <2> QED BY <2>1, <2>2
  <1>6. e \in Events /\ e \in ToSet(channel)
    BY <1>1, <1>4
  <1>7. \A i, j \in 1..(n - 1) : Tail(channel)[i] = Tail(channel)[j] => i = j
    <2> SUFFICES ASSUME NEW i \in 1..(n - 1), NEW j \in 1..(n - 1),
                        Tail(channel)[i] = Tail(channel)[j]
                 PROVE  i = j
      OBVIOUS
    <2>1. channel[i + 1] = channel[j + 1] /\ i + 1 \in 1..n /\ j + 1 \in 1..n
      BY <1>1, <1>2
    <2> QED BY <1>3, <2>1
  <1>8. \A i \in 1..(n - 1) :
          /\ Tail(channel)[i] \in Chunks => handed[Tail(channel)[i]] # <<>>
          /\ Tail(channel)[i] \notin Chunks => i = n - 1 /\ outcome # "running"
          /\ Tail(channel)[i] = "done" => outcome = "done"
          /\ Tail(channel)[i] = "error" => outcome \in {"failed", "aborted"}
    <2> SUFFICES ASSUME NEW i \in 1..(n - 1)
                 PROVE  /\ channel[i + 1] \in Chunks => handed[channel[i + 1]] # <<>>
                        /\ channel[i + 1] \notin Chunks => i = n - 1 /\ outcome # "running"
                        /\ channel[i + 1] = "done" => outcome = "done"
                        /\ channel[i + 1] = "error" => outcome \in {"failed", "aborted"}
      BY <1>2
    <2>1. i + 1 \in 1..n
      BY <1>1
    <2>2. channel[i + 1] \notin Chunks => i + 1 = n
      BY <2>1 DEF ChannelInOrder
    <2>3. i + 1 = n => i = n - 1
      BY <1>1
    <2> QED
      BY <2>1, <2>2, <2>3 DEF ChannelInOrder
  <1>9. /\ e \notin Chunks => channel' = <<>>
        /\ e = "done" => outcome = "done"
        /\ e = "error" => outcome \in {"failed", "aborted"}
    <2>1. 1 \in 1..n
      BY <1>1
    <2>2. e \notin Chunks => n = 1
      BY <1>1, <2>1 DEF ChannelInOrder
    <2>3. n = 1 => channel' = <<>>
      BY <1>1, <1>2
    <2> QED
      BY <1>1, <2>1, <2>2, <2>3 DEF ChannelInOrder
  <1>10. /\ channel' \in Seq(Events) /\ Len(channel') = n - 1
         /\ ToSet(channel') = ToSet(channel) \ {e}
    BY <1>1, <1>2, <1>5
  <1>11. \A i, j \in 1..Len(channel') : channel'[i] = channel'[j] => i = j
    BY <1>1, <1>7, <1>10
  <1>12. \A i \in 1..Len(channel') :
          /\ channel'[i] \in Chunks => handed'[channel'[i]] # <<>>
          /\ channel'[i] \notin Chunks => i = Len(channel') /\ outcome' # "running"
          /\ channel'[i] = "done" => outcome' = "done"
          /\ channel'[i] = "error" => outcome' \in {"failed", "aborted"}
    BY <1>1, <1>8, <1>10
  <1> QED
    BY <1>6, <1>9, <1>10, <1>11, <1>12

\* Pushing puts an event at the end that was not there.
LEMMA PushKeepsOrder ==
  ASSUME ChannelInOrder, handed \in [Chunks -> {<<>>, <<"good">>}],
         NEW e \in Events, channel' = Append(channel, e),
         ~doneSeen, UNCHANGED doneSeen, ToSet(channel) \subseteq Chunks,
         e \notin ToSet(channel),
         \A c \in Chunks : handed[c] # <<>> => handed'[c] # <<>>,
         e \in Chunks => handed'[e] # <<>>,
         e \notin Chunks => outcome' # "running",
         e = "done" => outcome' = "done",
         e = "error" => outcome' \in {"failed", "aborted"}
  PROVE  ChannelInOrder' /\ ToSet(channel') = ToSet(channel) \cup {e}
  <1> DEFINE n == Len(channel)
  <1>1. channel \in Seq(Events) /\ n \in Nat
    BY DEF ChannelInOrder, Events
  <1>2. /\ channel' \in Seq(Events) /\ Len(channel') = n + 1
        /\ \A i \in 1..n : channel'[i] = channel[i]
        /\ channel'[n + 1] = e
    BY <1>1
  <1>3. ToSet(channel) = {channel[i] : i \in 1..n}
        /\ ToSet(channel') = {channel'[i] : i \in 1..(n + 1)}
    BY <1>1, <1>2 DEF ToSet
  <1>4. 1..(n + 1) = 1..n \cup {n + 1}
    BY <1>1
  <1>5. ToSet(channel') = ToSet(channel) \cup {e}
    BY <1>2, <1>3, <1>4
  <1>6. \A i \in 1..n : channel[i] # e /\ channel[i] \in Chunks
    BY <1>3
  <1>7. \A i, j \in 1..(n + 1) : channel'[i] = channel'[j] => i = j
    BY <1>2, <1>4, <1>6 DEF ChannelInOrder
  <1>8. \A i \in 1..(n + 1) :
          /\ channel'[i] \in Chunks => handed'[channel'[i]] # <<>>
          /\ channel'[i] \notin Chunks => i = n + 1 /\ outcome' # "running"
          /\ channel'[i] = "done" => outcome' = "done"
          /\ channel'[i] = "error" => outcome' \in {"failed", "aborted"}
    <2>1. \A i \in 1..n : /\ channel'[i] \in Chunks /\ handed'[channel'[i]] # <<>>
                          /\ channel'[i] # "done" /\ channel'[i] # "error"
      BY <1>2, <1>6, StreamAssumption DEF ChannelInOrder
    <2> QED
      BY <1>2, <1>4, <2>1
  <1> QED
    BY <1>2, <1>5, <1>7, <1>8 DEF ChannelInOrder, Events

-----------------------------------------------------------------------------
(***************************************************************************)
(* What a pull changes                                                     *)
(***************************************************************************)

\* A pulled chunk is new among the pulled ones; a mark adds none.
LEMMA PullAddsToPulled ==
  ASSUME DeliveryKept, ChannelInOrder, NEW e, Pull(e)
  PROVE  /\ e \in Chunks => e \notin Pulled /\ Pulled' = Pulled \cup {e}
         /\ e \notin Chunks => Pulled' = Pulled
         /\ DeliveryKept' <=> closed' \in BOOLEAN
         /\ UNCHANGED doneSeen => ChannelInOrder'
  <1>1. /\ e \in ToSet(channel)
        /\ ToSet(channel') = ToSet(channel) \ {e}
        /\ handed' = handed /\ outcome' = outcome
    BY PullTakesHead DEF Pull
  <1>2. e \in Chunks => handed[e] # <<>>
    <2>1. 1 \in 1..Len(channel) /\ e = channel[1]
      BY DEF Pull, ChannelInOrder
    <2> QED BY <2>1 DEF ChannelInOrder
  <1>3. doneSeen => channel = <<>>
    BY DEF ChannelInOrder
  <1>4. ~doneSeen
    BY <1>3 DEF Pull
  <1>5. UNCHANGED doneSeen => ChannelInOrder'
    BY <1>4, PullTakesHead DEF ChannelInOrder, Events
  <1>6. /\ e \in Chunks => e \notin Pulled /\ Pulled' = Pulled \cup {e}
        /\ e \notin Chunks => Pulled' = Pulled
    BY <1>1, <1>2 DEF Pulled
  <1>7. DeliveryKept' <=> closed' \in BOOLEAN
    BY <1>1 DEF DeliveryKept
  <1> QED BY <1>5, <1>6, <1>7

\* Counting down follows the chunk that was pulled.
LEMMA CountDownCounts ==
  ASSUME CountsArePulls, NEW c \in Chunks, c \notin Pulled, Pulled' = Pulled \cup {c}
  PROVE  /\ CountDown(c) = [g \in DOMAIN Needs |-> Cardinality(ToSet(Needs[g]) \ Pulled')]
         /\ counted + 1 = Cardinality(Pulled')
  <1>1. ASSUME NEW g \in DOMAIN Needs
        PROVE  Cardinality(ToSet(Needs[g]) \ Pulled')
                 = IF g \in NeededBy(c) THEN pending[g] - 1 ELSE pending[g]
    <2>1. IsFiniteSet(ToSet(Needs[g]) \ Pulled)
      BY NeedsAreCounted, FS_Subset
    <2>2. ToSet(Needs[g]) \ Pulled' = (ToSet(Needs[g]) \ Pulled) \ {c}
      OBVIOUS
    <2>3. pending[g] = Cardinality(ToSet(Needs[g]) \ Pulled)
      BY DEF CountsArePulls
    <2>4. c \in ToSet(Needs[g]) \ Pulled <=> g \in NeededBy(c)
      BY DEF NeededBy
    <2> HIDE DEF NeededBy
    <2> QED BY <2>1, <2>2, <2>3, <2>4, FS_RemoveElement
  <1>2. IsFiniteSet(Pulled)
    BY ChunksAreFinite, FS_Subset DEF Pulled
  <1>3. counted + 1 = Cardinality(Pulled')
    BY <1>2, FS_AddElement DEF CountsArePulls
  <1> QED BY <1>1, <1>3 DEF CountDown

\* A counter is down when the group has everything.
LEMMA NothingPending ==
  ASSUME NEW P, NEW g \in DOMAIN Needs
  PROVE  Cardinality(ToSet(Needs[g]) \ P) = 0 <=> ToSet(Needs[g]) \subseteq P
  <1>1. IsFiniteSet(ToSet(Needs[g]) \ P)
    BY NeedsAreCounted, FS_Subset
  <1>2. Cardinality(ToSet(Needs[g]) \ P) = 0 <=> ToSet(Needs[g]) \ P = {}
    BY <1>1, FS_EmptySet
  <1> QED BY <1>2

-----------------------------------------------------------------------------
(***************************************************************************)
(* The generator goes on                                                   *)
(***************************************************************************)

\* From a map that holds what group n and the later ones need, the generator
\* yields group n, waits, or ends with everything yielded.
LEMMA AfterKeeps ==
  ASSUME NEW n \in 1..(NumGroups + 1), NEW held, NEW left, NEW done \in BOOLEAN,
         After(n, held, left, done),
         held = {c \in Pulled' : LastUse(c) > n - 1},
         left = [g \in DOMAIN Needs |-> Cardinality(ToSet(Needs[g]) \ Pulled')],
         \A g \in DOMAIN Needs : g < n => ToSet(Needs[g]) \subseteq Pulled',
         done => Pulled' = Chunks /\ outcome' = "done",
         closed \in BOOLEAN, fate = "none", ~report'
  PROVE  /\ pending' = left /\ nextGroup' = n
         /\ YieldedAreComplete' /\ GeneratorKept'
         /\ closed' \in BOOLEAN /\ (closed => closed')
         /\ fate' = "none" \/ (done /\ fate' = "complete")
  <1>1. pending' = left /\ nextGroup' = n
    BY DEF After, Yield
  <1>2. NumGroups \in Nat /\ DOMAIN Needs = 1..NumGroups
    BY PlanType
  <1>3. held \subseteq Chunks
    BY DEF Pulled
  <1>4. \A c \in Pulled' : LastUse(c) \in DOMAIN Needs
    BY LastUseIsLast DEF Pulled
  <1>5. CASE Ready(n, left)
    <2>1. n \in DOMAIN Needs /\ Cardinality(ToSet(Needs[n]) \ Pulled') = 0
      BY <1>2, <1>5 DEF Ready
    <2>2. ToSet(Needs[n]) \subseteq Pulled'
      BY <2>1, NothingPending
    <2>3. ASSUME NEW c \in ToSet(Needs[n]) PROVE c \in held
      <3>1. c \in Chunks /\ c \in Pulled'
        BY <2>1, <2>2, PlanType
      <3>2. LastUse(c) \in 1..NumGroups /\ n <= LastUse(c)
        BY <1>2, <2>1, <3>1, LastUseIsLast
      <3> QED BY <3>1, <3>2
    <2>4. /\ chunks' = held \ {c \in ToSet(Needs[n]) : LastUse(c) = n}
          /\ gen' = "paused" /\ fate' = fate /\ closed' = closed
      BY <1>5, <2>3 DEF After, Yield
    <2>5. chunks' = {c \in Pulled' : LastUse(c) > n}
      <3>1. ASSUME NEW c \in chunks' PROVE c \in Pulled' /\ LastUse(c) > n
        <4>1. c \in Pulled' /\ LastUse(c) > n - 1
          BY <2>4
        <4>2. LastUse(c) \in 1..NumGroups
          BY <1>2, <1>4, <4>1
        <4>3. LastUse(c) = n => c \in ToSet(Needs[n])
          <5>1. c \in Chunks
            BY <4>1 DEF Pulled
          <5> QED BY <5>1, LastUseIsLast
        <4>4. LastUse(c) # n
          BY <2>4, <4>3
        <4> QED BY <4>1, <4>2, <4>4
      <3>2. ASSUME NEW c \in Pulled', LastUse(c) > n PROVE c \in chunks'
        <4>1. LastUse(c) \in 1..NumGroups
          BY <1>2, <1>4
        <4> QED BY <2>4, <3>2, <4>1
      <3> QED BY <3>1, <3>2
    <2>6. Yielded' = n
      BY <1>1, <2>4 DEF Yielded
    <2>7. YieldedAreComplete'
      <3> SUFFICES ASSUME NEW g \in DOMAIN Needs, g <= n
                   PROVE  ToSet(Needs[g]) \subseteq Pulled'
        BY <2>6 DEF YieldedAreComplete
      <3> QED BY <1>2, <2>2
    <2>8. GeneratorKept'
      BY <1>1, <1>2, <1>3, <2>1, <2>4, <2>5, <2>6 DEF GeneratorKept
    <2> QED BY <1>1, <2>4, <2>7, <2>8
  <1>6. CASE ~Ready(n, left)
    <2>1. chunks' = held
      BY <1>6 DEF After
    <2>2. gen' # "paused" /\ Yielded' = n - 1
      BY <1>1, <1>6 DEF After, Finally, Yielded
    <2>3. YieldedAreComplete'
      BY <1>2, <2>2 DEF YieldedAreComplete
    <2>4. CASE ~done
      <3>1. gen' = "pulling" /\ fate' = fate /\ closed' = closed
        BY <1>6, <2>4 DEF After
      <3>2. GeneratorKept'
        BY <1>1, <1>3, <2>1, <2>2, <3>1 DEF GeneratorKept
      <3> QED BY <1>1, <2>3, <3>1, <3>2
    <2>5. CASE done
      <3>1. n > NumGroups
        <4> SUFFICES ASSUME n <= NumGroups PROVE FALSE
          BY <1>2
        <4>1. n \in DOMAIN Needs /\ ToSet(Needs[n]) \subseteq Pulled'
          BY <1>2, <2>5, PlanType
        <4>2. left[n] = 0
          BY <4>1, NothingPending
        <4> QED BY <1>6, <4>2 DEF Ready
      <3>2. n = NumGroups + 1
        BY <1>2, <3>1
      <3>3. gen' = "closing" /\ fate' = "complete" /\ closed' = (closed \/ outcome = "running")
        BY <1>6, <2>5, <3>1 DEF After, Finally, CancelLoop
      <3>4. chunks' = {}
        <4> SUFFICES ASSUME NEW c \in Pulled', LastUse(c) > n - 1 PROVE FALSE
          BY <2>1
        <4>1. LastUse(c) \in 1..NumGroups
          BY <1>2, <1>4
        <4> QED BY <1>2, <3>2, <4>1
      <3>5. GeneratorKept'
        BY <1>1, <2>5, <3>2, <3>3, <3>4 DEF GeneratorKept
      <3> QED BY <1>1, <2>3, <2>5, <3>3, <3>5
    <2> QED BY <2>4, <2>5
  <1> QED BY <1>5, <1>6

-----------------------------------------------------------------------------
(***************************************************************************)
(* The invariant is inductive                                              *)
(***************************************************************************)

LEMMA InitStreamInv == Init => StreamInv
  <1> SUFFICES ASSUME Init PROVE StreamInv
    OBVIOUS
  <1>1. Pulled = {} /\ channel = <<>> /\ ToSet(channel) = {}
    BY DEF Pulled, Init, DeliveryInit, ToSet
  <1>2. DeliveryKept
    BY DEF Init, DeliveryInit, DeliveryKept, Outcomes
  <1>3. ChannelInOrder
    BY <1>1 DEF ChannelInOrder, Init
  <1>4. CountsArePulls
    <2>1. \A g \in DOMAIN Needs : Cardinality(ToSet(Needs[g]) \ Pulled) = Len(Needs[g])
      BY <1>1, NeedsAreCounted
    <2>2. pending = [g \in DOMAIN Needs |-> Cardinality(ToSet(Needs[g]) \ Pulled)]
      BY <2>1 DEF Init
    <2>3. counted = Cardinality(Pulled)
      BY <1>1, FS_EmptySet DEF Init
    <2>4. nextGroup \in 1..(NumGroups + 1)
      BY PlanType DEF Init
    <2> QED BY <2>2, <2>3, <2>4 DEF CountsArePulls
  <1>5. YieldedAreComplete
    BY PlanType DEF YieldedAreComplete, Yielded, Init
  <1>6. GeneratorKept /\ AbortCloses /\ HistoryKept
    BY <1>1, <1>2 DEF GeneratorKept, AbortCloses, HistoryKept, Init, DeliveryInit, DeliveryKept
  <1> QED BY <1>2, <1>3, <1>4, <1>5, <1>6 DEF StreamInv

\* While the loop runs only chunks wait in the channel, and each at most once.
LEMMA RunningChannel ==
  ASSUME ChannelInOrder, outcome = "running"
  PROVE  /\ ToSet(channel) \subseteq Chunks
         /\ \A c \in ToSet(channel) : handed[c] # <<>>
         /\ ~doneSeen
  <1>1. \A i \in 1..Len(channel) : channel[i] \in Chunks /\ handed[channel[i]] # <<>>
    BY DEF ChannelInOrder
  <1>2. ToSet(channel) = {channel[i] : i \in 1..Len(channel)}
    BY DEF ChannelInOrder, ToSet
  <1> QED BY <1>1, <1>2 DEF ChannelInOrder

\* What a step of the loop leaves alone keeps the generator's part.
LEMMA GeneratorUntouched ==
  ASSUME CountsArePulls, YieldedAreComplete, GeneratorKept, HistoryKept,
         UNCHANGED <<genVars, callerVars>>, Pulled' = Pulled, failed' \in BOOLEAN,
         outcome = "running"
  PROVE  CountsArePulls' /\ YieldedAreComplete' /\ GeneratorKept' /\ HistoryKept'
  <1>1. /\ UNCHANGED <<chunks, pending, nextGroup, counted, doneSeen, gen, fate, report>>
        /\ UNCHANGED <<signal, abortPhase>> /\ Yielded' = Yielded
    BY DEF genVars, callerVars, Yielded
  <1>2. CountsArePulls' /\ YieldedAreComplete' /\ HistoryKept'
    BY <1>1 DEF CountsArePulls, YieldedAreComplete, HistoryKept
  <1>3. GeneratorKept'
    BY <1>1 DEF GeneratorKept
  <1> QED BY <1>2, <1>3

LEMMA LoopDeliversKeeps ==
  ASSUME StreamInv, NEW c \in Chunks, LoopDelivers(c)
  PROVE  StreamInv'
  <1> USE DEF StreamInv
  <1>1. /\ outcome = "running" /\ ~closed /\ handed[c] = <<>>
        /\ handed' = [handed EXCEPT ![c] = <<"good">>]
        /\ closed' = closed /\ outcome' = outcome /\ failed' = failed
        /\ channel' = Append(channel, c)
        /\ UNCHANGED <<genVars, callerVars>>
    BY DEF LoopDelivers, Deliver
  <1>2. /\ handed \in [Chunks -> {<<>>, <<"good">>}]
        /\ handed' \in [Chunks -> {<<>>, <<"good">>}]
        /\ handed'[c] # <<>>
        /\ \A d \in Chunks : d # c => handed'[d] = handed[d]
    BY <1>1 DEF DeliveryKept
  <1>3. DeliveryKept'
    BY <1>1, <1>2 DEF DeliveryKept
  <1>4. c \notin ToSet(channel) /\ ToSet(channel) \subseteq Chunks /\ ~doneSeen
    BY <1>1, RunningChannel
  <1>5. ChannelInOrder' /\ ToSet(channel') = ToSet(channel) \cup {c}
    <2>1. UNCHANGED doneSeen
      BY <1>1 DEF genVars
    <2>2. c \in Events /\ c # "done" /\ c # "error"
      BY StreamAssumption DEF Events
    <2> QED BY <1>1, <1>2, <1>4, <2>1, <2>2, PushKeepsOrder
  <1>6. Pulled' = Pulled
    BY <1>1, <1>2, <1>5 DEF Pulled
  <1>7. CountsArePulls' /\ YieldedAreComplete' /\ GeneratorKept' /\ HistoryKept'
    BY <1>1, <1>6, GeneratorUntouched DEF HistoryKept
  <1>8. AbortCloses'
    BY <1>1 DEF AbortCloses, callerVars
  <1> QED BY <1>3, <1>5, <1>7, <1>8

LEMMA LoopFailsKeeps ==
  ASSUME StreamInv, LoopFails
  PROVE  StreamInv'
  <1> USE DEF StreamInv
  <1>1. /\ outcome = "running" /\ ~closed /\ closed' = TRUE /\ failed' = TRUE
        /\ UNCHANGED <<handed, outcome, channel, genVars, callerVars>>
    BY DEF LoopFails, Close
  <1>2. DeliveryKept' /\ ChannelInOrder' /\ Pulled' = Pulled
    BY <1>1 DEF DeliveryKept, ChannelInOrder, Pulled, genVars
  <1>3. CountsArePulls' /\ YieldedAreComplete' /\ GeneratorKept' /\ HistoryKept'
    BY <1>1, <1>2, GeneratorUntouched
  <1>4. AbortCloses'
    BY <1>1 DEF AbortCloses, callerVars
  <1> QED BY <1>2, <1>3, <1>4

LEMMA LoopSettlesKeeps ==
  ASSUME StreamInv, LoopSettles
  PROVE  StreamInv'
  <1> USE DEF StreamInv
  <1> DEFINE e == IF outcome' = "done" THEN "done" ELSE "error"
  <1>1. /\ outcome = "running" /\ UNCHANGED <<handed, closed, failed, genVars, callerVars>>
        /\ outcome' = "failed" => failed
        /\ channel' = Append(channel, e)
        /\ \/ closed /\ outcome' \in {"failed", "aborted"}
           \/ ~closed /\ outcome' = "done" /\ \A c \in Chunks : handed[c] = <<"good">>
    BY DEF LoopSettles, Settle
  <1>2. DeliveryKept'
    BY <1>1 DEF DeliveryKept, Outcomes
  <1>3. ToSet(channel) \subseteq Chunks /\ ~doneSeen
    BY <1>1, RunningChannel
  <1>4. e \in Events /\ e \notin Chunks /\ e \notin ToSet(channel)
    BY <1>3, StreamAssumption DEF Events
  <1>5. ChannelInOrder' /\ ToSet(channel') = ToSet(channel) \cup {e}
    <2>1. UNCHANGED doneSeen /\ handed \in [Chunks -> {<<>>, <<"good">>}]
      BY <1>1 DEF genVars, DeliveryKept
    <2>2. /\ outcome' # "running" /\ (e = "done" => outcome' = "done")
          /\ e = "error" => outcome' \in {"failed", "aborted"}
      BY <1>1
    <2>3. \A c \in Chunks : handed[c] # <<>> => handed'[c] # <<>>
      BY <1>1
    <2> QED BY <1>1, <1>3, <1>4, <2>1, <2>2, <2>3, PushKeepsOrder
  <1>6. Pulled' = Pulled
    BY <1>1, <1>4, <1>5 DEF Pulled
  <1>7. CountsArePulls' /\ YieldedAreComplete' /\ GeneratorKept' /\ HistoryKept'
    BY <1>1, <1>6, GeneratorUntouched DEF HistoryKept
  <1>8. AbortCloses'
    BY <1>1 DEF AbortCloses, callerVars, genVars
  <1> QED BY <1>2, <1>5, <1>7, <1>8

LEMMA PullChunkKeeps ==
  ASSUME StreamInv, NEW c \in Chunks, PullChunk(c)
  PROVE  StreamInv'
  <1> USE DEF StreamInv
  <1>1. /\ Pull(c) /\ counted' = counted + 1 /\ UNCHANGED doneSeen
        /\ After(nextGroup, chunks \cup {c}, CountDown(c), FALSE)
    BY DEF PullChunk
  <1>2. /\ gen = "pulling" /\ fate = "none" /\ Yielded = nextGroup - 1 /\ ~report
        /\ UNCHANGED <<handed, outcome, failed, signal, abortPhase, report>>
        /\ closed \in BOOLEAN
    BY <1>1 DEF Pull, GeneratorKept, Yielded, callerVars, DeliveryKept
  <1>3. /\ c \notin Pulled /\ Pulled' = Pulled \cup {c} /\ ChannelInOrder'
        /\ DeliveryKept' <=> closed' \in BOOLEAN
    BY <1>1, PullAddsToPulled
  <1>4. /\ CountDown(c) = [g \in DOMAIN Needs |-> Cardinality(ToSet(Needs[g]) \ Pulled')]
        /\ counted' = Cardinality(Pulled')
    BY <1>1, <1>3, CountDownCounts
  <1>5. nextGroup \in 1..(NumGroups + 1) /\ NumGroups \in Nat /\ DOMAIN Needs = 1..NumGroups
    BY PlanType DEF CountsArePulls
  <1>6. \A g \in DOMAIN Needs : g < nextGroup => ToSet(Needs[g]) \subseteq Pulled
    BY <1>2, <1>5 DEF YieldedAreComplete
  <1>7. LastUse(c) > nextGroup - 1
    <2>1. LastUse(c) \in 1..NumGroups /\ c \in ToSet(Needs[LastUse(c)])
      BY <1>5, LastUseIsLast
    <2>2. ~(LastUse(c) < nextGroup)
      BY <1>3, <1>5, <1>6, <2>1
    <2> QED BY <1>5, <2>1, <2>2
  <1>8. chunks = {d \in Pulled : LastUse(d) > nextGroup - 1}
    BY <1>2 DEF GeneratorKept
  <1>9. chunks \cup {c} = {d \in Pulled' : LastUse(d) > nextGroup - 1}
    BY <1>3, <1>7, <1>8
  <1>10. /\ pending' = CountDown(c) /\ nextGroup' = nextGroup
         /\ YieldedAreComplete' /\ GeneratorKept'
         /\ closed' \in BOOLEAN /\ (closed => closed')
         /\ fate' = "none"
    <2> DEFINE held == chunks \cup {c}
               left == CountDown(c)
    <2>1. \A g \in DOMAIN Needs : g < nextGroup => ToSet(Needs[g]) \subseteq Pulled'
      BY <1>3, <1>6
    <2>2. /\ held = {d \in Pulled' : LastUse(d) > nextGroup - 1}
          /\ left = [g \in DOMAIN Needs |-> Cardinality(ToSet(Needs[g]) \ Pulled')]
          /\ After(nextGroup, held, left, FALSE) /\ ~report'
      BY <1>1, <1>2, <1>4, <1>9
    <2> HIDE DEF held, left
    <2>3. /\ pending' = left /\ nextGroup' = nextGroup
          /\ YieldedAreComplete' /\ GeneratorKept'
          /\ closed' \in BOOLEAN /\ (closed => closed')
          /\ fate' = "none" \/ (FALSE /\ fate' = "complete")
      BY <1>2, <1>5, <2>1, <2>2, AfterKeeps
    <2> QED BY <2>3 DEF left
  <1>11. CountsArePulls'
    BY <1>4, <1>5, <1>10 DEF CountsArePulls
  <1>12. AbortCloses' /\ HistoryKept'
    BY <1>1, <1>2, <1>10 DEF AbortCloses, HistoryKept
  <1> QED BY <1>3, <1>10, <1>11, <1>12

LEMMA ProgressThrowsKeeps ==
  ASSUME StreamInv, NEW c \in Chunks, ProgressThrows(c)
  PROVE  StreamInv'
  <1> USE DEF StreamInv
  <1>1. /\ Pull(c) /\ counted' = counted + 1 /\ UNCHANGED <<nextGroup, doneSeen>>
        /\ chunks' = chunks \cup {c} /\ pending' = CountDown(c)
        /\ gen' = "closing" /\ closed' = (closed \/ outcome = "running")
        /\ fate' = IF signal THEN "aborted" ELSE "error"
    BY DEF ProgressThrows, Finally, CancelLoop
  <1>2. /\ gen = "pulling" /\ Yielded' = Yielded /\ ~report
        /\ UNCHANGED <<handed, outcome, failed, signal, abortPhase, report>>
        /\ closed' \in BOOLEAN
    BY <1>1 DEF Pull, GeneratorKept, Yielded, callerVars, DeliveryKept
  <1>3. /\ c \notin Pulled /\ Pulled' = Pulled \cup {c} /\ ChannelInOrder' /\ DeliveryKept'
    BY <1>1, <1>2, PullAddsToPulled
  <1>4. CountsArePulls'
    BY <1>1, <1>3, CountDownCounts DEF CountsArePulls
  <1>5. YieldedAreComplete'
    BY <1>2, <1>3 DEF YieldedAreComplete
  <1>6. GeneratorKept' /\ AbortCloses' /\ HistoryKept'
    BY <1>1, <1>2 DEF GeneratorKept, AbortCloses, HistoryKept
  <1> QED BY <1>3, <1>4, <1>5, <1>6

LEMMA PullDoneKeeps ==
  ASSUME StreamInv, PullDone
  PROVE  StreamInv'
  <1> USE DEF StreamInv
  <1>1. /\ Pull("done") /\ doneSeen' = TRUE /\ UNCHANGED counted
        /\ After(nextGroup, chunks, pending, TRUE)
    BY DEF PullDone
  <1>2. "done" \notin Chunks
    BY StreamAssumption
  <1>3. /\ gen = "pulling" /\ fate = "none" /\ Yielded = nextGroup - 1 /\ ~report
        /\ UNCHANGED <<handed, outcome, failed, signal, abortPhase, report>>
        /\ closed \in BOOLEAN
    BY <1>1 DEF Pull, GeneratorKept, Yielded, callerVars, DeliveryKept
  <1>4. Pulled' = Pulled /\ (DeliveryKept' <=> closed' \in BOOLEAN)
    BY <1>1, <1>2, PullAddsToPulled
  <1>5. outcome = "done" /\ outcome' = "done" /\ channel' = <<>>
    BY <1>1, <1>2, <1>3, PullTakesHead
  <1>6. ChannelInOrder'
    BY <1>5 DEF ChannelInOrder
  <1>7. Pulled' = Chunks
    <2>1. ToSet(channel') = {} /\ \A d \in Chunks : handed'[d] # <<>>
      BY <1>3, <1>5 DEF DeliveryKept, ToSet
    <2> QED BY <2>1 DEF Pulled
  <1>8. nextGroup \in 1..(NumGroups + 1) /\ NumGroups \in Nat /\ DOMAIN Needs = 1..NumGroups
    BY PlanType DEF CountsArePulls
  <1>9. /\ pending' = pending /\ nextGroup' = nextGroup
        /\ YieldedAreComplete' /\ GeneratorKept'
        /\ closed' \in BOOLEAN /\ (closed => closed')
    <2>1. \A g \in DOMAIN Needs : g < nextGroup => ToSet(Needs[g]) \subseteq Pulled'
      BY <1>3, <1>4, <1>8 DEF YieldedAreComplete
    <2>2. /\ chunks = {d \in Pulled' : LastUse(d) > nextGroup - 1}
          /\ pending = [g \in DOMAIN Needs |-> Cardinality(ToSet(Needs[g]) \ Pulled')]
      BY <1>3, <1>4 DEF GeneratorKept, CountsArePulls
    <2>3. ~report'
      BY <1>3
    <2> QED BY <1>1, <1>3, <1>5, <1>7, <1>8, <2>1, <2>2, <2>3, AfterKeeps
  <1>10. CountsArePulls'
    BY <1>1, <1>4, <1>8, <1>9 DEF CountsArePulls
  <1>11. AbortCloses' /\ HistoryKept'
    BY <1>1, <1>3, <1>5 DEF AbortCloses, HistoryKept
  <1> QED BY <1>4, <1>6, <1>9, <1>10, <1>11

LEMMA PullErrorKeeps ==
  ASSUME StreamInv, PullError
  PROVE  StreamInv'
  <1> USE DEF StreamInv
  <1>1. /\ Pull("error") /\ gen' = "closing" /\ closed' = (closed \/ outcome = "running")
        /\ fate' = IF signal \/ outcome = "aborted" THEN "aborted" ELSE "error"
        /\ UNCHANGED <<chunks, pending, nextGroup, counted, doneSeen>>
    BY DEF PullError, Finally, CancelLoop
  <1>2. "error" \notin Chunks
    BY StreamAssumption
  <1>3. /\ gen = "pulling" /\ Yielded' = Yielded /\ ~report
        /\ UNCHANGED <<handed, outcome, failed, signal, abortPhase, report>>
        /\ closed' \in BOOLEAN
    BY <1>1 DEF Pull, GeneratorKept, Yielded, callerVars, DeliveryKept
  <1>4. Pulled' = Pulled /\ DeliveryKept' /\ ChannelInOrder'
    BY <1>1, <1>2, <1>3, PullAddsToPulled
  <1>5. CountsArePulls' /\ YieldedAreComplete'
    BY <1>1, <1>3, <1>4 DEF CountsArePulls, YieldedAreComplete
  <1>6. GeneratorKept' /\ AbortCloses' /\ HistoryKept'
    BY <1>1, <1>3 DEF GeneratorKept, AbortCloses, HistoryKept
  <1> QED BY <1>4, <1>5, <1>6

LEMMA ResumeKeeps ==
  ASSUME StreamInv, Resume
  PROVE  StreamInv'
  <1> USE DEF StreamInv
  <1>1. /\ After(nextGroup + 1, chunks, pending, doneSeen)
        /\ UNCHANGED <<counted, doneSeen, report, handed, outcome, failed, channel,
                       signal, abortPhase>>
    BY DEF Resume, callerVars
  <1>2. /\ gen = "paused" /\ fate = "none" /\ Yielded = nextGroup /\ ~report'
        /\ closed \in BOOLEAN /\ doneSeen \in BOOLEAN /\ nextGroup <= NumGroups
    BY <1>1 DEF Resume, GeneratorKept, Yielded, DeliveryKept, HistoryKept
  <1>3. Pulled' = Pulled /\ ChannelInOrder'
    BY <1>1 DEF Pulled, ChannelInOrder
  <1>4. /\ NumGroups \in Nat /\ DOMAIN Needs = 1..NumGroups
        /\ nextGroup \in 1..NumGroups /\ nextGroup + 1 \in 1..(NumGroups + 1)
        /\ (nextGroup + 1) - 1 = nextGroup
    BY <1>2, PlanType DEF CountsArePulls
  <1>5. doneSeen => Pulled' = Chunks /\ outcome' = "done"
    <2> SUFFICES ASSUME doneSeen PROVE Pulled' = Chunks /\ outcome' = "done"
      OBVIOUS
    <2>1. outcome = "done" /\ channel = <<>>
      BY DEF ChannelInOrder
    <2>2. ToSet(channel) = {} /\ \A d \in Chunks : handed[d] # <<>>
      BY <2>1 DEF DeliveryKept, ToSet
    <2> QED BY <1>1, <1>3, <2>1, <2>2 DEF Pulled
  <1>6. /\ pending' = pending /\ nextGroup' = nextGroup + 1
        /\ YieldedAreComplete' /\ GeneratorKept'
        /\ closed' \in BOOLEAN /\ (closed => closed')
        /\ fate' = "none" \/ (doneSeen /\ fate' = "complete")
    <2>1. \A g \in DOMAIN Needs : g < nextGroup + 1 => ToSet(Needs[g]) \subseteq Pulled'
      BY <1>2, <1>3, <1>4 DEF YieldedAreComplete
    <2>2. /\ chunks = {d \in Pulled' : LastUse(d) > (nextGroup + 1) - 1}
          /\ pending = [g \in DOMAIN Needs |-> Cardinality(ToSet(Needs[g]) \ Pulled')]
      BY <1>2, <1>3, <1>4 DEF GeneratorKept, CountsArePulls
    <2> QED BY <1>1, <1>2, <1>4, <1>5, <2>1, <2>2, AfterKeeps
  <1>7. DeliveryKept'
    BY <1>1, <1>6 DEF DeliveryKept
  <1>8. CountsArePulls'
    BY <1>1, <1>3, <1>4, <1>6 DEF CountsArePulls
  <1>9. AbortCloses' /\ HistoryKept'
    BY <1>1, <1>5, <1>6 DEF AbortCloses, HistoryKept
  <1> QED BY <1>3, <1>6, <1>7, <1>8, <1>9

LEMMA BreakKeeps ==
  ASSUME StreamInv, Break
  PROVE  StreamInv'
  <1> USE DEF StreamInv
  <1>1. /\ gen = "paused" /\ gen' = "closing" /\ fate' = "broken"
        /\ closed' = (closed \/ outcome = "running")
        /\ UNCHANGED <<chunks, pending, nextGroup, counted, doneSeen, report,
                       handed, outcome, failed, channel, signal, abortPhase>>
    BY DEF Break, Finally, CancelLoop, callerVars
  <1>2. Pulled' = Pulled /\ ChannelInOrder' /\ DeliveryKept'
    BY <1>1 DEF Pulled, ChannelInOrder, DeliveryKept
  <1>3. CountsArePulls'
    BY <1>1, <1>2 DEF CountsArePulls
  <1>4. YieldedAreComplete'
    <2>1. Yielded' = nextGroup - 1 /\ Yielded = nextGroup
      BY <1>1 DEF Yielded
    <2>2. nextGroup \in Nat /\ DOMAIN Needs \subseteq Nat
      BY PlanType DEF CountsArePulls
    <2> QED BY <1>2, <2>1, <2>2 DEF YieldedAreComplete
  <1>5. GeneratorKept' /\ AbortCloses' /\ HistoryKept'
    BY <1>1 DEF GeneratorKept, AbortCloses, HistoryKept
  <1> QED BY <1>2, <1>3, <1>4, <1>5

LEMMA EndKeeps ==
  ASSUME StreamInv, End
  PROVE  StreamInv'
  <1> USE DEF StreamInv
  <1>1. /\ gen = "closing" /\ gen' = "ended" /\ report' = (fate = "complete")
        /\ UNCHANGED <<chunks, pending, nextGroup, counted, doneSeen, fate,
                       handed, closed, outcome, failed, channel, signal, abortPhase>>
    BY DEF End, loopVars, callerVars
  <1>2. Pulled' = Pulled /\ Yielded' = Yielded /\ ChannelInOrder' /\ DeliveryKept'
    BY <1>1 DEF Pulled, Yielded, ChannelInOrder, DeliveryKept
  <1>3. CountsArePulls' /\ YieldedAreComplete'
    BY <1>1, <1>2 DEF CountsArePulls, YieldedAreComplete
  <1>4. GeneratorKept'
    BY <1>1, <1>2 DEF GeneratorKept
  <1>5. AbortCloses' /\ HistoryKept'
    BY <1>1 DEF AbortCloses, HistoryKept
  <1> QED BY <1>2, <1>3, <1>4, <1>5

LEMMA CallerAbortsKeeps ==
  ASSUME StreamInv, CallerAborts
  PROVE  StreamInv'
  <1> USE DEF StreamInv
  <1>1. /\ ~signal /\ signal' = TRUE /\ abortPhase' = AbortPhase
        /\ IF gen \in {"pulling", "paused"} THEN closed' = (closed \/ outcome = "running")
                                            ELSE closed' = closed
        /\ UNCHANGED <<handed, outcome, failed, channel, chunks, pending, nextGroup,
                       counted, doneSeen, gen, fate, report>>
    BY DEF CallerAborts, CancelLoop, genVars
  <1>2. Pulled' = Pulled /\ Yielded' = Yielded /\ ChannelInOrder' /\ DeliveryKept'
    BY <1>1 DEF Pulled, Yielded, ChannelInOrder, DeliveryKept
  <1>3. CountsArePulls' /\ YieldedAreComplete' /\ GeneratorKept'
    BY <1>1, <1>2 DEF CountsArePulls, YieldedAreComplete, GeneratorKept
  <1>4. /\ AbortPhase \in {"fetching", "streaming", "late"}
        /\ AbortPhase = "fetching" =>
             gen \in {"pulling", "paused"} /\ outcome = "running" /\ ~failed
    <2>1. CASE gen \notin {"pulling", "paused"}
      BY <2>1 DEF AbortPhase
    <2>2. CASE gen \in {"pulling", "paused"} /\ outcome = "running" /\ ~failed
      BY <2>2 DEF AbortPhase
    <2>3. CASE gen \in {"pulling", "paused"} /\ (outcome # "running" \/ failed)
      BY <2>3 DEF AbortPhase
    <2> QED BY <2>1, <2>2, <2>3
  <1>5. AbortCloses' /\ HistoryKept'
    BY <1>1, <1>4 DEF AbortCloses, HistoryKept, GeneratorKept
  <1> QED BY <1>2, <1>3, <1>5

LEMMA StutterKeeps ==
  ASSUME StreamInv, UNCHANGED vars
  PROVE  StreamInv'
  <1>1. UNCHANGED <<chunks, pending, nextGroup, counted, doneSeen, gen, fate, report,
                    handed, closed, outcome, failed, channel, signal, abortPhase>>
    BY DEF vars, genVars, loopVars, callerVars
  <1>2. Pulled' = Pulled /\ Yielded' = Yielded
    BY <1>1 DEF Pulled, Yielded
  <1> QED
    BY <1>1, <1>2 DEF StreamInv, DeliveryKept, ChannelInOrder, CountsArePulls,
                      YieldedAreComplete, GeneratorKept, AbortCloses, HistoryKept

LEMMA NextStreamInv == StreamInv /\ [Next]_vars => StreamInv'
  <1> SUFFICES ASSUME StreamInv, [Next]_vars PROVE StreamInv'
    OBVIOUS
  <1>1. CASE Loop
    BY <1>1, LoopDeliversKeeps, LoopFailsKeeps, LoopSettlesKeeps DEF Loop
  <1>2. CASE Generator
    BY <1>2, PullChunkKeeps, ProgressThrowsKeeps, PullDoneKeeps, PullErrorKeeps, EndKeeps
       DEF Generator
  <1>3. CASE Resume \/ Break
    BY <1>3, ResumeKeeps, BreakKeeps
  <1>4. CASE CallerAborts
    BY <1>4, CallerAbortsKeeps
  <1>5. CASE Ended \/ UNCHANGED vars
    BY <1>5, StutterKeeps DEF Ended
  <1> QED BY <1>1, <1>2, <1>3, <1>4, <1>5 DEF Next

LEMMA SpecStreamInv == Spec => []StreamInv
  BY InitStreamInv, NextStreamInv, PTL DEF Spec

-----------------------------------------------------------------------------
(***************************************************************************)
(* What the generator promises                                             *)
(***************************************************************************)

\* The generator of Dianome.stream (index.ts) holds exactly the pulled chunks
\* that a group not yet yielded needs, for any plan and any arrival order.
THEOREM HeldIsNeeded == Spec => []HoldsExactlyTheNeeded
  <1>1. StreamInv => TypeOK
    <2> SUFFICES ASSUME StreamInv PROVE TypeOK
      OBVIOUS
    <2> USE DEF StreamInv
    <2>1. Cardinality(Chunks) \in Nat
      BY ChunksAreFinite, FS_CardinalityType
    <2>2. ASSUME NEW g \in DOMAIN Needs
          PROVE  Cardinality(ToSet(Needs[g]) \ Pulled) \in 0..Cardinality(Chunks)
      <3>1. ToSet(Needs[g]) \ Pulled \subseteq Chunks
        BY PlanType
      <3>2. /\ IsFiniteSet(ToSet(Needs[g]) \ Pulled)
            /\ Cardinality(ToSet(Needs[g]) \ Pulled) <= Cardinality(Chunks)
        BY <3>1, ChunksAreFinite, FS_Subset
      <3>3. Cardinality(ToSet(Needs[g]) \ Pulled) \in Nat
        BY <3>2, FS_CardinalityType
      <3> QED BY <2>1, <3>2, <3>3
    <2>3. pending \in [DOMAIN Needs -> 0..Cardinality(Chunks)]
      BY <2>2 DEF CountsArePulls
    <2>4. counted \in 0..Cardinality(Chunks)
      <3>1. Pulled \subseteq Chunks
        BY DEF Pulled
      <3>2. IsFiniteSet(Pulled) /\ Cardinality(Pulled) <= Cardinality(Chunks)
        BY <3>1, ChunksAreFinite, FS_Subset
      <3>3. Cardinality(Pulled) \in Nat
        BY <3>2, FS_CardinalityType
      <3> QED BY <2>1, <3>2, <3>3 DEF CountsArePulls
    <2> QED
      BY <2>3, <2>4 DEF TypeOK, ChannelInOrder, CountsArePulls, GeneratorKept, HistoryKept
  <1>2. StreamInv => HoldsExactlyTheNeeded
    <2> SUFFICES ASSUME StreamInv, gen \in {"pulling", "paused"}
                 PROVE  chunks = {c \in Chunks : /\ handed[c] # <<>>
                                                 /\ c \notin ToSet(channel)
                                                 /\ LastUse(c) > Yielded}
      BY <1>1 DEF HoldsExactlyTheNeeded
    <2>1. chunks = {c \in Pulled : LastUse(c) > Yielded}
      BY DEF StreamInv, GeneratorKept
    <2> QED BY <2>1 DEF Pulled
  <1> QED BY <1>2, SpecStreamInv, PTL

\* No group lacks a chunk when it is assembled, and a load that completes has
\* yielded every group and counted every chunk once.
THEOREM CompleteLoadsAreWhole == Spec => []CompleteMeansEverything
  <1>1. StreamInv => CompleteMeansEverything
    BY DEF StreamInv, GeneratorKept, CountsArePulls, CompleteMeansEverything
  <1> QED BY <1>1, SpecStreamInv, PTL

\* A caller who aborts while the loop is fetching never gets a complete load
\* or another error, and the load is not reported.
THEOREM EarlyAbortsWin == Spec => []AbortInTimeWins
  <1>1. StreamInv => AbortInTimeWins
    BY DEF StreamInv, GeneratorKept, AbortCloses, AbortInTimeWins
  <1> QED BY <1>1, SpecStreamInv, PTL
=============================================================================
