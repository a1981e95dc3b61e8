--------------------------- MODULE MCPerSiteStore ---------------------------
(***************************************************************************)
(* Workloads for PerSiteStore.                                             *)
(***************************************************************************)
EXTENDS PerSiteStore, TLC

Load(tab, model, sha) == [kind |-> "load", tab |-> tab, model |-> model, sha |-> sha]
EvictModel(tab, model) == [kind |-> "evictModel", tab |-> tab, model |-> model]
Clear(tab) == [kind |-> "clear", tab |-> tab]

UnitSizes == [s \in Shas |-> 1]
NothingStored == [s \in {} |-> {}]

\* One page loads model A into a cache that model B fills.
OneLoad ==
  [tasks |-> {Load(1, "A", s) : s \in {"a1", "a2", "a3"}},
   precedes |-> {},
   stored |-> ("b1" :> {"B"}) @@ ("b2" :> {"B"}) @@ ("a1" :> {"A"}),
   rotten |-> {"a1"}, capacity |-> 3, tabsMayClose |-> FALSE]

\* The page drops model B, which shares y with C, while it loads A and C.
DropModel ==
  [tasks |-> {Load(1, "A", "a1"), Load(1, "A", "a2"), Load(1, "C", "y"),
              EvictModel(1, "B")},
   precedes |-> {},
   stored |-> ("b1" :> {"B"}) @@ ("y" :> {"B", "C"}) @@ ("a1" :> {"A"}),
   rotten |-> {"a1"}, capacity |-> 4, tabsMayClose |-> FALSE]

\* A page clears the cache, then loads again; an earlier load may be under way.
ClearAndLoad ==
  [tasks |-> {Load(1, "A", "a1"), Clear(1), Load(1, "A", "a2"), Load(1, "B", "b1")},
   precedes |-> {<<Clear(1), Load(1, "A", "a2")>>, <<Clear(1), Load(1, "B", "b1")>>},
   stored |-> "b1" :> {"B"},
   rotten |-> {}, capacity |-> 3, tabsMayClose |-> FALSE]

\* Two pages load the same model, and may be closed.
SameModelTwice ==
  [tasks |-> {Load(tab, "A", s) : tab \in {1, 2}, s \in {"a1", "a2"}},
   precedes |-> {},
   stored |-> ("b1" :> {"B"}) @@ ("a1" :> {"A"}),
   rotten |-> {}, capacity |-> 2, tabsMayClose |-> TRUE]

\* Two pages load two models into a cache too small for both.
TwoModels ==
  [tasks |-> {Load(1, "A", "a1"), Load(1, "A", "a2"),
              Load(2, "B", "b1"), Load(2, "B", "b2")},
   precedes |-> {},
   stored |-> NothingStored,
   rotten |-> {}, capacity |-> 2, tabsMayClose |-> TRUE]

\* The page drops model B while another page loads its chunks, for B and for A.
DropWhileLoading ==
  [tasks |-> {EvictModel(1, "B"), Load(2, "A", "b1"), Load(2, "A", "b2"), Load(1, "C", "y")},
   precedes |-> {},
   stored |-> ("b1" :> {"B"}) @@ ("b2" :> {"B"}) @@ ("y" :> {"B"}),
   rotten |-> {"b2"}, capacity |-> 3, tabsMayClose |-> FALSE]

\* Making room for A removes a chunk that other loads use, one of them for A.
RoomAtOthersCost ==
  [tasks |-> {Load(1, "A", "a1"), Load(2, "A", "b1"), Load(1, "B", "b2")},
   precedes |-> {},
   stored |-> ("b1" :> {"B"}) @@ ("b2" :> {"B"}),
   rotten |-> {}, capacity |-> 2, tabsMayClose |-> TRUE]

AllWorkloads == {OneLoad, DropModel, ClearAndLoad, SameModelTwice, TwoModels,
                 DropWhileLoading, RoomAtOthersCost}

\* A page clears the cache while another one is open.
ClearElsewhere ==
  [tasks |-> {Load(2, "A", "a1"), Clear(1), Load(2, "A", "a2")},
   precedes |-> {<<Load(2, "A", "a1"), Clear(1)>>, <<Clear(1), Load(2, "A", "a2")>>},
   stored |-> NothingStored,
   rotten |-> {}, capacity |-> 2, tabsMayClose |-> FALSE]

ClearedElsewhere == {ClearElsewhere}
=============================================================================
