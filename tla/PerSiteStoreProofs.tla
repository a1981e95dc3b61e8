-------------------------- MODULE PerSiteStoreProofs --------------------------
(***************************************************************************)
(* Proofs about PerSiteStore for any workload: any calls of any number of  *)
(* pages, any earlier contents of the cache.                               *)
(*                                                                         *)
(* The invariant is stated of one chunk that has not been crossed: no call *)
(* removes it while another uses it. The two halves of a put, and the two  *)
(* halves of an eviction, then follow one another for that chunk although  *)
(* nothing keeps them together, and what a call has read of its record is  *)
(* still what the record says when the call writes.                        *)
(***************************************************************************)
EXTENDS PerSiteStore, FiniteSetTheorems, TLAPS

Loading == {"missing", "touch", "touchBad", "corrupt", "put", "lru", "metaGet", "metaPut"}
Clearing == {"forget", "clearMeta"}
Calls == {"called", "evict", "writeBack", "done", "gone"} \cup Loading \cup Clearing

Records(m, now) ==
  /\ DOMAIN m \subseteq Shas
  /\ \A s \in DOMAIN m : m[s].owners \subseteq Models /\ m[s].at \in 0..now

StorageTyped ==
  /\ bodies \in [Caches -> SUBSET Shas] /\ rotten \subseteq Shas
  /\ current \in Nat \ {0}
  /\ handle \in [Tabs -> 0..current]
  /\ clock \in Nat /\ Records(meta, clock)

CallsTyped ==
  /\ pc \in [Tasks -> Calls]
  /\ cache \in [Tasks -> 0..current] /\ from \in [Tasks -> 0..current]
  /\ DOMAIN snap = Tasks /\ \A t \in Tasks : Records(snap[t], clock)
  /\ todo \in [Tasks -> SUBSET Shas] /\ victims \in [Tasks -> SUBSET Shas]
  /\ result \in [Tasks -> {"none", "hit", "stored", "quota", "evicted", "cleared"}]

\* There are no more caches than clears have begun.
Clears == {c \in Tasks : c.kind = "clear"}
CachesCounted == current - 1 <= Cardinality({c \in Clears : pc[c] # "called"})

TypesKept ==
  work \in Workloads /\ StorageTyped /\ CallsTyped /\ crossed \subseteq Shas /\ CachesCounted

\* What a task is waiting for, by its kind, and the caches it works on.
TaskKept(t) ==
  /\ pc[t] \in Loading => t.kind = "load"
  /\ pc[t] \in Clearing => t.kind = "clear"
  /\ pc[t] = "writeBack" => t.kind = "evictModel" /\ todo[t] \subseteq DOMAIN snap[t]
  /\ pc[t] = "evict" =>
       t.kind \in {"load", "evictModel"} /\ from[t] # 0 /\ todo[t] \subseteq victims[t]
  /\ pc[t] \in {"put", "lru", "metaGet", "metaPut"} => cache[t] # 0
  /\ pc[t] = "called" => cache[t] = 0
  /\ result[t] = "evicted" => t.kind = "evictModel" /\ pc[t] = "done"

TasksKept == \A t \in Tasks : TaskKept(t)

CachesKept == \A k \in Caches : k > current => bodies[k] = {}

-----------------------------------------------------------------------------
Uses(u, s) ==
  \/ pc[u] = "writeBack" /\ s \in todo[u]
  \/ pc[u] \notin {"called", "done", "gone", "writeBack"} /\ u.kind = "load" /\ u.sha = s

Removes(t, s) ==
  \/ pc[t] = "evict" /\ s \in victims[t]
  \/ pc[t] = "writeBack" /\ s \in victims[t] \cup todo[t]
  \/ pc[t] \in Clearing

Apart(s) == \A t, u \in Tasks : t # u /\ Removes(t, s) => ~Uses(u, s)

NobodyGone == \A t \in Tasks : pc[t] # "gone"

\* A record without a body is being evicted, or everything is; a body without
\* a record is being stored. Who opened a cache before its deletion touches no
\* chunk of the new one.
BodyFollowsRecord(s) ==
  /\ s \in bodies[current] /\ s \notin DOMAIN meta =>
       \E t \in Tasks : t.kind = "load" /\ t.sha = s /\ pc[t] \in {"metaGet", "metaPut"}
  /\ s \in DOMAIN meta /\ s \notin bodies[current] =>
       \E u \in Tasks : \/ pc[u] = "evict" /\ s \in victims[u] \ todo[u]
                        \/ pc[u] \in Clearing
  /\ \A u \in Tasks : pc[u] = "evict" /\ s \in victims[u] /\ s \in bodies[current] =>
       s \in todo[u] /\ from[u] = current
  /\ \A t \in Tasks :
       t.kind = "load" /\ t.sha = s =>
         /\ pc[t] \in Loading \cup {"evict"} => cache[t] \in {0, current}
         /\ pc[t] \in {"metaGet", "metaPut"} => s \in bodies[current]

BodyKept(s) ==
  NobodyGone =>
    /\ \A c \in Tasks : pc[c] \in Clearing => s \notin bodies[current]
    /\ HandlesAreFresh => BodyFollowsRecord(s)

-----------------------------------------------------------------------------
Unloaded(M) == \A u \in Tasks : u.kind = "load" /\ u.model = M => pc[u] = "called"

\* What an eviction of a model has read of a record is what it says.
RecordKept(s) ==
  /\ s \in DOMAIN meta => meta[s].owners # {}
  /\ \A t \in Tasks : pc[t] = "writeBack" /\ s \in todo[t] =>
       /\ s \in DOMAIN meta /\ s \in DOMAIN snap[t] /\ meta[s] = snap[t][s]
       /\ t.model \in snap[t][s].owners /\ snap[t][s].owners # {t.model}
  /\ \A t \in Tasks : t.kind = "load" /\ pc[t] = "evict" /\ s \in victims[t] /\ s # t.sha =>
       t.model \notin OwnersIn(meta, s)

\* What has still to go of a model that nobody loads.
OwnersKept(s) ==
  /\ \A u \in Tasks, M \in Models :
       u.kind = "load" /\ u.sha = s /\ pc[u] = "metaPut" /\ Unloaded(M) =>
         (M \in OwnersIn(snap[u], s) <=> M \in OwnersIn(meta, s))
  /\ \A t \in Tasks :
       t.kind = "evictModel" /\ Unloaded(t.model) /\ t.model \in OwnersIn(meta, s) =>
         /\ pc[t] = "writeBack" => s \in todo[t] \cup victims[t]
         /\ pc[t] = "evict" => s \in victims[t]
         /\ result[t] # "evicted"

ChunksKept ==
  \A s \in Shas \ crossed : Apart(s) /\ BodyKept(s) /\ RecordKept(s) /\ OwnersKept(s)

StoreInv == TypesKept /\ TasksKept /\ CachesKept /\ ChunksKept
-----------------------------------------------------------------------------
(***************************************************************************)
(* What the steps have in common                                           *)
(***************************************************************************)

\* A step of one call leaves what the others have chosen, read and reached.
Alone(t) ==
  \A u \in Tasks \ {t} :
    /\ pc'[u] = pc[u] /\ cache'[u] = cache[u] /\ from'[u] = from[u] /\ snap'[u] = snap[u]
    /\ todo'[u] = todo[u] /\ victims'[u] = victims[u] /\ result'[u] = result[u]

\* Who crosses nobody is apart.
LEMMA NotCrossingIsApart == \A s \in Shas : s \notin Crossing => Apart(s)
  <1> SUFFICES ASSUME NEW s \in Shas, ~Apart(s) PROVE s \in Crossing
    OBVIOUS
  <1>1. PICK t \in Tasks, u \in Tasks : t # u /\ Removes(t, s) /\ Uses(u, s)
    BY DEF Apart
  <1>2. t \in Removers
    BY <1>1 DEF Removes, Removers, Clearing
  <1>3. s \in RemovedBy(t)
    BY <1>1 DEF Removes, RemovedBy, Clearing
  <1>4. s \in UsedBy(u)
    BY <1>1 DEF Uses, UsedBy
  <1> QED
    BY <1>1, <1>2, <1>3, <1>4 DEF Crossing

\* A chunk that a step leaves uncrossed was so before, and is apart after it.
LEMMA UncrossedIsApart ==
  Note => \A s \in Shas \ crossed' : s \notin crossed /\ Apart(s)'
  <1>1. (\A s \in Shas : s \notin Crossing => Apart(s))'
    BY NotCrossingIsApart, PTL
  <1> QED
    BY <1>1 DEF Note

\* Clears are tasks, so there are finitely many.
LEMMA ClearsAreFinite ==
  ASSUME work \in Workloads
  PROVE  /\ IsFiniteSet(Clears)
         /\ \A S \in SUBSET Clears :
              IsFiniteSet(S) /\ Cardinality(S) \in Nat /\ Cardinality(S) <= Cardinality(Clears)
  <1>1. IsFiniteSet(Tasks)
    BY StoreAssumption DEF Tasks
  <1>2. IsFiniteSet(Clears)
    BY <1>1, FS_Subset DEF Clears
  <1> QED
    BY <1>2, FS_Subset, FS_CardinalityType

LEMMA WorkIsTyped ==
  ASSUME work \in Workloads
  PROVE  \A t \in Tasks : /\ t.kind \in {"load", "evictModel", "clear"} /\ t.tab \in Tabs
                          /\ t.kind # "clear" => t.model \in Models
                          /\ t.kind = "load" => t.sha \in Shas
  BY StoreAssumption DEF Tasks

LEMMA CurrentIsACache ==
  ASSUME TypesKept
  PROVE  /\ current \in Caches
         /\ \A t \in Clears : pc[t] = "called" => current + 1 \in Caches
  <1> DEFINE begun == {c \in Clears : pc[c] # "called"}
             n == Cardinality(Clears)
  <1>1. IsFiniteSet(begun) /\ Cardinality(begun) \in Nat /\ Cardinality(begun) <= n /\ n \in Nat
    BY ClearsAreFinite DEF TypesKept
  <1>2. Caches = 1..(1 + n)
    BY DEF Caches, Clears
  <1>3. current \in Nat \ {0} /\ current - 1 <= Cardinality(begun)
    BY DEF TypesKept, StorageTyped, CachesCounted
  <1>4. ASSUME NEW t \in Clears, pc[t] = "called" PROVE current + 1 \in Caches
    <2>1. Cardinality(begun \cup {t}) = Cardinality(begun) + 1
      BY <1>1, <1>4, FS_AddElement
    <2>2. Cardinality(begun \cup {t}) <= n
      BY <1>4, ClearsAreFinite DEF TypesKept
    <2> HIDE DEF n, begun
    <2> QED
      BY <1>1, <1>2, <1>3, <2>1, <2>2
  <1>5. current \in Caches
    <2> HIDE DEF n, begun
    <2> QED
      BY <1>1, <1>2, <1>3
  <1> QED
    BY <1>4, <1>5

LEMMA InitStoreInv == Init => StoreInv
  <1> SUFFICES ASSUME Init PROVE StoreInv
    OBVIOUS
  <1>1. work \in Workloads /\ current = 1
    BY DEF Init
  <1>2. DOMAIN Stored \subseteq Shas /\ rotten \subseteq DOMAIN Stored
        /\ \A s \in DOMAIN Stored : Stored[s] \in (SUBSET Models) \ {{}}
    BY <1>1, StoreAssumption DEF Init, Stored
  <1>3. IsFiniteSet(DOMAIN Stored) /\ clock \in Nat /\ clock = Cardinality(DOMAIN Stored)
    BY <1>2, StoreAssumption, FS_Subset, FS_CardinalityType DEF Init
  <1>4. DOMAIN meta = DOMAIN Stored
        /\ \A s \in DOMAIN meta : meta[s].owners = Stored[s] /\ meta[s].at \in 1..clock
    <2>1. PICK order \in [DOMAIN Stored -> 1..Cardinality(DOMAIN Stored)] :
            meta = [s \in DOMAIN Stored |-> [owners |-> Stored[s], at |-> order[s]]]
      BY DEF Init
    <2> QED
      BY <1>3, <2>1
  <1>5. {c \in Clears : pc[c] # "called"} = {}
    BY DEF Init, Clears
  <1>6. Records(meta, clock) /\ \A t \in Tasks : Records(snap[t], clock)
    BY <1>2, <1>3, <1>4 DEF Init, Records, NoRecords
  <1>7. 1 \in Caches
    <2>1. Cardinality(Clears) \in Nat
      BY <1>1, ClearsAreFinite
    <2> QED
      BY <2>1 DEF Caches, Clears
  <1>8. TypesKept
    <2>1. bodies \in [Caches -> SUBSET Shas]
      BY <1>2 DEF Init
    <2>2. handle \in [Tabs -> 0..current] /\ current \in Nat \ {0}
      BY <1>1 DEF Init
    <2>3. current - 1 <= Cardinality({c \in Clears : pc[c] # "called"})
      BY <1>1, <1>5, FS_EmptySet
    <2>4. pc \in [Tasks -> Calls] /\ rotten \subseteq Shas /\ crossed \subseteq Shas
      BY <1>2 DEF Init, Calls
    <2>5. cache \in [Tasks -> 0..current] /\ from \in [Tasks -> 0..current]
      BY <1>1 DEF Init
    <2>6. todo \in [Tasks -> SUBSET Shas] /\ victims \in [Tasks -> SUBSET Shas]
          /\ result \in [Tasks -> {"none", "hit", "stored", "quota", "evicted", "cleared"}]
          /\ DOMAIN snap = Tasks
      BY DEF Init
    <2> QED
      BY <1>1, <1>3, <1>6, <2>1, <2>2, <2>3, <2>4, <2>5, <2>6
         DEF TypesKept, StorageTyped, CallsTyped, CachesCounted
  <1>9. TasksKept
    BY DEF Init, TasksKept, TaskKept, Loading, Clearing
  <1>10. CachesKept
    BY <1>1 DEF Init, CachesKept, Caches
  <1>11. ASSUME NEW s \in Shas PROVE Apart(s) /\ BodyKept(s) /\ RecordKept(s) /\ OwnersKept(s)
    <2>0. \A t \in Tasks : pc[t] = "called" /\ result[t] = "none"
      BY DEF Init
    <2>1. Apart(s)
      BY <2>0 DEF Apart, Uses, Removes, Clearing
    <2>2. s \in bodies[current] <=> s \in DOMAIN meta
      BY <1>1, <1>4, <1>7 DEF Init
    <2>3. BodyKept(s)
      BY <2>0, <2>2 DEF BodyKept, BodyFollowsRecord, Clearing, Loading
    <2>4. RecordKept(s)
      BY <1>2, <1>4, <2>0 DEF RecordKept
    <2>5. OwnersKept(s)
      BY <2>0 DEF OwnersKept
    <2> QED
      BY <2>1, <2>3, <2>4, <2>5
  <1> QED
    BY <1>8, <1>9, <1>10, <1>11 DEF StoreInv, ChunksKept

LEMMA ActsAreAlone ==
  ASSUME TypesKept, NEW t \in Tasks, Act(t)
  PROVE  Alone(t) /\ work' = work /\ Tasks' = Tasks /\ Caches' = Caches
  <1>0. work' = work
    BY DEF Act, Match, Touch, EvictCorrupt, OpenToPut, PutBody, PutHitsQuota, ChooseVictims,
       ReadRecord, WriteRecord, DeleteBody, WriteBack, DeleteRecords, ReadModel, WrittenBack,
       ClearBodies, ForgetHandle, ClearRecords
  <1>1. Tasks' = Tasks /\ Caches' = Caches
    BY <1>0 DEF Tasks, Caches
  <1> USE DEF Alone, Goto, Return, storage
  <1>2. ASSUME Match(t) \/ Touch(t) PROVE Alone(t)
    BY <1>2 DEF TypesKept, CallsTyped, Match, Touch
  <1>3. ASSUME EvictCorrupt(t) \/ OpenToPut(t) \/ ChooseVictims(t) PROVE Alone(t)
    BY <1>3 DEF TypesKept, CallsTyped, EvictCorrupt, OpenToPut, ChooseVictims, StartEvict
  <1>4. ASSUME PutBody(t) \/ PutHitsQuota(t) PROVE Alone(t)
    BY <1>4 DEF TypesKept, CallsTyped, PutBody, PutHitsQuota
  <1>5. ASSUME ReadRecord(t) \/ WriteRecord(t) PROVE Alone(t)
    BY <1>5 DEF TypesKept, CallsTyped, ReadRecord, WriteRecord
  <1>6. ASSUME NEW s \in Shas, DeleteBody(t, s) \/ WriteBack(t, s) PROVE Alone(t)
    BY <1>6 DEF TypesKept, CallsTyped, DeleteBody, WriteBack
  <1>7. ASSUME DeleteRecords(t) PROVE Alone(t)
    BY <1>7 DEF TypesKept, CallsTyped, DeleteRecords, Evicted
  <1>8. ASSUME ReadModel(t) PROVE Alone(t)
    BY <1>8 DEF TypesKept, CallsTyped, ReadModel
  <1>9. ASSUME WrittenBack(t) PROVE Alone(t)
    BY <1>9 DEF TypesKept, CallsTyped, WrittenBack, StartEvict
  <1>10. ASSUME ClearBodies(t) \/ ForgetHandle(t) \/ ClearRecords(t) PROVE Alone(t)
    BY <1>10 DEF TypesKept, CallsTyped, ClearBodies, ForgetHandle, ClearRecords
  <1> HIDE DEF Alone
  <1> QED
    BY <1>0, <1>1, <1>2, <1>3, <1>4, <1>5, <1>6, <1>7, <1>8, <1>9, <1>10 DEF Act

-----------------------------------------------------------------------------
(***************************************************************************)
(* Types                                                                   *)
(***************************************************************************)

LEMMA RecordsStay ==
  ASSUME NEW m, NEW now \in Nat, NEW later \in Nat, Records(m, now), now <= later
  PROVE  Records(m, later)
  BY DEF Records

LEMMA RecordAdded ==
  ASSUME NEW m, NEW now \in Nat, NEW later \in Nat, Records(m, now), now <= later,
         NEW s \in Shas, NEW owners \in SUBSET Models, NEW at \in 0..later
  PROVE  /\ Records(RecordOf(m, s, owners, at), later)
         /\ DOMAIN RecordOf(m, s, owners, at) = DOMAIN m \cup {s}
         /\ RecordOf(m, s, owners, at)[s].owners = owners
         /\ \A r \in DOMAIN m \ {s} : RecordOf(m, s, owners, at)[r] = m[r]
  BY DEF Records, RecordOf

LEMMA RecordWritten ==
  ASSUME TypesKept, clock' \in Nat, clock <= clock', NEW s \in Shas,
         NEW owners \in SUBSET Models, NEW at \in 0..clock',
         meta' = RecordOf(meta, s, owners, at)
  PROVE  /\ Records(meta', clock')
         /\ DOMAIN meta' = DOMAIN meta \cup {s}
         /\ meta'[s].owners = owners
         /\ \A r \in DOMAIN meta \ {s} : meta'[r] = meta[r]
  <1>1. Records(meta, clock) /\ clock \in Nat
    BY DEF TypesKept, StorageTyped
  <1> QED
    BY <1>1, RecordAdded

LEMMA RecordsRemoved ==
  ASSUME NEW m, NEW now \in Nat, Records(m, now), NEW S
  PROVE  /\ Records(Without(m, S), now)
         /\ DOMAIN Without(m, S) = DOMAIN m \ S
         /\ \A r \in DOMAIN m \ S : Without(m, S)[r] = m[r]
  BY DEF Records, Without

LEMMA NoRecordsAreRecords == \A now \in Nat : Records(NoRecords, now) /\ DOMAIN NoRecords = {}
  BY DEF Records, NoRecords

LEMMA OwnersAreModels ==
  ASSUME NEW m, NEW now \in Nat, Records(m, now), NEW s
  PROVE  OwnersIn(m, s) \subseteq Models
  BY DEF Records, OwnersIn

\* The kept cache of a tab and the one it opens are caches there have been.
LEMMA OpenedIsTyped ==
  ASSUME TypesKept, NEW t \in Tasks, NEW tab \in Tabs
  PROVE  Opened(tab) \in 1..current /\ Opened(tab) \in Caches
  <1>1. current \in Nat \ {0} /\ handle[tab] \in 0..current
    BY DEF TypesKept, StorageTyped
  <1>2. Opened(tab) \in 1..current
    BY <1>1 DEF Opened
  <1>3. current \in Caches
    BY CurrentIsACache
  <1>4. Cardinality(Clears) \in Nat
    BY ClearsAreFinite DEF TypesKept
  <1> QED
    BY <1>1, <1>2, <1>3, <1>4 DEF Caches, Clears

LEMMA StartEvictTyped ==
  ASSUME TypesKept, NEW t \in Tasks, NEW S \in SUBSET Shas, StartEvict(t, S),
         UNCHANGED <<work, current>>
  PROVE  /\ handle' \in [Tabs -> 0..current'] /\ from' \in [Tasks -> 0..current']
         /\ from'[t] \in 1..current' /\ from'[t] \in Caches
         /\ todo' \in [Tasks -> SUBSET Shas] /\ victims' \in [Tasks -> SUBSET Shas]
  <1>1. Opened(t.tab) \in 1..current /\ Opened(t.tab) \in Caches
    BY OpenedIsTyped, WorkIsTyped DEF TypesKept
  <1>2. from' \in [Tasks -> 0..current]
    BY <1>1 DEF TypesKept, StorageTyped, CallsTyped, StartEvict
  <1>5. handle' \in [Tabs -> 0..current]
    <2>1. handle' = [handle EXCEPT ![t.tab] = Opened(t.tab)]
      BY DEF StartEvict, Memoize
    <2>2. handle \in [Tabs -> 0..current] /\ Opened(t.tab) \in 0..current
      BY <1>1 DEF TypesKept, StorageTyped
    <2> QED
      BY <2>1, <2>2
  <1>3. from'[t] = Opened(t.tab) /\ current' = current
    BY DEF TypesKept, CallsTyped, StartEvict
  <1>4. todo' \in [Tasks -> SUBSET Shas] /\ victims' \in [Tasks -> SUBSET Shas]
    BY DEF TypesKept, CallsTyped, StartEvict
  <1> QED
    BY <1>1, <1>2, <1>3, <1>4, <1>5

LEMMA TypesKeptByActs ==
  ASSUME TypesKept, TasksKept, NEW t \in Tasks, Act(t)
  PROVE  StorageTyped' /\ CallsTyped'
  <1> DEFINE Goal == StorageTyped' /\ CallsTyped'
  <1>0. work' = work /\ Tasks' = Tasks /\ Caches' = Caches /\ t.tab \in Tabs
        /\ current \in Nat \ {0} /\ clock \in Nat /\ current \in Caches
        /\ (pc[t] \in Loading => t.sha \in Shas /\ t.model \in Models)
        /\ (pc[t] = "writeBack" => t.model \in Models)
    BY ActsAreAlone, WorkIsTyped, CurrentIsACache DEF TypesKept, StorageTyped, TasksKept, TaskKept
  <1>r. /\ Records(meta, clock) /\ Records(meta, clock + 1)
        /\ \A u \in Tasks : Records(snap[u], clock) /\ Records(snap[u], clock + 1)
    BY <1>0, RecordsStay DEF TypesKept, StorageTyped, CallsTyped
  <1>o. Opened(t.tab) \in 1..current /\ Opened(t.tab) \in Caches
    BY <1>0, OpenedIsTyped
  <1> USE DEF TypesKept, StorageTyped, CallsTyped, Goto, Return, storage, Calls, Loading, Clearing
  <1>1. CASE Match(t)
    BY <1>0, <1>r, <1>o, <1>1 DEF Match, Memoize
  <1>2. CASE Touch(t)
    <2>1. Records(meta', clock')
      <3>1. CASE t.sha \in DOMAIN meta
        <4>1. meta[t.sha].owners \cup {t.model} \in SUBSET Models
          BY <1>0, <1>r, <1>2, <3>1 DEF Touch, Records
        <4>2. meta' = RecordOf(meta, t.sha, meta[t.sha].owners \cup {t.model}, Stamp)
              /\ clock' = clock + 1 /\ Stamp \in 0..(clock + 1)
          BY <1>0, <1>2, <3>1 DEF Touch, Stamp
        <4> QED
          <5> HIDE DEF TypesKept
          <5>1. t.sha \in Shas /\ clock' \in Nat /\ clock <= clock' /\ Stamp \in 0..clock'
            BY <1>0, <1>2, <4>2 DEF Touch
          <5> QED
            BY <4>1, <4>2, <5>1, RecordWritten
      <3>2. CASE t.sha \notin DOMAIN meta
        BY <1>0, <1>r, <1>2, <3>2 DEF Touch
      <3> QED
        BY <3>1, <3>2
    <2> QED
      BY <1>0, <1>r, <1>2, <2>1 DEF Touch
  <1>3. CASE EvictCorrupt(t)
    <2>1. {t.sha} \in SUBSET Shas
      BY <1>0, <1>3 DEF EvictCorrupt
    <2> QED
      BY <1>0, <1>r, <1>3, <2>1, StartEvictTyped DEF EvictCorrupt
  <1>4. CASE OpenToPut(t)
    BY <1>0, <1>r, <1>o, <1>4 DEF OpenToPut, Memoize
  <1>5. CASE PutBody(t)
    BY <1>0, <1>r, <1>5 DEF PutBody
  <1>6. CASE PutHitsQuota(t)
    BY <1>0, <1>r, <1>6 DEF PutHitsQuota
  <1>7. CASE ChooseVictims(t)
    <2>1. LruVictims(meta, Size[t.sha], t.model) \in SUBSET Shas
      BY <1>r DEF LruVictims, Records
    <2> QED
      BY <1>0, <1>r, <1>7, <2>1, StartEvictTyped DEF ChooseVictims
  <1>8. CASE ReadRecord(t)
    BY <1>0, <1>r, <1>8 DEF ReadRecord
  <1>9. CASE WriteRecord(t)
    <2>1. OwnersIn(snap[t], t.sha) \cup {t.model} \in SUBSET Models
      BY <1>0, <1>r, <1>9, OwnersAreModels DEF WriteRecord
    <2>2. meta' = RecordOf(meta, t.sha, OwnersIn(snap[t], t.sha) \cup {t.model}, Stamp)
          /\ clock' = clock + 1 /\ Stamp \in 0..(clock + 1)
      BY <1>0, <1>9 DEF WriteRecord, Stamp
    <2>3. Records(meta', clock')
      <3> HIDE DEF TypesKept
      <3>1. t.sha \in Shas /\ clock' \in Nat /\ clock <= clock' /\ Stamp \in 0..clock'
        BY <1>0, <1>9, <2>2 DEF WriteRecord
      <3> QED
        BY <2>1, <2>2, <3>1, RecordWritten
    <2> QED
      BY <1>0, <1>r, <1>9, <2>3 DEF WriteRecord
  <1>10. ASSUME NEW s \in Shas, DeleteBody(t, s) PROVE Goal
    BY <1>0, <1>r, <1>10 DEF DeleteBody
  <1>11. ASSUME NEW s \in Shas, WriteBack(t, s) PROVE Goal
    <2>1. PICK owners \in SUBSET Models, at \in 0..clock : meta' = RecordOf(meta, s, owners, at)
      <3>1. s \in DOMAIN snap[t]
        BY <1>11 DEF WriteBack, TasksKept, TaskKept
      <3> QED
        BY <1>0, <1>r, <1>11, <3>1 DEF WriteBack, Records
    <2>2. Records(meta', clock')
      <3> HIDE DEF TypesKept
      <3>1. clock' \in Nat /\ clock <= clock' /\ at \in 0..clock'
        BY <1>0, <1>11 DEF WriteBack
      <3> QED
        BY <2>1, <3>1, RecordWritten
    <2> QED
      BY <1>0, <1>r, <1>11, <2>2 DEF WriteBack
  <1>12. CASE DeleteRecords(t)
    <2>1. Records(meta', clock')
      BY <1>0, <1>12, <1>r, RecordsRemoved DEF DeleteRecords
    <2> QED
      BY <1>0, <1>r, <1>12, <2>1 DEF DeleteRecords, Evicted
  <1>13. CASE ReadModel(t)
    <2> DEFINE mine == {s \in DOMAIN meta : t.model \in meta[s].owners}
               gone == {s \in mine : meta[s].owners = {t.model}}
    <2>1. mine \ gone \in SUBSET Shas /\ gone \in SUBSET Shas
      BY <1>r DEF Records
    <2>2. todo' = [todo EXCEPT ![t] = mine \ gone] /\ victims' = [victims EXCEPT ![t] = gone]
          /\ snap' = [snap EXCEPT ![t] = meta] /\ pc' = [pc EXCEPT ![t] = "writeBack"]
          /\ UNCHANGED <<bodies, rotten, current, handle, meta, clock, cache, from, result>>
      BY <1>13 DEF ReadModel
    <2> HIDE DEF mine, gone
    <2> QED
      BY <1>0, <1>r, <2>1, <2>2
  <1>14. CASE WrittenBack(t)
    BY <1>0, <1>r, <1>14, StartEvictTyped DEF WrittenBack
  <1>15. CASE ClearBodies(t)
    BY <1>0, <1>r, <1>15 DEF ClearBodies
  <1>16. CASE ForgetHandle(t)
    BY <1>0, <1>r, <1>16 DEF ForgetHandle
  <1>17. CASE ClearRecords(t)
    BY <1>0, <1>r, <1>17, NoRecordsAreRecords DEF ClearRecords
  <1> QED
    BY <1>1, <1>2, <1>3, <1>4, <1>5, <1>6, <1>7, <1>8, <1>9, <1>10, <1>11, <1>12, <1>13, <1>14,
       <1>15, <1>16, <1>17 DEF Act

\* No call is made twice, and only a clear makes a new cache.
LEMMA CallsGoOn ==
  ASSUME TypesKept, NEW t \in Tasks, Act(t)
  PROVE  /\ pc'[t] # "called"
         /\ \/ current' = current
            \/ t \in Clears /\ pc[t] = "called" /\ current' = current + 1
  <1> USE DEF TypesKept, CallsTyped, Goto, Return, storage
  <1>1. ASSUME Match(t) \/ Touch(t) \/ EvictCorrupt(t) \/ OpenToPut(t)
        PROVE  pc'[t] # "called" /\ current' = current
    BY <1>1 DEF Match, Touch, EvictCorrupt, OpenToPut
  <1>2. ASSUME PutBody(t) \/ PutHitsQuota(t) \/ ChooseVictims(t)
        PROVE  pc'[t] # "called" /\ current' = current
    BY <1>2 DEF PutBody, PutHitsQuota, ChooseVictims
  <1>3. ASSUME ReadRecord(t) \/ WriteRecord(t) \/ DeleteRecords(t)
        PROVE  pc'[t] # "called" /\ current' = current
    BY <1>3 DEF ReadRecord, WriteRecord, DeleteRecords, Evicted
  <1>4. ASSUME NEW s \in Shas, DeleteBody(t, s) \/ WriteBack(t, s)
        PROVE  pc'[t] # "called" /\ current' = current
    BY <1>4 DEF DeleteBody, WriteBack
  <1>5. ASSUME ReadModel(t) \/ WrittenBack(t) PROVE pc'[t] # "called" /\ current' = current
    BY <1>5 DEF ReadModel, WrittenBack
  <1>6. ASSUME ForgetHandle(t) \/ ClearRecords(t) PROVE pc'[t] # "called" /\ current' = current
    BY <1>6 DEF ForgetHandle, ClearRecords
  <1>7. ASSUME ClearBodies(t)
        PROVE  pc'[t] # "called" /\ t \in Clears /\ pc[t] = "called" /\ current' = current + 1
    BY <1>7 DEF ClearBodies, Called, Clears
  <1> QED
    BY <1>1, <1>2, <1>3, <1>4, <1>5, <1>6, <1>7 DEF Act

LEMMA CachesStayCounted ==
  ASSUME TypesKept, UNCHANGED work,
         \A u \in Tasks : pc'[u] = "called" => pc[u] = "called",
         \/ current' = current
         \/ /\ current' = current + 1
            /\ \E t \in Clears : pc[t] = "called" /\ pc'[t] # "called"
  PROVE  CachesCounted'
  <1> DEFINE begun == {c \in Clears : pc[c] # "called"}
             later == {c \in Clears : pc'[c] # "called"}
  <1>1. Clears' = Clears /\ begun \subseteq later /\ work \in Workloads
    BY DEF Clears, Tasks, TypesKept
  <1>2. /\ IsFiniteSet(begun) /\ Cardinality(begun) \in Nat
        /\ IsFiniteSet(later) /\ Cardinality(later) \in Nat
        /\ Cardinality(begun) <= Cardinality(later)
    BY <1>1, ClearsAreFinite, FS_Subset
  <1>3. current - 1 <= Cardinality(begun) /\ current \in Nat
    BY DEF TypesKept, StorageTyped, CachesCounted
  <1>4. CASE current' = current
    <2>1. current' - 1 <= Cardinality(later)
      <3> HIDE DEF begun, later
      <3> QED
        BY <1>2, <1>3, <1>4
    <2> QED
      BY <1>1, <2>1 DEF CachesCounted
  <1>5. ASSUME current' = current + 1, NEW t \in Clears, pc[t] = "called", pc'[t] # "called"
        PROVE  CachesCounted'
    <2>1. t \in later /\ t \notin begun
      BY <1>5
    <2>2. Cardinality(begun \cup {t}) = Cardinality(begun) + 1
      BY <1>2, <2>1, FS_AddElement
    <2>3. begun \cup {t} \subseteq later
      BY <1>1, <2>1
    <2>4. Cardinality(begun \cup {t}) <= Cardinality(later)
      BY <1>2, <2>3, FS_Subset
    <2>5. current' - 1 <= Cardinality(later)
      <3> HIDE DEF begun, later
      <3> QED
        BY <1>2, <1>3, <1>5, <2>2, <2>4
    <2> QED
      BY <1>1, <2>5 DEF CachesCounted
  <1> QED
    BY <1>4, <1>5

-----------------------------------------------------------------------------
(***************************************************************************)
(* Calls and caches                                                        *)
(***************************************************************************)

LEMMA TasksKeptByActs ==
  ASSUME TypesKept, TasksKept, NEW t \in Tasks, Act(t)
  PROVE  TasksKept'
  <1>0. Alone(t) /\ Tasks' = Tasks
    BY ActsAreAlone
  <1>1. TaskKept(t)
    BY DEF TasksKept
  <1>2. TaskKept(t)'
    <2> USE DEF TypesKept, CallsTyped, TaskKept, Goto, Return, storage, Loading, Clearing
    <2>0. result[t] = "evicted" => pc[t] = "done"
      BY <1>1
    <2>o. Opened(t.tab) # 0 /\ t.tab \in Tabs
      <3>1. t.tab \in Tabs
        BY WorkIsTyped
      <3> QED
        BY <3>1, OpenedIsTyped DEF StorageTyped
    <2>1. CASE Match(t)
      BY <1>1, <2>0, <2>1 DEF Match, Called
    <2>2. CASE Touch(t)
      BY <1>1, <2>0, <2>2 DEF Touch
    <2>3. CASE EvictCorrupt(t) \/ ChooseVictims(t)
      BY <1>1, <2>0, <2>o, <2>3 DEF EvictCorrupt, ChooseVictims, StartEvict
    <2>4. CASE OpenToPut(t)
      BY <1>1, <2>0, <2>o, <2>4 DEF OpenToPut
    <2>5. CASE PutBody(t) \/ PutHitsQuota(t)
      BY <1>1, <2>0, <2>5 DEF PutBody, PutHitsQuota
    <2>6. CASE ReadRecord(t) \/ WriteRecord(t)
      BY <1>1, <2>0, <2>6 DEF ReadRecord, WriteRecord
    <2>7. ASSUME NEW s \in Shas, DeleteBody(t, s) \/ WriteBack(t, s) PROVE TaskKept(t)'
      BY <1>1, <2>0, <2>7 DEF DeleteBody, WriteBack
    <2>8. CASE DeleteRecords(t)
      BY <1>1, <2>0, <2>8 DEF DeleteRecords, Evicted
    <2>9. CASE ReadModel(t)
      BY <1>1, <2>0, <2>9 DEF ReadModel, Called
    <2>10. CASE WrittenBack(t)
      BY <1>1, <2>0, <2>o, <2>10 DEF WrittenBack, StartEvict
    <2>11. CASE ClearBodies(t)
      BY <1>1, <2>0, <2>11 DEF ClearBodies, Called
    <2>12. CASE ForgetHandle(t) \/ ClearRecords(t)
      BY <1>1, <2>0, <2>12 DEF ForgetHandle, ClearRecords
    <2> HIDE DEF TaskKept
    <2> QED
      BY <2>1, <2>2, <2>3, <2>4, <2>5, <2>6, <2>7, <2>8, <2>9, <2>10, <2>11, <2>12 DEF Act
  <1> QED
    BY <1>0, <1>2 DEF TasksKept, TaskKept, Alone

LEMMA CachesKeptByActs ==
  ASSUME TypesKept, TasksKept, CachesKept, NEW t \in Tasks, Act(t)
  PROVE  CachesKept'
  <1>0. Caches' = Caches /\ current \in Nat /\ current' \in {current, current + 1}
    BY ActsAreAlone, CallsGoOn DEF TypesKept, StorageTyped
  <1>1. Caches \subseteq Nat
    <2>1. Cardinality(Clears) \in Nat
      BY ClearsAreFinite DEF TypesKept
    <2> QED
      BY <2>1 DEF Caches, Clears
  <1>2. ASSUME NEW k \in Caches, k > current' PROVE bodies'[k] \subseteq bodies[k]
    <2> USE DEF storage
    <2>1. k > current
      BY <1>0, <1>1, <1>2
    <2>2. CASE PutBody(t)
      <3>1. cache[t] \in 0..current
        BY DEF TypesKept, CallsTyped
      <3>2. k # cache[t]
        BY <1>0, <1>1, <2>1, <3>1
      <3> QED
        BY <2>2, <3>2 DEF PutBody, TypesKept, StorageTyped
    <2>3. ASSUME NEW s \in Shas, DeleteBody(t, s) PROVE bodies'[k] \subseteq bodies[k]
      BY <2>3 DEF DeleteBody, TypesKept, StorageTyped
    <2>4. ASSUME NEW s \in Shas, WriteBack(t, s) PROVE bodies'[k] = bodies[k]
      BY <2>4 DEF WriteBack
    <2> QED
      BY <2>2, <2>3, <2>4 DEF Act, Match, Touch, EvictCorrupt, OpenToPut, PutHitsQuota,
         ChooseVictims, ReadRecord, WriteRecord, DeleteRecords, ReadModel, WrittenBack,
         ClearBodies, ForgetHandle, ClearRecords
  <1>3. ASSUME NEW k \in Caches, k > current' PROVE k > current
    BY <1>0, <1>1, <1>3
  <1> QED
    BY <1>0, <1>2, <1>3 DEF CachesKept

-----------------------------------------------------------------------------
(***************************************************************************)
(* Records: what an eviction has read is what it writes over               *)
(***************************************************************************)

\* What a step does to the record of a chunk: nothing, or what the task's kind
\* of step does to a chunk that it uses or removes.
RecordSame(s) == (s \in DOMAIN meta' <=> s \in DOMAIN meta)
                   /\ (s \in DOMAIN meta => meta'[s] = meta[s])

RecordGains(s, t) ==
  /\ t.kind = "load" /\ t.sha = s
  /\ s \in DOMAIN meta' /\ t.model \in meta'[s].owners

RecordLoses(s, t) ==
  /\ pc[t] = "writeBack" /\ s \in todo[t] /\ s \notin todo'[t]
  /\ s \in DOMAIN meta' /\ meta'[s].owners = snap[t][s].owners \ {t.model}

LEMMA RecordSteps ==
  ASSUME TypesKept, TasksKept, NEW s \in Shas, NEW t \in Tasks, Act(t)
  PROVE  \/ RecordSame(s)
         \/ /\ pc[t] \in {"touch", "touchBad"} /\ RecordGains(s, t) /\ s \in DOMAIN meta
            /\ meta'[s].owners = meta[s].owners \cup {t.model}
         \/ /\ pc[t] = "metaPut" /\ RecordGains(s, t)
            /\ meta'[s].owners = OwnersIn(snap[t], s) \cup {t.model}
         \/ RecordLoses(s, t)
         \/ pc[t] = "evict" /\ todo[t] = {} /\ s \in victims[t] /\ s \notin DOMAIN meta'
         \/ pc[t] = "clearMeta" /\ s \notin DOMAIN meta'
  <1> USE DEF storage
  <1>0. TaskKept(t)
    BY DEF TasksKept
  <1>1. CASE Touch(t)
    BY <1>0, <1>1 DEF TaskKept, Touch, RecordOf, RecordSame, RecordGains, Loading
  <1>2. CASE WriteRecord(t)
    BY <1>0, <1>2 DEF TaskKept, WriteRecord, RecordOf, RecordSame, RecordGains, Loading
  <1>3. ASSUME NEW r \in Shas, WriteBack(t, r) PROVE RecordSame(s) \/ RecordLoses(s, t)
    <2>1. todo'[t] = todo[t] \ {r}
      BY <1>3 DEF WriteBack, TypesKept, CallsTyped
    <2> QED
      BY <1>3, <2>1 DEF WriteBack, RecordOf, RecordSame, RecordLoses
  <1>4. CASE DeleteRecords(t)
    BY <1>4 DEF DeleteRecords, Without, RecordSame
  <1>5. CASE ClearRecords(t)
    BY <1>5 DEF ClearRecords, NoRecords, RecordSame
  <1>6. ASSUME meta' = meta PROVE RecordSame(s)
    BY <1>6 DEF RecordSame
  <1>7. ASSUME NEW r \in Shas, DeleteBody(t, r) PROVE meta' = meta
    BY <1>7 DEF DeleteBody
  <1> QED
    BY <1>1, <1>2, <1>3, <1>4, <1>5, <1>6, <1>7 DEF Act, Match, EvictCorrupt, OpenToPut, PutBody,
       PutHitsQuota, ChooseVictims, ReadRecord, ReadModel, WrittenBack, ClearBodies, ForgetHandle

\* What a call removes or writes back was chosen when it read the records.
LEMMA ChoiceSteps ==
  ASSUME TypesKept, TasksKept, NEW s \in Shas, NEW t \in Tasks, Act(t)
  PROVE  /\ pc'[t] = "writeBack" /\ s \in todo'[t] =>
              \/ pc[t] = "writeBack" /\ s \in todo[t] /\ snap'[t] = snap[t]
              \/ /\ snap'[t] = meta /\ meta' = meta /\ s \in DOMAIN meta
                 /\ t.model \in meta[s].owners /\ meta[s].owners # {t.model}
         /\ t.kind = "load" /\ pc'[t] = "evict" /\ s \in victims'[t] /\ s # t.sha =>
              \/ pc[t] = "evict" /\ s \in victims[t]
              \/ pc[t] = "lru" /\ meta' = meta /\ t.model \notin OwnersIn(meta, s)
  <1> DEFINE Goal ==
         /\ pc'[t] = "writeBack" /\ s \in todo'[t] =>
              \/ pc[t] = "writeBack" /\ s \in todo[t] /\ snap'[t] = snap[t]
              \/ /\ snap'[t] = meta /\ meta' = meta /\ s \in DOMAIN meta
                 /\ t.model \in meta[s].owners /\ meta[s].owners # {t.model}
         /\ t.kind = "load" /\ pc'[t] = "evict" /\ s \in victims'[t] /\ s # t.sha =>
              \/ pc[t] = "evict" /\ s \in victims[t]
              \/ pc[t] = "lru" /\ meta' = meta /\ t.model \notin OwnersIn(meta, s)
  <1>0. TaskKept(t)
    BY DEF TasksKept
  <1> USE DEF TypesKept, CallsTyped, Goto, Return, storage
  <1>1. ASSUME Match(t) \/ Touch(t) \/ OpenToPut(t) \/ PutBody(t) \/ PutHitsQuota(t)
        PROVE  pc'[t] \notin {"writeBack", "evict"}
    BY <1>1 DEF Match, Touch, OpenToPut, PutBody, PutHitsQuota
  <1>2. ASSUME ReadRecord(t) \/ WriteRecord(t) \/ ClearBodies(t) \/ ForgetHandle(t)
                 \/ ClearRecords(t) \/ DeleteRecords(t)
        PROVE  pc'[t] \notin {"writeBack", "evict"}
    BY <1>2 DEF ReadRecord, WriteRecord, ClearBodies, ForgetHandle, ClearRecords, DeleteRecords,
       Evicted
  <1>3. CASE EvictCorrupt(t)
    BY <1>3 DEF EvictCorrupt, StartEvict
  <1>4. CASE ChooseVictims(t)
    BY <1>4 DEF ChooseVictims, StartEvict, LruVictims, OwnersIn
  <1>5. ASSUME NEW r \in Shas, DeleteBody(t, r) \/ WriteBack(t, r) PROVE Goal
    BY <1>5 DEF DeleteBody, WriteBack
  <1>6. CASE ReadModel(t)
    BY <1>6 DEF ReadModel
  <1>7. CASE WrittenBack(t)
    BY <1>0, <1>7 DEF WrittenBack, TaskKept
  <1> QED
    BY <1>1, <1>2, <1>3, <1>4, <1>5, <1>6, <1>7 DEF Act

LEMMA RecordKeptByActs ==
  ASSUME TypesKept, TasksKept, NEW s \in Shas, Apart(s), RecordKept(s), NEW t \in Tasks, Act(t)
  PROVE  RecordKept(s)'
  <1>0. Alone(t) /\ Tasks' = Tasks
    BY ActsAreAlone
  <1> DEFINE Read(u) ==
               /\ s \in DOMAIN meta /\ s \in DOMAIN snap[u] /\ meta[s] = snap[u][s]
               /\ u.model \in snap[u][s].owners /\ snap[u][s].owners # {u.model}
             Spared(u) == u.model \notin OwnersIn(meta, s)
  <1>1. s \in DOMAIN meta' => meta'[s].owners # {}
    BY RecordSteps DEF RecordKept, RecordSame, RecordGains, RecordLoses
  <1>2. ASSUME NEW u \in Tasks, pc'[u] = "writeBack", s \in todo'[u] PROVE Read(u)'
    <2>1. CASE meta' = meta /\ u = t /\ ~(pc[t] = "writeBack" /\ s \in todo[t] /\ snap'[t] = snap[t])
      BY <1>2, <2>1, ChoiceSteps
    <2>2. CASE pc[u] = "writeBack" /\ s \in todo[u] /\ snap'[u] = snap[u]
      <3>1. Read(u)
        BY <2>2 DEF RecordKept
      <3>2. Uses(u, s)
        BY <2>2 DEF Uses
      <3>3. RecordSame(s)
        <4>1. ~RecordLoses(s, t)
          <5>1. CASE u = t
            BY <1>2, <5>1 DEF RecordLoses
          <5>2. CASE u # t
            BY <3>2, <5>2 DEF RecordLoses, Apart, Removes
          <5> QED
            BY <5>1, <5>2
        <4>2. ~(pc[t] = "evict" /\ s \in victims[t]) /\ pc[t] # "clearMeta"
          BY <2>2, <3>2 DEF Apart, Removes, Clearing
        <4>3. ~(pc[t] \in {"touch", "touchBad", "metaPut"} /\ RecordGains(s, t))
          BY <2>2 DEF Apart, Removes, Uses, RecordGains
        <4> QED
          BY <4>1, <4>2, <4>3, RecordSteps
      <3> QED
        BY <2>2, <3>1, <3>3 DEF RecordSame
    <2>3. CASE u # t
      BY <1>0, <1>2, <2>2, <2>3 DEF Alone
    <2> QED
      BY <1>2, <2>1, <2>2, <2>3, ChoiceSteps
  <1>3. ASSUME NEW u \in Tasks, u.kind = "load", pc'[u] = "evict", s \in victims'[u], s # u.sha
        PROVE  Spared(u)'
    <2>1. CASE pc[u] = "evict" /\ s \in victims[u]
      <3>1. Spared(u)
        BY <1>3, <2>1 DEF RecordKept
      <3>2. ~(pc[t] \in {"touch", "touchBad", "metaPut"} /\ RecordGains(s, t))
        BY <2>1 DEF Apart, Removes, Uses, RecordGains
      <3>3. s \in DOMAIN meta' => s \in DOMAIN meta /\ meta'[s].owners \subseteq meta[s].owners
        BY <3>2, RecordSteps DEF RecordSame, RecordLoses, RecordKept
      <3> QED
        BY <3>1, <3>3 DEF OwnersIn
    <2>2. CASE u = t
      BY <1>3, <2>1, <2>2, ChoiceSteps DEF OwnersIn
    <2>3. CASE u # t
      BY <1>0, <1>3, <2>1, <2>3 DEF Alone
    <2> QED
      BY <2>2, <2>3
  <1> QED
    BY <1>0, <1>1, <1>2, <1>3 DEF RecordKept

-----------------------------------------------------------------------------
(***************************************************************************)
(* Owners: what has still to go of a model that is being evicted           *)
(***************************************************************************)

ToGo(s, t) ==
  /\ pc[t] = "writeBack" => s \in todo[t] \cup victims[t]
  /\ pc[t] = "evict" => s \in victims[t]
  /\ result[t] # "evicted"

LEMMA EvictionSteps ==
  ASSUME TypesKept, TasksKept, NEW s \in Shas, NEW t \in Tasks, Act(t), t.kind = "evictModel",
         t.model \in OwnersIn(meta, s) => ToGo(s, t)
  PROVE  t.model \in OwnersIn(meta', s) => ToGo(s, t)'
  <1>0. TaskKept(t)
    BY DEF TasksKept
  <1> USE DEF TypesKept, CallsTyped, Goto, Return, storage
  <1>1. CASE ReadModel(t)
    BY <1>0, <1>1 DEF ReadModel, ToGo, OwnersIn, TaskKept
  <1>2. ASSUME NEW r \in Shas, DeleteBody(t, r) PROVE t.model \in OwnersIn(meta', s) => ToGo(s, t)'
    BY <1>2 DEF DeleteBody, ToGo
  <1>3. ASSUME NEW r \in Shas, WriteBack(t, r) PROVE t.model \in OwnersIn(meta', s) => ToGo(s, t)'
    <2>1. CASE r = s
      BY <1>3, <2>1 DEF WriteBack, RecordOf, OwnersIn
    <2>2. CASE r # s
      BY <1>3, <2>2 DEF WriteBack, RecordOf, OwnersIn, ToGo
    <2> QED
      BY <2>1, <2>2
  <1>4. CASE WrittenBack(t)
    BY <1>0, <1>4 DEF WrittenBack, StartEvict, ToGo, TaskKept
  <1>5. CASE DeleteRecords(t)
    BY <1>5 DEF DeleteRecords, Without, OwnersIn, ToGo
  <1>6. ~(Match(t) \/ Touch(t) \/ EvictCorrupt(t) \/ OpenToPut(t) \/ PutBody(t)
            \/ PutHitsQuota(t) \/ ChooseVictims(t) \/ ReadRecord(t) \/ WriteRecord(t))
    BY <1>0 DEF TaskKept, Loading, Match, Called, Touch, EvictCorrupt, OpenToPut, PutBody,
       PutHitsQuota, ChooseVictims, ReadRecord, WriteRecord
  <1>7. ~(ClearBodies(t) \/ ForgetHandle(t) \/ ClearRecords(t))
    BY <1>0 DEF TaskKept, Clearing, ClearBodies, Called, ForgetHandle, ClearRecords
  <1> QED
    BY <1>1, <1>2, <1>3, <1>4, <1>5, <1>6, <1>7 DEF Act

LEMMA OwnersKeptByActs ==
  ASSUME TypesKept, TasksKept, NEW s \in Shas, Apart(s), RecordKept(s), OwnersKept(s),
         NEW t \in Tasks, Act(t)
  PROVE  OwnersKept(s)'
  <1>0. Alone(t) /\ Tasks' = Tasks /\ pc'[t] # "called"
    BY ActsAreAlone, CallsGoOn
  <1>1. ASSUME NEW M, Unloaded(M)' PROVE Unloaded(M) /\ (t.kind = "load" => t.model # M)
    BY <1>0, <1>1 DEF Unloaded, Alone
  <1>2. ASSUME NEW M, Unloaded(M)',
               \/ RecordSame(s)
               \/ /\ pc[t] \in {"touch", "touchBad"} /\ RecordGains(s, t) /\ s \in DOMAIN meta
                  /\ meta'[s].owners = meta[s].owners \cup {t.model}
        PROVE  M \in OwnersIn(meta', s) <=> M \in OwnersIn(meta, s)
    BY <1>1, <1>2 DEF RecordSame, RecordGains, OwnersIn
  <1>3. ASSUME NEW M \in Models, Unloaded(M)', pc[t] = "metaPut", RecordGains(s, t),
               meta'[s].owners = OwnersIn(snap[t], s) \cup {t.model}
        PROVE  M \in OwnersIn(meta', s) <=> M \in OwnersIn(meta, s)
    BY <1>1, <1>3 DEF RecordGains, OwnersIn, OwnersKept
  <1>4. ASSUME NEW u \in Tasks, NEW M \in Models, u.kind = "load", u.sha = s,
               pc'[u] = "metaPut", Unloaded(M)'
        PROVE  M \in OwnersIn(snap'[u], s) <=> M \in OwnersIn(meta', s)
    <2>1. CASE pc[u] = "metaPut" /\ snap'[u] = snap[u]
      <3>1. Uses(u, s)
        BY <1>4, <2>1 DEF Uses
      <3>2. \/ RecordSame(s)
            \/ /\ pc[t] \in {"touch", "touchBad"} /\ RecordGains(s, t) /\ s \in DOMAIN meta
               /\ meta'[s].owners = meta[s].owners \cup {t.model}
            \/ /\ pc[t] = "metaPut" /\ RecordGains(s, t)
               /\ meta'[s].owners = OwnersIn(snap[t], s) \cup {t.model}
        BY <2>1, <3>1, RecordSteps DEF Apart, Removes, RecordLoses, Clearing
      <3> QED
        BY <1>1, <1>2, <1>3, <1>4, <2>1, <3>2 DEF OwnersKept
    <2>2. CASE u # t
      BY <1>0, <1>4, <2>1, <2>2 DEF Alone
    <2>3. CASE ReadRecord(t) /\ u = t
      BY <2>3 DEF ReadRecord, storage, TypesKept, CallsTyped
    <2>4. CASE ~ReadRecord(t) /\ u = t
      <3> USE DEF TypesKept, CallsTyped, Goto, Return, storage
      <3>1. ASSUME NEW r \in Shas, DeleteBody(t, r) \/ WriteBack(t, r) PROVE pc'[t] # "metaPut"
        BY <3>1 DEF DeleteBody, WriteBack
      <3>2. ~(Match(t) \/ Touch(t) \/ EvictCorrupt(t) \/ OpenToPut(t) \/ PutBody(t)
                \/ PutHitsQuota(t))
        BY <1>4, <2>4 DEF Match, Touch, EvictCorrupt, OpenToPut, PutBody, PutHitsQuota
      <3>3. ~(ChooseVictims(t) \/ WriteRecord(t) \/ DeleteRecords(t) \/ ReadModel(t)
                \/ WrittenBack(t))
        BY <1>4, <2>4 DEF ChooseVictims, WriteRecord, DeleteRecords, Evicted, ReadModel,
           WrittenBack
      <3>4. ~(ClearBodies(t) \/ ForgetHandle(t) \/ ClearRecords(t))
        BY <1>4, <2>4 DEF ClearBodies, ForgetHandle, ClearRecords
      <3> QED
        BY <1>4, <2>4, <3>1, <3>2, <3>3, <3>4 DEF Act
    <2> QED
      BY <2>2, <2>3, <2>4
  <1>5. ASSUME NEW e \in Tasks, e.kind = "evictModel", Unloaded(e.model)',
               e.model \in OwnersIn(meta', s)
        PROVE  ToGo(s, e)'
    <2>0. e.model \in Models
      BY <1>5, WorkIsTyped DEF TypesKept
    <2>1. e.model \in OwnersIn(meta, s) => ToGo(s, e)
      BY <1>1, <1>5 DEF OwnersKept, ToGo
    <2>2. CASE e = t
      BY <1>5, <2>1, <2>2, EvictionSteps
    <2>3. CASE e # t
      <3>1. e.model \in OwnersIn(meta, s)
        <4>1. RecordLoses(s, t) => s \in DOMAIN meta /\ meta[s] = snap[t][s]
          BY DEF RecordLoses, RecordKept
        <4> QED
          BY <1>2, <1>3, <1>5, <2>0, <4>1, RecordSteps DEF RecordLoses, OwnersIn
      <3> QED
        BY <1>0, <2>1, <2>3, <3>1 DEF Alone, ToGo
    <2> QED
      BY <2>2, <2>3
  <1> QED
    BY <1>0, <1>4, <1>5 DEF OwnersKept, ToGo

-----------------------------------------------------------------------------
(***************************************************************************)
(* Bodies                                                                  *)
(***************************************************************************)

ClearStep(t) == ClearBodies(t) \/ ForgetHandle(t) \/ ClearRecords(t)

BodySame(s) == s \in bodies'[current] <=> s \in bodies[current]

\* A body comes with a put and goes with an eviction; clears apart.
LEMMA BodySteps ==
  ASSUME TypesKept, TasksKept, NEW s \in Shas, NEW t \in Tasks, Act(t), ~ClearStep(t)
  PROVE  /\ current' = current
         /\ \/ BodySame(s)
            \/ /\ pc[t] = "put" /\ t.kind = "load" /\ t.sha = s /\ pc'[t] = "metaGet"
               /\ s \in bodies[current] => s \in bodies'[current]
            \/ /\ pc[t] = "evict" /\ s \in todo[t] /\ s \in victims[t] /\ pc'[t] = "evict"
               /\ victims'[t] = victims[t] /\ s \notin todo'[t]
               /\ s \in bodies'[current] => s \in bodies[current] /\ from[t] # current
  <1> USE DEF storage
  <1>0. TaskKept(t) /\ current \in Caches
    BY CurrentIsACache DEF TasksKept
  <1>1. ASSUME bodies' = bodies PROVE BodySame(s)
    BY <1>1 DEF BodySame
  <1>2. CASE PutBody(t)
    <2>1. t.sha # s => BodySame(s)
      BY <1>0, <1>2 DEF PutBody, BodySame, TypesKept, StorageTyped
    <2>2. t.kind = "load"
      BY <1>0, <1>2 DEF PutBody, TaskKept, Loading
    <2>3. s \in bodies[current] => s \in bodies'[current]
      BY <1>0, <1>2 DEF PutBody, TypesKept, StorageTyped
    <2> QED
      BY <1>2, <2>1, <2>2, <2>3 DEF PutBody, Goto, TypesKept, CallsTyped
  <1>3. ASSUME NEW r \in Shas, DeleteBody(t, r), r # s PROVE BodySame(s) /\ current' = current
    BY <1>0, <1>3 DEF DeleteBody, BodySame, TypesKept, StorageTyped
  <1>4. CASE DeleteBody(t, s)
    <2>1. s \in bodies'[current] => s \in bodies[current] /\ from[t] # current
      BY <1>0, <1>4 DEF DeleteBody, TypesKept, StorageTyped
    <2> QED
      BY <1>0, <1>4, <2>1 DEF DeleteBody, TaskKept, TypesKept, CallsTyped
  <1>5. ASSUME NEW r \in Shas, WriteBack(t, r) PROVE bodies' = bodies /\ current' = current
    BY <1>5 DEF WriteBack
  <1> QED
    BY <1>1, <1>2, <1>3, <1>4, <1>5 DEF Act, ClearStep, Match, Touch, EvictCorrupt, OpenToPut,
       PutHitsQuota, ChooseVictims, ReadRecord, WriteRecord, DeleteRecords, ReadModel, WrittenBack

\* When a call that does not clear has made its step, no page works on a
\* deleted cache that did not before; it works on the current one itself.
LEMMA FreshBefore ==
  ASSUME TypesKept, NEW t \in Tasks, Act(t), ~ClearStep(t), HandlesAreFresh'
  PROVE  HandlesAreFresh /\ Opened(t.tab) = current
  <1>0. t.tab \in Tabs /\ current' = current /\ current # 0
    BY WorkIsTyped, CallsGoOn DEF TypesKept, StorageTyped, Act, ClearStep, Match, Touch,
       EvictCorrupt, OpenToPut, PutBody, PutHitsQuota, ChooseVictims, ReadRecord, WriteRecord,
       DeleteBody, WriteBack, DeleteRecords, ReadModel, WrittenBack, storage
  <1>1. handle' = handle \/ Memoize(t.tab)
    BY DEF Act, ClearStep, Match, Touch, EvictCorrupt, OpenToPut, PutBody, PutHitsQuota,
       ChooseVictims, ReadRecord, WriteRecord, DeleteBody, WriteBack, DeleteRecords, ReadModel,
       WrittenBack, StartEvict, storage
  <1>2. HandlesAreFresh
    BY <1>0, <1>1 DEF HandlesAreFresh, Memoize, Opened, TypesKept, StorageTyped
  <1> QED
    BY <1>0, <1>2 DEF HandlesAreFresh, Opened

LEMMA ClearStepKeepsBodies ==
  ASSUME TypesKept, TasksKept, CachesKept, NEW s \in Shas, Apart(s), Apart(s)',
         NobodyGone' => NobodyGone, BodyKept(s), NEW t \in Tasks, ClearStep(t)
  PROVE  BodyKept(s)'
  <1> SUFFICES ASSUME NobodyGone'
               PROVE  /\ (\A c \in Tasks : pc[c] \in Clearing => s \notin bodies[current])'
                      /\ BodyFollowsRecord(s)'
    BY DEF BodyKept
  <1>0. Alone(t) /\ Tasks' = Tasks /\ TaskKept(t)
    BY ActsAreAlone DEF Act, ClearStep, TasksKept
  <1>1. s \notin bodies'[current']
    <2>1. CASE ClearBodies(t)
      <3>1. current + 1 \in Caches /\ current \in Nat
        BY <2>1, CurrentIsACache DEF ClearBodies, Called, Clears, TypesKept, StorageTyped
      <3> QED
        BY <2>1, <3>1 DEF ClearBodies, CachesKept
    <2>2. CASE ForgetHandle(t) \/ ClearRecords(t)
      BY <2>2 DEF ForgetHandle, ClearRecords, BodyKept, Clearing
    <2> QED
      BY <2>1, <2>2 DEF ClearStep
  <1>2. s \in DOMAIN meta' => pc'[t] \in Clearing
    BY DEF ClearStep, ClearBodies, ForgetHandle, ClearRecords, NoRecords, Clearing, Goto, Return,
       TypesKept, CallsTyped
  <1>3. t.kind = "clear"
    BY <1>0 DEF ClearStep, ClearBodies, Called, ForgetHandle, ClearRecords, TaskKept, Clearing
  <1>4. \A u \in Tasks \ {t} : ~Uses(u, s)'
    <2>1. Removes(t, s) \/ Removes(t, s)'
      BY DEF ClearStep, ClearBodies, ForgetHandle, ClearRecords, Removes, Clearing, Goto,
         TypesKept, CallsTyped
    <2> QED
      BY <1>0, <2>1 DEF Apart, Alone, Uses
  <1>5. \A u \in Tasks : u.kind = "load" /\ u.sha = s => pc'[u] \notin Loading \cup {"evict"}
    BY <1>3, <1>4 DEF Uses, Loading
  <1> QED
    BY <1>0, <1>1, <1>2, <1>5 DEF BodyFollowsRecord, Loading

\* Who stores the body of a chunk, and who removes it.
Storing(t, s) == t.kind = "load" /\ t.sha = s /\ pc[t] \in {"metaGet", "metaPut"}
Evicting(t, s) == pc[t] = "evict" /\ s \in victims[t] \ todo[t]

LEMMA StoringSteps ==
  ASSUME TypesKept, TasksKept, NEW s \in Shas, NEW t \in Tasks, Act(t)
  PROVE  /\ Storing(t, s) => Storing(t, s)' \/ s \in DOMAIN meta'
         /\ Storing(t, s)' => Storing(t, s) \/ (PutBody(t) /\ t.sha = s)
         /\ Evicting(t, s) => Evicting(t, s)' \/ s \notin DOMAIN meta'
  <1> USE DEF storage, TypesKept, CallsTyped, Goto, Return
  <1>0. TaskKept(t)
    BY DEF TasksKept
  <1>1. CASE Match(t) \/ Touch(t) \/ EvictCorrupt(t) \/ OpenToPut(t) \/ ChooseVictims(t)
    BY <1>1 DEF Match, Called, Touch, EvictCorrupt, OpenToPut, ChooseVictims, Storing, Evicting
  <1>2. CASE PutBody(t) \/ PutHitsQuota(t)
    BY <1>2 DEF PutBody, PutHitsQuota, Storing, Evicting
  <1>3. CASE ReadRecord(t) \/ WriteRecord(t)
    BY <1>3 DEF ReadRecord, WriteRecord, RecordOf, Storing, Evicting
  <1>4. CASE \E r \in Shas : DeleteBody(t, r) \/ WriteBack(t, r)
    BY <1>4 DEF DeleteBody, WriteBack, Storing, Evicting
  <1>5. CASE DeleteRecords(t)
    BY <1>5 DEF DeleteRecords, Evicted, Without, Storing, Evicting
  <1>6. CASE ReadModel(t) \/ WrittenBack(t)
    BY <1>6 DEF ReadModel, Called, WrittenBack, Storing, Evicting
  <1>7. CASE ClearBodies(t) \/ ForgetHandle(t) \/ ClearRecords(t)
    BY <1>7 DEF ClearBodies, Called, ForgetHandle, ClearRecords, Storing, Evicting
  <1> QED
    BY <1>1, <1>2, <1>3, <1>4, <1>5, <1>6, <1>7 DEF Act

\* The caches a call works on, when it has opened one.
LEMMA CacheSteps ==
  ASSUME TypesKept, TasksKept, NEW t \in Tasks, Act(t), ~ClearStep(t), Opened(t.tab) = current
  PROVE  /\ t.kind = "load" /\ pc'[t] \in Loading \cup {"evict"} =>
              \/ pc[t] \in Loading \cup {"evict"} /\ cache'[t] = cache[t]
              \/ cache'[t] \in {0, current}
         /\ pc'[t] = "evict" =>
              \/ /\ pc[t] = "evict" /\ from'[t] = from[t] /\ victims'[t] = victims[t]
                 /\ \E r \in Shas : /\ todo'[t] = todo[t] \ {r}
                                    /\ bodies' = [bodies EXCEPT ![from[t]] = @ \ {r}]
              \/ todo'[t] = victims'[t] /\ from'[t] = current
  <1> USE DEF storage, TypesKept, CallsTyped, Goto, Return
  <1>0. TaskKept(t)
    BY DEF TasksKept
  <1>1. CASE Match(t)
    BY <1>0, <1>1 DEF Match, Called, TaskKept
  <1>2. CASE Touch(t)
    BY <1>2 DEF Touch, Loading
  <1>3. CASE EvictCorrupt(t)
    BY <1>3 DEF EvictCorrupt, StartEvict, Loading
  <1>4. CASE ChooseVictims(t)
    BY <1>4 DEF ChooseVictims, StartEvict, Loading
  <1>5. CASE OpenToPut(t)
    BY <1>5 DEF OpenToPut
  <1>6. CASE PutBody(t) \/ PutHitsQuota(t) \/ ReadRecord(t) \/ WriteRecord(t)
    BY <1>6 DEF PutBody, PutHitsQuota, ReadRecord, WriteRecord, Loading
  <1>7. ASSUME NEW r \in Shas, DeleteBody(t, r)
        PROVE  /\ pc[t] = "evict" /\ pc'[t] = "evict" /\ cache'[t] = cache[t]
               /\ from'[t] = from[t] /\ victims'[t] = victims[t]
               /\ todo'[t] = todo[t] \ {r} /\ bodies' = [bodies EXCEPT ![from[t]] = @ \ {r}]
    BY <1>7 DEF DeleteBody
  <1>8. ASSUME NEW r \in Shas, WriteBack(t, r) PROVE pc'[t] \notin Loading \cup {"evict"}
    BY <1>8 DEF WriteBack, Loading
  <1>9. CASE DeleteRecords(t)
    BY <1>9 DEF DeleteRecords, Evicted
  <1>10. CASE ReadModel(t)
    BY <1>10 DEF ReadModel, Loading
  <1>11. CASE WrittenBack(t)
    <2>1. pc[t] = "writeBack" /\ t.kind = "evictModel"
      BY <1>0, <1>11 DEF WrittenBack, TaskKept
    <2> QED
      BY <1>11, <2>1 DEF WrittenBack, StartEvict, Loading
  <1> QED
    BY <1>1, <1>2, <1>3, <1>4, <1>5, <1>6, <1>7, <1>8, <1>9, <1>10, <1>11 DEF Act, ClearStep

LEMMA BodyKeptByActs ==
  ASSUME TypesKept, TasksKept, CachesKept, NEW s \in Shas, Apart(s), Apart(s)', RecordKept(s),
         BodyKept(s), NEW t \in Tasks, Act(t)
  PROVE  BodyKept(s)'
  <1>0. Alone(t) /\ Tasks' = Tasks /\ TaskKept(t)
    BY ActsAreAlone DEF TasksKept
  <1>1. NobodyGone' => NobodyGone
    <2>1. pc[t] # "gone"
      BY DEF Act, Match, Called, Touch, EvictCorrupt, OpenToPut, PutBody, PutHitsQuota,
         ChooseVictims, ReadRecord, WriteRecord, DeleteBody, WriteBack, DeleteRecords, ReadModel,
         WrittenBack, ClearBodies, ForgetHandle, ClearRecords
    <2> QED
      BY <1>0, <2>1 DEF NobodyGone, Alone
  <1>2. CASE ClearStep(t)
    BY <1>1, <1>2, ClearStepKeepsBodies
  <1>3. CASE ~ClearStep(t)
    <2> SUFFICES ASSUME NobodyGone'
                 PROVE  /\ (\A c \in Tasks : pc[c] \in Clearing => s \notin bodies[current])'
                        /\ (HandlesAreFresh => BodyFollowsRecord(s))'
      BY DEF BodyKept
    <2>0. current' = current /\ current \in Caches /\ NobodyGone
      BY <1>1, <1>3, BodySteps, CurrentIsACache
    <2>1. \* A put brings a body only where nobody removes it.
          ASSUME NEW u \in Tasks, Removes(u, s), u # t, s \in bodies'[current]
          PROVE  s \in bodies[current]
      <3>1. ~(pc[t] = "put" /\ t.kind = "load" /\ t.sha = s)
        BY <2>1 DEF Apart, Uses
      <3> QED
        BY <1>3, <2>1, <3>1, BodySteps DEF BodySame
    <2>2. ASSUME NEW c \in Tasks, pc'[c] \in Clearing PROVE s \notin bodies'[current]
      <3>1. c # t
        <4>1. TasksKept'
          BY TasksKeptByActs
        <4>2. c = t => t.kind = "clear"
          BY <1>0, <2>2, <4>1 DEF TasksKept, TaskKept
        <4>3. t.kind # "clear"
          BY <1>0, <1>3 DEF Act, ClearStep, TaskKept, Loading, Match, Called, Touch,
             EvictCorrupt, OpenToPut, PutBody, PutHitsQuota, ChooseVictims, ReadRecord,
             WriteRecord, DeleteBody, WriteBack, DeleteRecords, ReadModel, WrittenBack
        <4> QED
          BY <4>2, <4>3
      <3>2. pc[c] \in Clearing
        BY <1>0, <2>2, <3>1 DEF Alone
      <3>3. Removes(c, s) /\ s \notin bodies[current]
        BY <2>0, <3>2 DEF Removes, BodyKept
      <3> QED
        BY <2>1, <3>1, <3>3
    <2> SUFFICES ASSUME HandlesAreFresh' PROVE BodyFollowsRecord(s)'
      BY <1>0, <2>0, <2>2
    <2>3. BodyFollowsRecord(s) /\ Opened(t.tab) = current
      BY <1>3, <2>0, FreshBefore DEF BodyKept
    <2>4. ASSUME s \in bodies'[current], s \notin DOMAIN meta'
          PROVE  \E u \in Tasks : Storing(u, s)'
      <3>1. CASE s \notin bodies[current]
        <4>1. pc'[t] = "metaGet" /\ t.kind = "load" /\ t.sha = s
          BY <1>3, <2>4, <3>1, BodySteps DEF BodySame
        <4> QED
          BY <4>1 DEF Storing
      <3>2. CASE s \in bodies[current] /\ s \notin DOMAIN meta
        <4>1. PICK u \in Tasks : Storing(u, s)
          BY <2>3, <3>2 DEF BodyFollowsRecord, Storing
        <4>2. u # t => Storing(u, s)'
          BY <1>0, <4>1 DEF Alone, Storing
        <4> QED
          BY <2>4, <4>1, <4>2, StoringSteps
      <3>3. ~(s \in bodies[current] /\ s \in DOMAIN meta)
        <4>1. SUFFICES ASSUME s \in bodies[current], s \in DOMAIN meta PROVE FALSE
          OBVIOUS
        <4>2. pc[t] = "evict" /\ todo[t] = {} /\ s \in victims[t]
          BY <1>3, <2>4, <4>1, RecordSteps
             DEF RecordSame, RecordGains, RecordLoses, ClearStep, Act, Match, Called, Touch,
                 EvictCorrupt, OpenToPut, PutBody, PutHitsQuota, ChooseVictims, ReadRecord,
                 WriteRecord, DeleteBody, WriteBack, DeleteRecords, ReadModel, WrittenBack
        <4> QED
          BY <2>3, <4>1, <4>2 DEF BodyFollowsRecord
      <3> QED
        BY <3>1, <3>2, <3>3
    <2>5. ASSUME s \in DOMAIN meta', s \notin bodies'[current]
          PROVE  \E u \in Tasks : Evicting(u, s)' \/ pc'[u] \in Clearing
      <3>1. CASE s \in DOMAIN meta /\ s \notin bodies[current]
        <4>1. PICK u \in Tasks : Evicting(u, s) \/ pc[u] \in Clearing
          BY <2>3, <3>1 DEF BodyFollowsRecord, Evicting
        <4>2. u # t => Evicting(u, s)' \/ pc'[u] \in Clearing
          BY <1>0, <4>1 DEF Alone, Evicting
        <4>3. pc[t] \notin Clearing
          BY <1>0, <1>3 DEF Act, ClearStep, Clearing, Match, Called, Touch,
             EvictCorrupt, OpenToPut, PutBody, PutHitsQuota, ChooseVictims, ReadRecord,
             WriteRecord, DeleteBody, WriteBack, DeleteRecords, ReadModel, WrittenBack
        <4> QED
          BY <2>5, <4>1, <4>2, <4>3, StoringSteps
      <3>2. CASE s \in bodies[current]
        <4>1. pc'[t] = "evict" /\ s \in victims'[t] /\ s \notin todo'[t]
          BY <1>3, <2>5, <3>2, BodySteps DEF BodySame
        <4> QED
          BY <4>1 DEF Evicting
      <3>3. CASE s \notin DOMAIN meta
        <4>1. pc[t] = "metaPut" /\ RecordGains(s, t)
          BY <2>5, <3>3, RecordSteps DEF RecordSame, RecordLoses, RecordKept
        <4>2. s \in bodies[current]
          BY <2>3, <4>1 DEF RecordGains, BodyFollowsRecord
        <4> QED
          BY <3>2, <4>2
      <3> QED
        BY <3>1, <3>2, <3>3
    <2>6. ASSUME NEW u \in Tasks, pc'[u] = "evict", s \in victims'[u], s \in bodies'[current]
          PROVE  s \in todo'[u] /\ from'[u] = current
      <3>1. CASE u # t
        <4>1. pc[u] = "evict" /\ s \in victims[u] /\ todo'[u] = todo[u] /\ from'[u] = from[u]
          BY <1>0, <2>6, <3>1 DEF Alone
        <4>2. s \in bodies[current]
          BY <2>1, <2>6, <3>1, <4>1 DEF Removes
        <4> QED
          BY <2>3, <4>1, <4>2 DEF BodyFollowsRecord
      <3>2. ASSUME u = t, pc[t] = "evict", from'[t] = from[t], victims'[t] = victims[t],
                   NEW r \in Shas, todo'[t] = todo[t] \ {r},
                   bodies' = [bodies EXCEPT ![from[t]] = @ \ {r}]
            PROVE  s \in todo'[u] /\ from'[u] = current
        <4>1. s \in bodies[current] /\ (r = s => from[t] # current)
          BY <2>0, <2>6, <3>2 DEF TypesKept, StorageTyped
        <4>2. s \in todo[t] /\ from[t] = current
          BY <2>3, <2>6, <3>2, <4>1 DEF BodyFollowsRecord
        <4> QED
          BY <3>2, <4>1, <4>2
      <3> QED
        BY <1>3, <2>3, <2>6, <3>1, <3>2, CacheSteps
    <2>7. ASSUME NEW u \in Tasks, u.kind = "load", u.sha = s
          PROVE  pc'[u] \in Loading \cup {"evict"} => cache'[u] \in {0, current}
      BY <1>0, <1>3, <2>3, <2>7, CacheSteps DEF Alone, BodyFollowsRecord
    <2>8. ASSUME NEW u \in Tasks, Storing(u, s)' PROVE s \in bodies'[current]
      <3>1. CASE Storing(u, s)
        <4>1. s \in bodies[current]
          BY <2>3, <3>1 DEF BodyFollowsRecord, Storing
        <4>2. ~(pc[t] = "evict" /\ s \in victims[t])
          <5>1. Uses(u, s)
            BY <3>1 DEF Uses, Storing
          <5> QED
            BY <3>1, <5>1 DEF Apart, Removes, Storing
        <4> QED
          BY <1>3, <4>1, <4>2, BodySteps DEF BodySame
      <3>2. CASE PutBody(t) /\ t.sha = s
        <4>1. t.kind = "load" /\ cache[t] # 0 /\ pc[t] = "put"
          BY <1>0, <3>2 DEF PutBody, TaskKept, Loading
        <4>2. cache[t] = current
          BY <2>3, <3>2, <4>1 DEF BodyFollowsRecord, Loading
        <4> QED
          BY <2>0, <3>2, <4>2 DEF PutBody, TypesKept, StorageTyped
      <3>3. CASE u # t
        BY <1>0, <2>8, <3>1, <3>3 DEF Alone, Storing
      <3> QED
        BY <2>8, <3>1, <3>2, <3>3, StoringSteps
    <2> QED
      BY <1>0, <2>0, <2>4, <2>5, <2>6, <2>7, <2>8 DEF BodyFollowsRecord, Storing, Evicting
  <1> QED
    BY <1>2, <1>3

-----------------------------------------------------------------------------
(***************************************************************************)
(* The invariant                                                           *)
(***************************************************************************)

LEMMA CrossedTyped ==
  work \in Workloads /\ CallsTyped => Crossing \subseteq Shas
  <1> SUFFICES ASSUME work \in Workloads, CallsTyped, NEW s \in Crossing PROVE s \in Shas
    OBVIOUS
  <1>1. PICK t \in Tasks, u \in Tasks : t \in Removers /\ s \in UsedBy(u)
    BY DEF Crossing, Removers
  <1> QED
    BY <1>1, WorkIsTyped DEF UsedBy, CallsTyped

LEMMA ActKeepsStoreInv ==
  ASSUME StoreInv, NEW t \in Tasks, Act(t), Note
  PROVE  StoreInv'
  <1>1. TypesKept /\ TasksKept /\ CachesKept /\ ChunksKept
    BY DEF StoreInv
  <1>2. work' = work /\ Alone(t) /\ StorageTyped' /\ CallsTyped' /\ TasksKept' /\ CachesKept'
    BY <1>1, ActsAreAlone, TypesKeptByActs, TasksKeptByActs, CachesKeptByActs
  <1>3. crossed' \subseteq Shas
    <2>1. (work \in Workloads /\ CallsTyped => Crossing \subseteq Shas)'
      BY CrossedTyped, PTL
    <2> QED
      BY <1>1, <1>2, <2>1 DEF Note, TypesKept
  <1>4. CachesCounted'
    BY <1>1, <1>2, CachesStayCounted, CallsGoOn DEF Alone, Clears
  <1>5. TypesKept'
    BY <1>1, <1>2, <1>3, <1>4 DEF TypesKept
  <1>6. ASSUME NEW s \in Shas \ crossed'
        PROVE  (Apart(s) /\ BodyKept(s) /\ RecordKept(s) /\ OwnersKept(s))'
    <2>1. s \in Shas \ crossed /\ Apart(s)'
      BY UncrossedIsApart
    <2>2. Apart(s) /\ BodyKept(s) /\ RecordKept(s) /\ OwnersKept(s)
      BY <1>1, <2>1 DEF ChunksKept
    <2> QED
      BY <1>1, <2>1, <2>2, BodyKeptByActs, RecordKeptByActs, OwnersKeptByActs
  <1> QED
    BY <1>2, <1>5, <1>6 DEF StoreInv, ChunksKept

\* A tab that is closed leaves halves behind, and takes nothing along.
LEMMA CloseKeepsStoreInv ==
  ASSUME StoreInv, NEW tab \in Tabs, TabCloses(tab), Note
  PROVE  StoreInv'
  <1>1. TypesKept /\ TasksKept /\ CachesKept /\ ChunksKept
    BY DEF StoreInv
  <1>2. UNCHANGED <<work, bodies, rotten, current, handle, meta, clock, cache, from, snap, todo,
                    victims, result>>
    BY DEF TabCloses, storage
  <1>3. Tasks' = Tasks /\ Caches' = Caches
    BY <1>2 DEF Tasks, Caches
  <1>4. /\ \A u \in Tasks : pc'[u] \in {pc[u], "gone"} /\ (pc[u] = "done" => pc'[u] = "done")
        /\ pc' \in [Tasks -> Calls]
        /\ \E u \in Tasks : pc'[u] = "gone"
    BY <1>1 DEF TabCloses, TypesKept, CallsTyped, Calls
  <1>5. StorageTyped' /\ CallsTyped'
    BY <1>1, <1>2, <1>3, <1>4 DEF TypesKept, StorageTyped, CallsTyped
  <1>6. crossed' \subseteq Shas
    <2>1. (work \in Workloads /\ CallsTyped => Crossing \subseteq Shas)'
      BY CrossedTyped, PTL
    <2> QED
      BY <1>1, <1>2, <1>5, <2>1 DEF Note, TypesKept
  <1>7. CachesCounted'
    BY <1>1, <1>2, <1>4, CachesStayCounted
  <1>8. TypesKept'
    BY <1>1, <1>2, <1>5, <1>6, <1>7 DEF TypesKept
  <1>9. TasksKept' /\ CachesKept'
    BY <1>1, <1>2, <1>3, <1>4 DEF TasksKept, TaskKept, CachesKept, Loading, Clearing
  <1>10. ASSUME NEW s \in Shas \ crossed'
         PROVE  (Apart(s) /\ BodyKept(s) /\ RecordKept(s) /\ OwnersKept(s))'
    <2>1. s \in Shas \ crossed /\ Apart(s)'
      BY UncrossedIsApart
    <2>2. RecordKept(s) /\ OwnersKept(s)
      BY <1>1, <2>1 DEF ChunksKept
    <2>3. ~NobodyGone'
      BY <1>3, <1>4 DEF NobodyGone
    <2>4. RecordKept(s)'
      BY <1>2, <1>3, <1>4, <2>2 DEF RecordKept, OwnersIn
    <2>5. \A M : Unloaded(M)' => Unloaded(M)
      BY <1>3, <1>4 DEF Unloaded
    <2>6. OwnersKept(s)'
      BY <1>2, <1>3, <1>4, <2>2, <2>5 DEF OwnersKept, OwnersIn
    <2> QED
      BY <2>1, <2>3, <2>4, <2>6 DEF BodyKept
  <1> QED
    BY <1>8, <1>9, <1>10 DEF StoreInv, ChunksKept

LEMMA NextStoreInv == StoreInv /\ [Next]_vars => StoreInv'
  <1> SUFFICES ASSUME StoreInv, [Next]_vars PROVE StoreInv'
    OBVIOUS
  <1>1. ASSUME NEW t \in Tasks, Step(t) PROVE StoreInv'
    BY <1>1, ActKeepsStoreInv DEF Step
  <1>2. ASSUME NEW tab \in Tabs, TabCloses(tab), Note PROVE StoreInv'
    BY <1>2, CloseKeepsStoreInv
  <1>3. ASSUME UNCHANGED vars PROVE StoreInv'
    <2> USE <1>3 DEF vars, storage, local
    <2>1. TypesKept' = TypesKept /\ TasksKept' = TasksKept /\ CachesKept' = CachesKept
      BY DEF TypesKept, StorageTyped, CallsTyped, CachesCounted, Clears, Tasks, Caches, TasksKept,
         TaskKept, CachesKept
    <2>2. \A s \in Shas : /\ Apart(s)' = Apart(s) /\ BodyKept(s)' = BodyKept(s)
                          /\ RecordKept(s)' = RecordKept(s) /\ OwnersKept(s)' = OwnersKept(s)
      BY DEF Apart, Uses, Removes, BodyKept, NobodyGone, HandlesAreFresh, BodyFollowsRecord,
         RecordKept, OwnersKept, Unloaded, Tasks
    <2>3. ChunksKept' = ChunksKept
      BY <2>2 DEF ChunksKept
    <2> QED
      BY <2>1, <2>3 DEF StoreInv
  <1> QED
    BY <1>1, <1>2, <1>3 DEF Next

LEMMA StoreInvHolds == Spec => []StoreInv
  BY InitStoreInv, NextStoreInv, PTL DEF Spec

-----------------------------------------------------------------------------
(***************************************************************************)
(* Sums of sizes: what SumSizes computes does not depend on the order in   *)
(* which it adds, and less takes less room                                 *)
(***************************************************************************)

\* A sum over the subsets of S, whichever element is added last.
Additive(g, S) ==
  /\ g \in [SUBSET S -> Nat] /\ g[{}] = 0
  /\ \A A \in SUBSET S : \A x \in A : g[A] = Size[x] + g[A \ {x}]

\* A nonempty collection of subsets of a finite set has a least one. The facts
\* about sums are proved by it: the least set that is an exception is none.
LEMMA LeastSubset ==
  ASSUME NEW S, IsFiniteSet(S), NEW C \in SUBSET SUBSET S, C # {}
  PROVE  \E A \in C : \A x \in A : A \ {x} \notin C
  <1>1. IsWellFoundedOn(StrictSubsetOrdering(S), SUBSET S)
    BY FS_StrictSubsetOrderingWellFounded, FS_FiniteSubsetsOfFinite
  <1>2. PICK A \in C : \A B \in C : <<B, A>> \notin StrictSubsetOrdering(S)
    BY <1>1, WFMin
  <1>3. ASSUME NEW x \in A, A \ {x} \in C PROVE FALSE
    BY <1>2, <1>3 DEF StrictSubsetOrdering
  <1> QED
    BY <1>2, <1>3

LEMMA SumsExist ==
  ASSUME NEW S \in SUBSET Shas, StoreAssumption
  PROVE  \E g : Additive(g, S)
  <1> DEFINE C == {A \in SUBSET Shas : ~\E g : Additive(g, A)}
  <1>0. IsFiniteSet(Shas) /\ Size \in [Shas -> Nat \ {0}]
    BY DEF StoreAssumption
  <1> SUFFICES ASSUME C # {} PROVE FALSE
    OBVIOUS
  <1>1. PICK A \in C : \A x \in A : A \ {x} \notin C
    BY <1>0, LeastSubset
  <1>2. A # {}
    <2>1. Additive([s \in SUBSET {} |-> 0], {})
      BY DEF Additive
    <2> QED
      BY <2>1
  <1>3. PICK x \in A : TRUE
    BY <1>2
  <1>4. PICK g : Additive(g, A \ {x})
    BY <1>1, <1>3
  <1> DEFINE h == [s \in SUBSET A |-> IF x \in s THEN Size[x] + g[s \ {x}] ELSE g[s]]
  <1>5. \A s \in SUBSET A : s \ {x} \in SUBSET (A \ {x}) /\ g[s \ {x}] \in Nat
    BY <1>4 DEF Additive
  <1>6. h \in [SUBSET A -> Nat]
    <2>1. Size[x] \in Nat
      BY <1>0, <1>3
    <2>2. ASSUME NEW s \in SUBSET A
          PROVE  (IF x \in s THEN Size[x] + g[s \ {x}] ELSE g[s]) \in Nat
      <3>1. g[s \ {x}] \in Nat
        BY <1>5
      <3>2. CASE x \in s
        BY <2>1, <3>1, <3>2
      <3>3. CASE x \notin s
        <4>1. s \ {x} = s
          BY <3>3
        <4> QED
          BY <3>1, <3>3, <4>1
      <3> QED
        BY <3>2, <3>3
    <2> QED
      BY <2>2
  <1>7. h[{}] = 0
    BY <1>4 DEF Additive
  <1>8. ASSUME NEW s \in SUBSET A, NEW y \in s PROVE h[s] = Size[y] + h[s \ {y}]
    <2>1. CASE y = x
      <3>1. h[s] = Size[x] + g[s \ {x}] /\ h[s \ {y}] = g[s \ {x}]
        BY <2>1
      <3> QED
        BY <2>1, <3>1
    <2>2. CASE y # x /\ x \in s
      <3>1. h[s] = Size[x] + g[s \ {x}] /\ h[s \ {y}] = Size[x] + g[(s \ {y}) \ {x}]
        BY <2>2
      <3>2. (s \ {y}) \ {x} = (s \ {x}) \ {y} /\ y \in s \ {x}
        BY <2>2
      <3>3. g[s \ {x}] = Size[y] + g[(s \ {x}) \ {y}]
        BY <1>4, <1>5, <3>2 DEF Additive
      <3>4. g[(s \ {x}) \ {y}] \in Nat
        BY <1>5, <3>2
      <3>5. Size[x] \in Nat /\ Size[y] \in Nat
        BY <1>0, <1>3
      <3> HIDE DEF h
      <3> QED
        BY <3>1, <3>2, <3>3, <3>4, <3>5
    <2>3. CASE x \notin s
      <3>1. s \in SUBSET (A \ {x}) /\ h[s] = g[s] /\ h[s \ {y}] = g[s \ {y}]
        BY <2>3
      <3> QED
        BY <1>4, <3>1 DEF Additive
    <2> QED
      BY <2>1, <2>2, <2>3
  <1>9. Additive(h, A)
    BY <1>6, <1>7, <1>8 DEF Additive
  <1> QED
    BY <1>9

\* What SumSizes computes.
LEMMA SumIsAdditive ==
  ASSUME NEW S \in SUBSET Shas, StoreAssumption, NEW g, Additive(g, S)
  PROVE  SumSizes(S) = g[S]
  <1> DEFINE F(f, s) == IF s = {} THEN 0
                        ELSE Size[CHOOSE y \in s : TRUE] + f[s \ {CHOOSE y \in s : TRUE}]
             f == CHOOSE f : f = [s \in SUBSET S |-> F(f, s)]
  <1>1. SumSizes(S) = f[S]
    BY DEF SumSizes, MapThenSumSet, MapThenFoldSet
  <1>2. \A s \in SUBSET S : s # {} => (CHOOSE y \in s : TRUE) \in s
    OBVIOUS
  <1>3. g = [s \in SUBSET S |-> F(g, s)]
    <2>1. ASSUME NEW s \in SUBSET S PROVE g[s] = F(g, s)
      BY <1>2 DEF Additive
    <2> QED
      BY <2>1 DEF Additive
  <1>4. f = [s \in SUBSET S |-> F(f, s)]
    BY <1>3
  <1> HIDE DEF f
  <1> DEFINE C == {s \in SUBSET S : f[s] # g[s]}
  <1> SUFFICES ASSUME C # {} PROVE FALSE
    BY <1>1
  <1>5. IsFiniteSet(S)
    BY FS_Subset DEF StoreAssumption
  <1>6. PICK s \in C : \A x \in s : s \ {x} \notin C
    BY <1>5, LeastSubset
  <1>7. f[s] = F(f, s) /\ g[s] = F(g, s)
    BY <1>3, <1>4
  <1>8. s # {} => f[s \ {CHOOSE y \in s : TRUE}] = g[s \ {CHOOSE y \in s : TRUE}]
    BY <1>2, <1>6
  <1> QED
    BY <1>6, <1>7, <1>8

\* What is less takes less room.
LEMMA SumGrows ==
  ASSUME StoreAssumption, NEW B \in SUBSET Shas, NEW A \in SUBSET B
  PROVE  SumSizes(A) \in Nat /\ SumSizes(B) \in Nat /\ SumSizes(A) <= SumSizes(B)
  <1>0. IsFiniteSet(B) /\ Size \in [Shas -> Nat \ {0}]
    BY FS_Subset DEF StoreAssumption
  <1>1. PICK g : Additive(g, B)
    BY SumsExist
  <1>2. SumSizes(B) = g[B]
    BY <1>1, SumIsAdditive
  <1>3. SumSizes(A) = g[A]
    <2> DEFINE h == [s \in SUBSET A |-> g[s]]
    <2>1. Additive(h, A)
      BY <1>1 DEF Additive
    <2> QED
      BY <2>1, SumIsAdditive
  <1>4. g[A] <= g[B]
    <2> DEFINE C == {s \in SUBSET B : A \subseteq s /\ ~(g[A] <= g[s])}
    <2> SUFFICES ASSUME C # {} PROVE FALSE
      OBVIOUS
    <2>1. C \in SUBSET SUBSET B
      OBVIOUS
    <2>2. PICK s \in C : \A x \in s : s \ {x} \notin C
      <3> HIDE DEF C
      <3> QED
        BY <1>0, <2>1, LeastSubset
    <2>3. s # A /\ A \subseteq s /\ s \subseteq B /\ ~(g[A] <= g[s])
      <3>1. g[A] \in Nat
        BY <1>1 DEF Additive
      <3> QED
        BY <2>2, <3>1
    <2>4. PICK x \in s : x \notin A
      BY <2>3
    <2>5. s \ {x} \notin C
      BY <2>2
    <2>6. g[A] <= g[s \ {x}]
      BY <2>3, <2>4, <2>5
    <2>7. g[s] = Size[x] + g[s \ {x}] /\ g[s \ {x}] \in Nat /\ g[A] \in Nat /\ Size[x] \in Nat
      BY <1>0, <1>1, <2>3 DEF Additive
    <2> QED
      BY <2>3, <2>6, <2>7
  <1>5. g[A] \in Nat /\ g[B] \in Nat
    BY <1>1 DEF Additive
  <1> QED
    BY <1>2, <1>3, <1>4, <1>5

-----------------------------------------------------------------------------
(***************************************************************************)
(* What was loaded stays                                                   *)
(***************************************************************************)

RottenNow(s) == s \in RottenIn(current)

\* On its way a load of a chunk works on the current cache; what it has found
\* there is there still, and corrupt still.
PathOf(v, s) ==
  /\ pc[v] \in Loading \cup {"evict"} => cache[v] \in {0, current}
  /\ pc[v] \in {"touchBad", "corrupt"} => RottenNow(s) /\ cache[v] = 0
  /\ pc[v] \in {"touch", "missing", "put", "lru", "metaGet", "metaPut"} => ~RottenNow(s)
  /\ pc[v] = "evict" /\ cache[v] = 0 => from[v] = current
  /\ pc[v] = "evict" /\ (cache[v] # 0 \/ s \notin todo[v]) => ~RottenNow(s)
  /\ pc[v] \in {"touch", "metaGet", "metaPut"} => s \in bodies[current]

PathKept(s) == \A v \in Tasks : v.kind = "load" /\ v.sha = s => PathOf(v, s)

Evicts(v, s) == pc[v] \in {"evict", "writeBack"} /\ s \in victims[v]

\* A chunk that was loaded is there and whole, nobody is about to evict it, and
\* its record, when it has one, names the model.
LoadKept(t) ==
  /\ t.sha \in bodies[current] /\ ~RottenNow(t.sha)
  /\ \A v \in Tasks : ~Evicts(v, t.sha)
  /\ LoadedForOneModel(t) =>
       /\ t.sha \in DOMAIN meta => t.model \in meta[t.sha].owners
       /\ result[t] = "stored" => t.sha \in DOMAIN meta

Claimed(t) == t.kind = "load" /\ result[t] \in {"hit", "stored"} /\ Undisturbed(t)

Everything == DOMAIN Stored \cup {t.sha : t \in {u \in Tasks : u.kind = "load"}}

RoomKept ==
  /\ rotten \subseteq bodies[1]
  /\ \A k \in Caches : bodies[k] \subseteq Everything
  /\ RoomForAll => \A v \in Tasks : pc[v] # "lru"

TurnKept(t) ==
  /\ result[t] \in {"hit", "stored"} => pc[t] = "done"
  /\ pc[t] \notin {"called", "gone"} => \A u \in Tasks : <<u, t>> \in work.precedes => pc[u] = "done"

LoadInv ==
  /\ RoomKept /\ \A t \in Tasks : TurnKept(t)
  /\ HandlesAreFresh => /\ \A s \in Shas \ crossed : PathKept(s)
                        /\ \A t \in Tasks : Claimed(t) => LoadKept(t)

LEMMA InitLoadInv == Init => LoadInv
  <1> SUFFICES ASSUME Init PROVE LoadInv
    OBVIOUS
  <1>1. \A t \in Tasks : pc[t] = "called" /\ result[t] = "none"
    BY DEF Init
  <1>2. RoomKept
    <2>1. 1 \in Caches /\ work \in Workloads
      <3>1. Cardinality(Clears) \in Nat
        BY ClearsAreFinite DEF Init
      <3> QED
        BY <3>1 DEF Caches, Clears, Init
    <2>2. rotten \subseteq DOMAIN Stored
      BY <2>1, StoreAssumption DEF Init, Stored
    <2> QED
      BY <1>1, <2>1, <2>2 DEF RoomKept, Init, Everything
  <1> QED
    BY <1>1, <1>2 DEF LoadInv, TurnKept, PathKept, PathOf, Claimed, Loading

\* Who has begun to clear has everything to go.
LEMMA ClearStepRemoves ==
  ASSUME TypesKept, TasksKept, NEW t \in Tasks, Act(t)
  PROVE  /\ ClearStep(t) => /\ t.kind = "clear" /\ pc[t] # "done"
                            /\ \A s \in Shas : Removes(t, s) \/ Removes(t, s)'
         /\ ~ClearStep(t) => t.kind # "clear" /\ pc[t] \notin Clearing
  <1>0. TaskKept(t)
    BY DEF TasksKept
  <1>1. ASSUME ClearStep(t)
        PROVE  t.kind = "clear" /\ pc[t] # "done" /\ \A s \in Shas : Removes(t, s) \/ Removes(t, s)'
    BY <1>0, <1>1 DEF ClearStep, ClearBodies, Called, ForgetHandle, ClearRecords, TaskKept,
       Removes, Clearing, Goto, TypesKept, CallsTyped
  <1>2. ASSUME ~ClearStep(t) PROVE t.kind # "clear"
    BY <1>0, <1>2 DEF Act, ClearStep, TaskKept, Loading, Match, Called, Touch, EvictCorrupt,
       OpenToPut, PutBody, PutHitsQuota, ChooseVictims, ReadRecord, WriteRecord, DeleteBody,
       WriteBack, DeleteRecords, ReadModel, WrittenBack
  <1> QED
    BY <1>0, <1>1, <1>2 DEF TaskKept

\* A corrupt body stays until it is put anew or evicted; none comes.
LEMMA RottenSteps ==
  ASSUME TypesKept, TasksKept, NEW s \in Shas, NEW t \in Tasks, Act(t), ~ClearStep(t)
  PROVE  /\ RottenNow(s)' => RottenNow(s)
         /\ RottenNow(s) => \/ RottenNow(s)'
                            \/ pc[t] = "put" /\ t.kind = "load" /\ t.sha = s
                            \/ pc[t] = "evict" /\ s \in todo[t] /\ s \in victims[t]
         /\ PutBody(t) /\ t.sha = s /\ cache[t] = current => ~RottenNow(s)'
         /\ DeleteBody(t, s) /\ from[t] = current => ~RottenNow(s)'
  <1>0. TaskKept(t) /\ current' = current
    BY BodySteps DEF TasksKept
  <1> USE DEF RottenNow, RottenIn
  <1>1. CASE PutBody(t)
    BY <1>0, <1>1 DEF PutBody, DeleteBody, TaskKept, Loading
  <1>2. ASSUME NEW r \in Shas, DeleteBody(t, r)
        PROVE  /\ RottenNow(s)' => RottenNow(s)
               /\ RottenNow(s) => RottenNow(s)' \/ (r = s /\ pc[t] = "evict" /\ s \in todo[t])
               /\ r = s /\ from[t] = current => ~RottenNow(s)'
    BY <1>0, <1>2 DEF DeleteBody
  <1>3. (\E r \in Shas : DeleteBody(t, r)) => pc[t] = "evict" /\ todo[t] \subseteq victims[t]
    BY <1>0 DEF DeleteBody, TaskKept
  <1>4. CASE rotten' = rotten /\ ~PutBody(t) /\ ~\E r \in Shas : DeleteBody(t, r)
    BY <1>0, <1>4
  <1>5. PutBody(t) \/ (\E r \in Shas : DeleteBody(t, r)) \/ rotten' = rotten
    BY DEF Act, ClearStep, Match, Touch, EvictCorrupt, OpenToPut, PutHitsQuota, ChooseVictims,
       ReadRecord, WriteRecord, WriteBack, DeleteRecords, ReadModel, WrittenBack, storage
  <1>6. CASE ~PutBody(t) /\ \E r \in Shas : DeleteBody(t, r)
    <2>1. PICK r \in Shas : DeleteBody(t, r)
      BY <1>6
    <2> QED
      BY <1>2, <1>3, <1>6, <2>1
  <1> QED
    BY <1>1, <1>4, <1>5, <1>6

\* A load's own step keeps it on its way.
LEMMA PathGoesOn ==
  ASSUME TypesKept, TasksKept, rotten \subseteq bodies[1], NEW s \in Shas, NEW t \in Tasks, Act(t),
         t.kind = "load", t.sha = s, PathOf(t, s), Opened(t.tab) = current
  PROVE  PathOf(t, s)'
  <1>0. TaskKept(t) /\ ~ClearStep(t) /\ current' = current /\ current \in Caches /\ current \in Nat
    BY ClearStepRemoves, BodySteps, CurrentIsACache DEF TasksKept, TypesKept, StorageTyped
  <1> USE DEF storage, TypesKept, CallsTyped, Goto, Return, Loading
  <1>1. CASE Match(t)
    <2>1. /\ cache'[t] = 0 /\ bodies' = bodies /\ RottenNow(s)' = RottenNow(s)
          /\ pc'[t] = "missing" => s \notin bodies[current]
          /\ pc'[t] = "touch" => s \in bodies[current] /\ ~RottenNow(s)
          /\ pc'[t] = "touchBad" => RottenNow(s)
          /\ pc'[t] \in {"missing", "touch", "touchBad"}
      BY <1>0, <1>1 DEF Match, Called, TaskKept, RottenNow, RottenIn
    <2>2. RottenNow(s) => s \in bodies[current]
      BY DEF RottenNow, RottenIn
    <2> QED
      BY <1>0, <2>1, <2>2 DEF PathOf
  <1>2. CASE Touch(t)
    <2>1. /\ pc'[t] \in {"done", "corrupt"} /\ cache' = cache /\ RottenNow(s)' = RottenNow(s)
          /\ pc'[t] = "corrupt" => pc[t] = "touchBad"
      BY <1>2 DEF Touch, RottenNow, RottenIn
    <2> QED
      BY <1>0, <1>2, <2>1 DEF PathOf
  <1>3. CASE EvictCorrupt(t)
    <2>1. /\ pc[t] = "corrupt" /\ pc'[t] = "evict" /\ cache' = cache /\ from'[t] = current
          /\ todo'[t] = {s}
      BY <1>3 DEF EvictCorrupt, StartEvict
    <2>2. cache[t] = 0
      BY <1>3, <2>1 DEF PathOf
    <2> QED
      BY <1>0, <2>1, <2>2 DEF PathOf
  <1>4. CASE OpenToPut(t)
    BY <1>0, <1>4 DEF OpenToPut, PathOf, RottenNow, RottenIn
  <1>5. CASE PutBody(t)
    <2>1. cache[t] = current
      BY <1>0, <1>5 DEF PutBody, PathOf, TaskKept
    <2>2. s \in bodies'[current] /\ ~RottenNow(s)'
      BY <1>0, <1>5, <2>1, RottenSteps DEF PutBody, StorageTyped
    <2> QED
      BY <1>0, <1>5, <2>1, <2>2 DEF PutBody, PathOf
  <1>6. CASE PutHitsQuota(t) \/ ReadRecord(t) \/ WriteRecord(t)
    BY <1>0, <1>6 DEF PutHitsQuota, ReadRecord, WriteRecord, PathOf, RottenNow, RottenIn
  <1>7. CASE ChooseVictims(t)
    <2>1. /\ pc[t] = "lru" /\ pc'[t] \in {"done", "evict"} /\ cache' = cache
          /\ RottenNow(s)' = RottenNow(s)
      BY <1>7 DEF ChooseVictims, StartEvict, RottenNow, RottenIn
    <2> QED
      BY <1>0, <2>1 DEF PathOf, TaskKept
  <1>8. ASSUME NEW r \in Shas, DeleteBody(t, r) PROVE PathOf(t, s)'
    <2>1. /\ pc[t] = "evict" /\ pc'[t] = "evict" /\ cache' = cache /\ from' = from
          /\ todo'[t] = todo[t] \ {r} /\ from[t] # 0
      BY <1>0, <1>8 DEF DeleteBody, TaskKept
    <2>2. cache[t] # 0 \/ s \notin todo[t] => ~RottenNow(s)'
      BY <1>0, <2>1, RottenSteps DEF PathOf
    <2>3. cache[t] = 0 /\ r = s => ~RottenNow(s)'
      BY <1>0, <1>8, <2>1, RottenSteps DEF PathOf
    <2> QED
      BY <1>0, <2>1, <2>2, <2>3 DEF PathOf
  <1>9. ASSUME NEW r \in Shas, WriteBack(t, r) PROVE FALSE
    BY <1>0, <1>9 DEF WriteBack, TaskKept
  <1>10. CASE DeleteRecords(t)
    <2>1. /\ pc[t] = "evict" /\ todo[t] = {} /\ cache' = cache /\ pc'[t] \in {"missing", "put"}
          /\ RottenNow(s)' = RottenNow(s)
      BY <1>10 DEF DeleteRecords, Evicted, RottenNow, RottenIn
    <2> QED
      BY <1>0, <2>1 DEF PathOf
  <1>11. ~ReadModel(t) /\ ~WrittenBack(t)
    BY <1>0 DEF ReadModel, Called, WrittenBack, TaskKept
  <1> QED
    BY <1>0, <1>1, <1>2, <1>3, <1>4, <1>5, <1>6, <1>7, <1>8, <1>9, <1>10, <1>11 DEF Act, ClearStep

LEMMA PathKeptByActs ==
  ASSUME TypesKept, TasksKept, RoomKept, NEW s \in Shas, Apart(s), Apart(s)', NEW t \in Tasks,
         Act(t), ClearStep(t) \/ (PathKept(s) /\ Opened(t.tab) = current)
  PROVE  PathKept(s)'
  <1>0. Alone(t) /\ Tasks' = Tasks
    BY ActsAreAlone
  <1> SUFFICES ASSUME NEW v \in Tasks, v.kind = "load", v.sha = s PROVE PathOf(v, s)'
    BY <1>0 DEF PathKept
  <1>1. CASE ClearStep(t)
    <2>1. v # t /\ (Removes(t, s) \/ Removes(t, s)')
      BY <1>1, ClearStepRemoves
    <2>2. ~Uses(v, s)'
      BY <1>0, <2>1 DEF Apart, Alone, Uses
    <2>3. pc'[v] \notin Loading \cup {"evict"}
      BY <2>2 DEF Uses, Loading
    <2> QED
      BY <2>3 DEF PathOf, Loading
  <1>2. CASE ~ClearStep(t) /\ v = t
    BY <1>2, PathGoesOn DEF PathKept, RoomKept
  <1>3. CASE ~ClearStep(t) /\ v # t
    <2>1. /\ pc'[v] = pc[v] /\ cache'[v] = cache[v] /\ from'[v] = from[v] /\ todo'[v] = todo[v]
          /\ current' = current /\ PathOf(v, s)
      BY <1>0, <1>3, BodySteps DEF Alone, PathKept
    <2>2. SUFFICES ASSUME pc[v] \in Loading \cup {"evict"} PROVE PathOf(v, s)'
      BY <2>1 DEF PathOf, Loading
    <2>3. Uses(v, s)
      BY <2>2 DEF Uses, Loading
    <2>4. ~(pc[t] = "evict" /\ s \in victims[t])
      BY <1>3, <2>3 DEF Apart, Removes
    <2>5. s \in bodies[current] => s \in bodies'[current]
      BY <1>3, <2>4, BodySteps DEF BodySame
    <2>6. RottenNow(s)' => RottenNow(s)
      BY <1>3, RottenSteps
    <2>7. RottenNow(s) => RottenNow(s)'
      <3>1. ~(RottenNow(s) /\ pc[t] = "put" /\ t.kind = "load" /\ t.sha = s)
        BY <1>3 DEF PathKept, PathOf
      <3> QED
        BY <1>3, <2>4, <3>1, RottenSteps
    <2> QED
      BY <2>1, <2>5, <2>6, <2>7 DEF PathOf
  <1> QED
    BY <1>1, <1>2, <1>3

\* Who comes to evict a chunk has found it corrupt, or its record to be another
\* model's.
LEMMA EvictsSteps ==
  ASSUME TypesKept, TasksKept, NEW s \in Shas, NEW t \in Tasks, Act(t), Evicts(t, s)'
  PROVE  \/ Evicts(t, s)
         \/ t.kind = "load" /\ pc[t] = "corrupt" /\ t.sha = s
         \/ /\ t.kind = "load" /\ pc[t] = "lru"
            /\ s \in DOMAIN meta /\ t.model \notin meta[s].owners
         \/ /\ t.kind = "evictModel" /\ pc[t] = "called"
            /\ s \in DOMAIN meta /\ meta[s].owners = {t.model}
  <1> DEFINE Goal ==
         \/ Evicts(t, s)
         \/ t.kind = "load" /\ pc[t] = "corrupt" /\ t.sha = s
         \/ /\ t.kind = "load" /\ pc[t] = "lru"
            /\ s \in DOMAIN meta /\ t.model \notin meta[s].owners
         \/ /\ t.kind = "evictModel" /\ pc[t] = "called"
            /\ s \in DOMAIN meta /\ meta[s].owners = {t.model}
  <1>0. TaskKept(t)
    BY DEF TasksKept
  <1> USE DEF TypesKept, CallsTyped, Goto, Return, storage, Evicts
  <1>1. ASSUME Match(t) \/ Touch(t) \/ OpenToPut(t) \/ PutBody(t) \/ PutHitsQuota(t) PROVE Goal
    BY <1>1 DEF Match, Touch, OpenToPut, PutBody, PutHitsQuota
  <1>2. ASSUME ReadRecord(t) \/ WriteRecord(t) \/ ClearBodies(t) \/ ForgetHandle(t)
                 \/ ClearRecords(t) \/ DeleteRecords(t)
        PROVE  Goal
    BY <1>2 DEF ReadRecord, WriteRecord, ClearBodies, ForgetHandle, ClearRecords, DeleteRecords,
       Evicted
  <1>3. CASE EvictCorrupt(t)
    BY <1>0, <1>3 DEF EvictCorrupt, StartEvict, TaskKept, Loading
  <1>4. CASE ChooseVictims(t)
    <2>1. s \in LruVictims(meta, Size[t.sha], t.model) /\ pc[t] = "lru"
      BY <1>4 DEF ChooseVictims, StartEvict
    <2>2. s \in DOMAIN meta /\ t.model \notin meta[s].owners
      BY <2>1 DEF LruVictims
    <2> QED
      BY <1>0, <2>1, <2>2 DEF TaskKept, Loading
  <1>5. ASSUME NEW r \in Shas, DeleteBody(t, r) \/ WriteBack(t, r) PROVE Goal
    BY <1>5 DEF DeleteBody, WriteBack
  <1>6. CASE ReadModel(t)
    BY <1>6 DEF ReadModel, Called
  <1>7. CASE WrittenBack(t)
    BY <1>7 DEF WrittenBack, StartEvict
  <1> QED
    BY <1>1, <1>2, <1>3, <1>4, <1>5, <1>6, <1>7 DEF Act

\* A load ends well with a hit or a record written.
LEMMA ResultSteps ==
  ASSUME TypesKept, TasksKept, NEW t \in Tasks, Act(t), result'[t] \in {"hit", "stored"}
  PROVE  \/ result'[t] = result[t]
         \/ pc[t] = "touch" /\ Touch(t) /\ result'[t] = "hit" /\ pc'[t] = "done"
         \/ WriteRecord(t) /\ pc'[t] = "done"
  <1> USE DEF TypesKept, CallsTyped, Goto, Return, storage
  <1>1. CASE Touch(t) \/ WriteRecord(t)
    BY <1>1 DEF Touch, WriteRecord
  <1>2. ASSUME Match(t) \/ OpenToPut(t) \/ PutBody(t) \/ PutHitsQuota(t) \/ EvictCorrupt(t)
                 \/ ChooseVictims(t) \/ ReadRecord(t)
        PROVE  result'[t] = result[t]
    BY <1>2 DEF Match, OpenToPut, PutBody, PutHitsQuota, EvictCorrupt, ChooseVictims, ReadRecord
  <1>3. ASSUME ClearBodies(t) \/ ForgetHandle(t) \/ ClearRecords(t) \/ DeleteRecords(t)
                 \/ ReadModel(t) \/ WrittenBack(t)
        PROVE  result'[t] = result[t]
    BY <1>3 DEF ClearBodies, ForgetHandle, ClearRecords, DeleteRecords, Evicted, ReadModel,
       WrittenBack
  <1>4. ASSUME NEW r \in Shas, DeleteBody(t, r) \/ WriteBack(t, r) PROVE result'[t] = result[t]
    BY <1>4 DEF DeleteBody, WriteBack
  <1> QED
    BY <1>1, <1>2, <1>3, <1>4 DEF Act

\* Bodies come from loads, and when there is room for all of them no put meets
\* the quota.
LEMMA RoomKeptByActs ==
  ASSUME TypesKept, TasksKept, RoomKept, NEW t \in Tasks, Act(t)
  PROVE  RoomKept'
  <1>0. /\ work' = work /\ Tasks' = Tasks /\ Caches' = Caches /\ Alone(t) /\ TaskKept(t)
        /\ current \in Caches /\ 1 \in Caches
    <2>1. Cardinality(Clears) \in Nat
      BY ClearsAreFinite DEF TypesKept
    <2> QED
      BY <2>1, ActsAreAlone, CurrentIsACache DEF TasksKept, Caches, Clears
  <1>1. Everything' = Everything /\ RoomForAll' = RoomForAll
    BY <1>0 DEF Everything, RoomForAll, Stored, Tasks
  <1> USE DEF storage, TypesKept, StorageTyped, CallsTyped, Goto, Return
  <1>2. rotten' \subseteq bodies'[1] /\ \A k \in Caches : bodies'[k] \subseteq Everything
    <2>1. CASE PutBody(t)
      <3>1. t.sha \in Everything
        BY <1>0, <2>1 DEF PutBody, TaskKept, Loading, Everything
      <3>2. \A k \in Caches : bodies[k] \subseteq bodies'[k]
                              /\ bodies'[k] \subseteq bodies[k] \cup {t.sha}
        BY <2>1 DEF PutBody
      <3>3. rotten' \subseteq rotten
        BY <2>1 DEF PutBody
      <3> QED
        BY <1>0, <3>1, <3>2, <3>3 DEF RoomKept
    <2>2. ASSUME NEW r \in Shas, DeleteBody(t, r)
          PROVE  rotten' \subseteq bodies'[1] /\ \A k \in Caches : bodies'[k] \subseteq Everything
      <3>1. \A k \in Caches : bodies'[k] = IF k = from[t] THEN bodies[k] \ {r} ELSE bodies[k]
        BY <2>2 DEF DeleteBody
      <3>2. rotten' = rotten \ ({r} \cap RottenIn(from[t]))
        BY <2>2 DEF DeleteBody
      <3>3. from[t] = 1 => r \notin rotten'
        BY <3>2 DEF RottenIn
      <3> QED
        BY <1>0, <3>1, <3>2, <3>3 DEF RoomKept
    <2>3. CASE bodies' = bodies /\ rotten' = rotten
      BY <1>0, <2>3 DEF RoomKept
    <2> QED
      BY <2>1, <2>2, <2>3 DEF Act, Match, Touch, EvictCorrupt, OpenToPut, PutHitsQuota,
         ChooseVictims, ReadRecord, WriteRecord, WriteBack, DeleteRecords, ReadModel, WrittenBack,
         ClearBodies, ForgetHandle, ClearRecords
  <1>3. ASSUME RoomForAll, NEW v \in Tasks, pc'[v] = "lru" PROVE FALSE
    <2>1. v = t /\ pc[t] # "lru"
      BY <1>0, <1>3 DEF Alone, RoomKept
    <2>2. PutHitsQuota(t)
      <3>1. ASSUME NEW r \in Shas, DeleteBody(t, r) \/ WriteBack(t, r) PROVE pc'[t] # "lru"
        BY <3>1 DEF DeleteBody, WriteBack
      <3>2. ~(Match(t) \/ Touch(t) \/ EvictCorrupt(t) \/ OpenToPut(t) \/ PutBody(t)
                \/ ChooseVictims(t) \/ ReadRecord(t) \/ WriteRecord(t))
        BY <1>3, <2>1 DEF Match, Touch, EvictCorrupt, OpenToPut, PutBody, ChooseVictims,
           ReadRecord, WriteRecord
      <3>3. ~(DeleteRecords(t) \/ ReadModel(t) \/ WrittenBack(t) \/ ClearBodies(t)
                \/ ForgetHandle(t) \/ ClearRecords(t))
        BY <1>3, <2>1 DEF DeleteRecords, Evicted, ReadModel, WrittenBack, ClearBodies,
           ForgetHandle, ClearRecords
      <3> QED
        BY <1>3, <2>1, <3>1, <3>2, <3>3 DEF Act
    <2>3. t.sha \in Everything /\ bodies[current] \cup {t.sha} \subseteq Everything
      BY <1>0, <2>2 DEF PutHitsQuota, TaskKept, Loading, Everything, RoomKept
    <2>4. Everything \in SUBSET Shas
      BY WorkIsTyped, StoreAssumption DEF Everything, Stored
    <2>5. SumSizes(bodies[current] \cup {t.sha}) <= work.capacity
      <3>1. /\ SumSizes(bodies[current] \cup {t.sha}) \in Nat /\ SumSizes(Everything) \in Nat
            /\ SumSizes(bodies[current] \cup {t.sha}) <= SumSizes(Everything)
        BY <2>3, <2>4, StoreAssumption, SumGrows
      <3>2. SumSizes(Everything) <= work.capacity /\ work.capacity \in Nat
        BY <1>3, StoreAssumption DEF RoomForAll, Everything
      <3> HIDE DEF Everything
      <3> QED
        BY <3>1, <3>2
    <2> QED
      BY <2>2, <2>5 DEF PutHitsQuota, Fits
  <1> QED
    BY <1>0, <1>1, <1>2, <1>3 DEF RoomKept

\* Calls that have to wait for others do.
LEMMA TurnsKeptByActs ==
  ASSUME TypesKept, TasksKept, \A u \in Tasks : TurnKept(u), NEW t \in Tasks, Act(t)
  PROVE  \A u \in Tasks : TurnKept(u)'
  <1>0. Alone(t) /\ work' = work /\ Tasks' = Tasks
    BY ActsAreAlone
  <1>1. pc[t] \notin {"done", "gone"}
    BY DEF Act, Match, Called, Touch, EvictCorrupt, OpenToPut, PutBody, PutHitsQuota,
       ChooseVictims, ReadRecord, WriteRecord, DeleteBody, WriteBack, DeleteRecords, ReadModel,
       WrittenBack, ClearBodies, ForgetHandle, ClearRecords
  <1>2. pc[t] = "called" => \A u \in Tasks : <<u, t>> \in work.precedes => pc[u] = "done"
    BY DEF Act, Match, Called, Touch, EvictCorrupt, OpenToPut, PutBody, PutHitsQuota,
       ChooseVictims, ReadRecord, WriteRecord, DeleteBody, WriteBack, DeleteRecords, ReadModel,
       WrittenBack, ClearBodies, ForgetHandle, ClearRecords
  <1>3. \A u \in Tasks : pc[u] = "done" => pc'[u] = "done"
    BY <1>0, <1>1 DEF Alone
  <1>4. result[t] \notin {"hit", "stored"}
    BY <1>1 DEF TurnKept
  <1>5. result'[t] \in {"hit", "stored"} => pc'[t] = "done"
    BY <1>4, ResultSteps
  <1>6. ASSUME NEW u \in Tasks PROVE TurnKept(u)'
    <2>1. CASE u = t
      <3>1. \A r \in Tasks : <<r, t>> \in work.precedes => pc[r] = "done"
        BY <1>1, <1>2 DEF TurnKept
      <3> QED
        BY <1>0, <1>3, <1>5, <2>1, <3>1 DEF TurnKept
    <2>2. CASE u # t
      <3>1. pc'[u] = pc[u] /\ result'[u] = result[u] /\ TurnKept(u)
        BY <1>0, <2>2 DEF Alone
      <3> QED
        BY <1>0, <1>3, <3>1 DEF TurnKept
    <2> QED
      BY <2>1, <2>2
  <1> QED
    BY <1>6

\* Who is undisturbed has been so.
LEMMA UndisturbedBefore ==
  ASSUME work' = work, crossed \subseteq crossed', NEW c \in Tasks, Undisturbed(c)',
         \A u \in Tasks : pc'[u] = "called" => pc[u] = "called"
  PROVE  Undisturbed(c) /\ LoadedForOneModel(c)' = LoadedForOneModel(c)
  <1>1. Tasks' = Tasks /\ RoomForAll' = RoomForAll /\ LoadedForOneModel(c)' = LoadedForOneModel(c)
    BY DEF Tasks, Stored, RoomForAll, LoadedForOneModel
  <1> QED
    BY <1>1 DEF Undisturbed

\* A chunk whose load has just returned.
LEMMA LoadReturns ==
  ASSUME TypesKept, TasksKept, NEW t \in Tasks, Act(t), t.kind = "load", Apart(t.sha),
         PathOf(t, t.sha), result'[t] \in {"hit", "stored"}, result'[t] # result[t]
  PROVE  LoadKept(t)'
  <1> DEFINE s == t.sha
  <1>0. Alone(t) /\ Tasks' = Tasks /\ s \in Shas
    BY ActsAreAlone, WorkIsTyped DEF TypesKept
  <1>1. /\ pc[t] \in {"touch", "metaPut"} /\ pc'[t] = "done" /\ (Touch(t) \/ WriteRecord(t))
        /\ bodies' = bodies /\ rotten' = rotten /\ current' = current
    BY ResultSteps DEF Touch, WriteRecord
  <1>2. s \in bodies[current] /\ ~RottenNow(s)
    BY <1>1 DEF PathOf
  <1>3. ASSUME NEW v \in Tasks, Evicts(v, s)' PROVE FALSE
    <2>1. v # t
      BY <1>1, <1>3 DEF Evicts
    <2>2. Removes(v, s)
      BY <1>0, <1>3, <2>1 DEF Alone, Evicts, Removes
    <2>3. Uses(t, s)
      BY <1>1 DEF Uses
    <2> QED
      BY <2>1, <2>2, <2>3 DEF Apart
  <1>4. s \in DOMAIN meta' => t.model \in meta'[s].owners
    BY <1>1 DEF Touch, WriteRecord, RecordOf
  <1>5. result'[t] = "stored" => s \in DOMAIN meta'
    <2>1. result'[t] = "stored" => WriteRecord(t)
      BY ResultSteps
    <2> QED
      BY <2>1 DEF WriteRecord, RecordOf
  <1>6. s \in bodies'[current'] /\ ~RottenNow(s)'
    BY <1>1, <1>2 DEF RottenNow, RottenIn
  <1> QED
    BY <1>0, <1>3, <1>4, <1>5, <1>6 DEF LoadKept

\* A chunk that is loaded, and whose removal nobody has asked for.
LEMMA LoadStays ==
  ASSUME TypesKept, TasksKept, RoomKept, NEW c \in Tasks, TurnKept(c), Claimed(c),
         Undisturbed(c)', NEW t \in Tasks, Act(t), RecordKept(c.sha), PathKept(c.sha), LoadKept(c),
         result'[c] = result[c]
  PROVE  LoadKept(c)'
  <1> DEFINE s == c.sha
  <1>0. /\ Alone(t) /\ work' = work /\ Tasks' = Tasks /\ TaskKept(t) /\ pc'[t] # "called"
        /\ s \in Shas /\ c.kind = "load"
    BY ActsAreAlone, CallsGoOn, WorkIsTyped DEF TypesKept, TasksKept, Claimed
  <1>1. pc[c] = "done" /\ \A u \in Tasks : <<u, c>> \in work.precedes => pc[u] = "done"
    BY DEF TurnKept, Claimed
  <1>2. pc[t] # "done"
    BY DEF Act, Match, Called, Touch, EvictCorrupt, OpenToPut, PutBody, PutHitsQuota,
       ChooseVictims, ReadRecord, WriteRecord, DeleteBody, WriteBack, DeleteRecords, ReadModel,
       WrittenBack, ClearBodies, ForgetHandle, ClearRecords
  <1>3. /\ t.kind # "clear"
        /\ t.kind = "evictModel" => t.model # c.model /\ LoadedForOneModel(c)
    <2>1. <<t, c>> \notin work.precedes
      BY <1>1, <1>2
    <2>2. LoadedForOneModel(c)' = LoadedForOneModel(c)
      BY <1>0 DEF LoadedForOneModel
    <2> QED
      BY <1>0, <2>1, <2>2 DEF Undisturbed
  <1>4. ~ClearStep(t) /\ pc[t] \notin Clearing
    BY <1>3, ClearStepRemoves
  <1>5. ~Evicts(t, s)
    BY DEF LoadKept
  <1>6. current' = current /\ s \in bodies'[current]
    BY <1>0, <1>4, <1>5, BodySteps DEF BodySame, LoadKept, Evicts
  <1>7. ~RottenNow(s)'
    BY <1>0, <1>4, RottenSteps DEF LoadKept
  <1>8. ASSUME t.kind = "load", pc[t] = "lru" PROVE t.model = c.model /\ LoadedForOneModel(c)
    <2>1. ~RoomForAll
      BY <1>8 DEF RoomKept
    <2>2. \A u \in Tasks : u.kind = "load" => u.model = c.model
      BY <2>1 DEF Claimed, Undisturbed
    <2> QED
      BY <1>8, <2>2 DEF LoadedForOneModel
  <1>9. ASSUME NEW v \in Tasks, Evicts(v, s)' PROVE FALSE
    <2>1. v = t
      BY <1>0, <1>9 DEF Alone, Evicts, LoadKept
    <2>2. ~(t.kind = "load" /\ pc[t] = "corrupt" /\ t.sha = s)
      BY DEF PathKept, PathOf, LoadKept
    <2>3. ~(t.kind = "load" /\ pc[t] = "lru" /\ s \in DOMAIN meta /\ t.model \notin meta[s].owners)
      BY <1>8 DEF LoadKept
    <2>4. ~(t.kind = "evictModel" /\ s \in DOMAIN meta /\ meta[s].owners = {t.model})
      BY <1>3 DEF LoadKept
    <2> QED
      BY <1>0, <1>5, <1>9, <2>1, <2>2, <2>3, <2>4, EvictsSteps
  <1>10. ASSUME LoadedForOneModel(c)
         PROVE  /\ s \in DOMAIN meta' => c.model \in meta'[s].owners
                /\ result[c] = "stored" => s \in DOMAIN meta'
    <2>1. /\ s \in DOMAIN meta => c.model \in meta[s].owners
          /\ result[c] = "stored" => s \in DOMAIN meta
      BY <1>10 DEF LoadKept
    <2>2. RecordGains(s, t) => t.model = c.model
      BY <1>10 DEF RecordGains, LoadedForOneModel
    <2>3. RecordLoses(s, t) => s \in DOMAIN meta /\ meta[s] = snap[t][s] /\ t.model # c.model
      BY <1>0, <1>3 DEF RecordLoses, RecordKept, TaskKept
    <2>4. ~(pc[t] = "evict" /\ s \in victims[t]) /\ pc[t] # "clearMeta"
      BY <1>4, <1>5 DEF Evicts, Clearing
    <2> HIDE DEF s
    <2> QED
      BY <1>0, <2>1, <2>2, <2>3, <2>4, RecordSteps DEF RecordSame, RecordGains, RecordLoses
  <1>11. LoadedForOneModel(c)' = LoadedForOneModel(c)
    BY <1>0 DEF LoadedForOneModel
  <1> QED
    BY <1>0, <1>6, <1>7, <1>9, <1>10, <1>11 DEF LoadKept

LEMMA ActKeepsLoadInv ==
  ASSUME StoreInv, LoadInv, NEW t \in Tasks, Act(t), Note
  PROVE  LoadInv'
  <1>0. /\ TypesKept /\ TasksKept /\ ChunksKept /\ RoomKept /\ \A u \in Tasks : TurnKept(u)
        /\ Alone(t) /\ work' = work /\ Tasks' = Tasks /\ pc'[t] # "called"
    BY ActsAreAlone, CallsGoOn DEF StoreInv, LoadInv
  <1>1. RoomKept' /\ \A u \in Tasks : TurnKept(u)'
    BY <1>0, RoomKeptByActs, TurnsKeptByActs
  <1> SUFFICES ASSUME HandlesAreFresh'
               PROVE  /\ \A s \in Shas \ crossed' : PathKept(s)'
                      /\ \A c \in Tasks : Claimed(c)' => LoadKept(c)'
    BY <1>0, <1>1 DEF LoadInv
  <1>2. ClearStep(t) \/ (HandlesAreFresh /\ Opened(t.tab) = current)
    BY <1>0, FreshBefore
  <1>3. \A s \in Shas \ crossed' : s \notin crossed /\ Apart(s) /\ Apart(s)' /\ RecordKept(s)
    BY <1>0, UncrossedIsApart DEF ChunksKept
  <1>4. ASSUME NEW s \in Shas \ crossed' PROVE PathKept(s)'
    BY <1>0, <1>2, <1>3, PathKeptByActs DEF LoadInv
  <1>5. ASSUME NEW c \in Tasks, Claimed(c)' PROVE LoadKept(c)'
    <2>1. /\ c.kind = "load" /\ result'[c] \in {"hit", "stored"} /\ Undisturbed(c)'
          /\ c.sha \in Shas \ crossed'
      BY <1>0, <1>5, WorkIsTyped DEF Claimed, Undisturbed, TypesKept
    <2>2. Undisturbed(c)
      <3>1. crossed \subseteq crossed' /\ \A u \in Tasks : pc'[u] = "called" => pc[u] = "called"
        BY <1>0 DEF Note, Alone
      <3> QED
        BY <1>0, <2>1, <3>1, UndisturbedBefore
    <2>3. CASE result'[c] # result[c]
      <3>1. c = t
        BY <1>0, <2>3 DEF Alone
      <3>2. ~ClearStep(t)
        BY <1>0, <2>1, <3>1, ClearStepRemoves
      <3>3. PathOf(t, t.sha) /\ Apart(t.sha)
        BY <1>2, <1>3, <2>1, <3>1, <3>2 DEF LoadInv, PathKept
      <3> QED
        BY <1>0, <2>1, <2>3, <3>1, <3>3, LoadReturns
    <2>4. CASE result'[c] = result[c]
      <3>1. Claimed(c)
        BY <2>1, <2>2, <2>4 DEF Claimed
      <3>2. ~ClearStep(t)
        <4>1. ClearStep(t) => t.kind = "clear" /\ pc[t] # "done"
          BY <1>0, ClearStepRemoves
        <4>2. pc[c] = "done" /\ \A u \in Tasks : <<u, c>> \in work.precedes => pc[u] = "done"
          BY <1>0, <3>1 DEF TurnKept, Claimed
        <4> QED
          BY <1>0, <2>1, <4>1, <4>2 DEF Undisturbed
      <3>3. PathKept(c.sha) /\ LoadKept(c) /\ RecordKept(c.sha)
        BY <1>2, <1>3, <2>1, <3>1, <3>2 DEF LoadInv
      <3> QED
        BY <1>0, <2>1, <2>4, <3>1, <3>3, LoadStays
    <2> QED
      BY <2>3, <2>4
  <1> QED
    BY <1>0, <1>4, <1>5

LEMMA CloseKeepsLoadInv ==
  ASSUME StoreInv, LoadInv, NEW tab \in Tabs, TabCloses(tab), Note
  PROVE  LoadInv'
  <1>1. UNCHANGED <<work, bodies, rotten, current, handle, meta, clock, cache, from, snap, todo,
                    victims, result>>
    BY DEF TabCloses, storage
  <1>2. /\ Tasks' = Tasks /\ Caches' = Caches /\ Stored' = Stored
        /\ \A u \in Tasks : pc'[u] \in {pc[u], "gone"} /\ (pc[u] = "done" => pc'[u] = "done")
        /\ crossed \subseteq crossed'
    BY <1>1 DEF TabCloses, Tasks, Caches, Stored, Note, StoreInv, TypesKept, CallsTyped
  <1>3. RoomKept'
    BY <1>1, <1>2 DEF LoadInv, RoomKept, Everything, RoomForAll
  <1>4. \A u \in Tasks : TurnKept(u)'
    BY <1>1, <1>2 DEF LoadInv, TurnKept
  <1>5. ASSUME HandlesAreFresh', NEW s \in Shas \ crossed' PROVE PathKept(s)'
    <2>1. PathKept(s)
      BY <1>1, <1>2, <1>5 DEF HandlesAreFresh, LoadInv
    <2> QED
      BY <1>1, <1>2, <2>1 DEF PathKept, PathOf, RottenNow, RottenIn, Loading
  <1>6. ASSUME HandlesAreFresh', NEW c \in Tasks, Claimed(c)' PROVE LoadKept(c)'
    <2>1. \A u \in Tasks : pc'[u] = "called" => pc[u] = "called"
      BY <1>2
    <2>2. Undisturbed(c) /\ LoadedForOneModel(c)' = LoadedForOneModel(c)
      BY <1>1, <1>2, <1>6, <2>1, UndisturbedBefore DEF Claimed
    <2>3. LoadKept(c)
      BY <1>1, <1>2, <1>6, <2>2 DEF Claimed, HandlesAreFresh, LoadInv
    <2>4. \A v \in Tasks : Evicts(v, c.sha)' => Evicts(v, c.sha)
      BY <1>1, <1>2 DEF Evicts
    <2> QED
      BY <1>1, <1>2, <2>2, <2>3, <2>4 DEF LoadKept, RottenNow, RottenIn
  <1> QED
    BY <1>2, <1>3, <1>4, <1>5, <1>6 DEF LoadInv

LEMMA NextLoadInv == StoreInv /\ LoadInv /\ [Next]_vars => LoadInv'
  <1> SUFFICES ASSUME StoreInv, LoadInv, [Next]_vars PROVE LoadInv'
    OBVIOUS
  <1>1. ASSUME NEW t \in Tasks, Step(t) PROVE LoadInv'
    BY <1>1, ActKeepsLoadInv DEF Step
  <1>2. ASSUME NEW tab \in Tabs, TabCloses(tab), Note PROVE LoadInv'
    BY <1>2, CloseKeepsLoadInv
  <1>3. ASSUME UNCHANGED vars PROVE LoadInv'
    <2> USE <1>3 DEF vars, storage, local
    <2>1. Tasks' = Tasks /\ Caches' = Caches /\ Stored' = Stored /\ HandlesAreFresh' = HandlesAreFresh
      BY DEF Tasks, Caches, Stored, HandlesAreFresh
    <2>2. RoomKept' = RoomKept
      BY <2>1 DEF RoomKept, Everything, RoomForAll
    <2>3. \A t \in Tasks : TurnKept(t)' = TurnKept(t) /\ Claimed(t)' = Claimed(t)
      BY <2>1 DEF TurnKept, Claimed, Undisturbed, LoadedForOneModel, RoomForAll
    <2>4. \A t \in Tasks : LoadKept(t)' = LoadKept(t)
      BY <2>1 DEF LoadKept, Evicts, RottenNow, RottenIn, LoadedForOneModel
    <2>5. \A s \in Shas : PathKept(s)' = PathKept(s)
      BY <2>1 DEF PathKept, PathOf, RottenNow, RottenIn
    <2> QED
      BY <2>1, <2>2, <2>3, <2>4, <2>5 DEF LoadInv
  <1> QED
    BY <1>1, <1>2, <1>3 DEF Next

LEMMA LoadInvHolds == Spec => []LoadInv
  BY InitLoadInv, NextLoadInv, StoreInvHolds, PTL DEF Spec

-----------------------------------------------------------------------------
LEMMA StoreInvTypes == StoreInv => TypeOK
  <1> SUFFICES ASSUME StoreInv PROVE TypeOK
    OBVIOUS
  <1>1. TypesKept /\ current \in Caches /\ current \in Nat
    BY CurrentIsACache DEF StoreInv, TypesKept, StorageTyped
  <1>2. 0..current \subseteq Caches \cup {0}
    <2> DEFINE n == Cardinality(Clears)
    <2>1. n \in Nat
      BY <1>1, ClearsAreFinite DEF TypesKept
    <2>2. Caches = 1..(1 + n)
      BY DEF Caches, Clears
    <2> HIDE DEF n
    <2> QED
      BY <1>1, <2>1, <2>2
  <1>3. /\ handle \in [Tabs -> Caches \cup {0}]
        /\ cache \in [Tasks -> Caches \cup {0}] /\ from \in [Tasks -> Caches \cup {0}]
    BY <1>1, <1>2 DEF TypesKept, StorageTyped, CallsTyped
  <1> QED
    BY <1>1, <1>3 DEF TypesKept, StorageTyped, CallsTyped, Records, Calls, Loading, Clearing,
       TypeOK

\* When no call is under way and no page works on a deleted cache, the records
\* are those of the bodies there are: for any calls of any pages, from any
\* consistent cache, at whatever await they were interleaved, but for chunks that
\* one call removed while another used them (persite.ts, put, evict and clear).
THEOREM RecordsMatchBodies == Spec => []MetadataMatchesBodies
  <1>1. StoreInv => MetadataMatchesBodies
    <2> SUFFICES ASSUME StoreInv, AtRest, HandlesAreFresh, NEW s \in Shas \ crossed
                 PROVE  s \in DOMAIN meta <=> s \in bodies[current]
      BY StoreInvTypes DEF MetadataMatchesBodies
    <2>1. BodyKept(s) /\ NobodyGone
      BY DEF StoreInv, ChunksKept, NobodyGone, AtRest
    <2>2. BodyFollowsRecord(s)
      BY <2>1 DEF BodyKept
    <2> QED
      BY <2>2 DEF BodyFollowsRecord, AtRest, Clearing
  <1> QED
    BY <1>1, StoreInvHolds, PTL

\* When all calls have returned after an evictModel, no record names the model,
\* and none is left that nobody owns, if none of the model's chunks was loaded.
\* Chunks that one call removed, or was about to write back, while another used
\* them are left out: with other calls on other chunks in any order, the rest
\* holds (persite.ts, evictModel).
THEOREM EvictionsAreComplete == Spec => []EvictedModelIsGone
  <1>1. StoreInv => EvictedModelIsGone
    <2> SUFFICES ASSUME StoreInv, AtRest, NEW t \in Tasks, result[t] = "evicted",
                        \A u \in Tasks : u.kind = "load" /\ u.model = t.model => pc[u] = "called",
                        NEW s \in DOMAIN meta \ crossed
                 PROVE  t.model \notin meta[s].owners /\ meta[s].owners # {}
      BY DEF EvictedModelIsGone
    <2>1. s \in Shas \ crossed
      BY DEF StoreInv, TypesKept, StorageTyped, Records
    <2>2. RecordKept(s) /\ OwnersKept(s) /\ t.kind = "evictModel"
      BY <2>1 DEF StoreInv, ChunksKept, TasksKept, TaskKept
    <2>3. Unloaded(t.model)
      BY DEF Unloaded
    <2> QED
      BY <2>2, <2>3 DEF RecordKept, OwnersKept, OwnersIn
  <1> QED
    BY <1>1, StoreInvHolds, PTL

\* No page makes room for a model by removing a chunk that the model owns when it
\* is removed (persite.ts, evictLru's protectModelId), chunks left out that some
\* call used while another was removing them: one that the model came to own
\* after the victims were chosen is such a chunk, and is removed.
THEOREM OwnChunksStay == Spec => OwnChunksAreProtected
  <1> DEFINE Protected ==
        \A t \in Tasks : t.kind = "load" /\ pc[t] = "evict" =>
          \A s \in todo[t] \ (todo'[t] \cup crossed) :
            s # t.sha => t.model \notin OwnersIn(meta, s)
  <1>1. StoreInv => Protected
    <2> SUFFICES ASSUME StoreInv, NEW t \in Tasks, t.kind = "load", pc[t] = "evict",
                        NEW s \in todo[t], s \notin crossed, s # t.sha
                 PROVE  t.model \notin OwnersIn(meta, s)
      OBVIOUS
    <2>1. s \in Shas /\ s \in victims[t]
      BY DEF StoreInv, TypesKept, CallsTyped, TasksKept, TaskKept
    <2> QED
      BY <2>1 DEF StoreInv, ChunksKept, RecordKept
  <1> QED
    BY <1>1, StoreInvHolds, PTL DEF OwnChunksAreProtected

\* What was loaded for a model is in the cache, and the record says whose it is,
\* as long as nobody asks for its removal, no load of another model has to make
\* room, and no page works on a deleted cache (persite.ts, put's quota handler and
\* evictLru, get's repair; where a page does, StoreDeadHandle.cfg has the loss).
THEOREM LoadedChunksDoStay == Spec => [](HandlesAreFresh => LoadedChunksStay)
  <1>1. StoreInv /\ LoadInv => (HandlesAreFresh => LoadedChunksStay)
    <2> SUFFICES ASSUME StoreInv, LoadInv, HandlesAreFresh, NEW t \in Tasks, t.kind = "load",
                        result[t] \in {"hit", "stored"}, Undisturbed(t)
                 PROVE  /\ t.sha \in bodies[current]
                        /\ LoadedForOneModel(t) /\ (result[t] = "stored" \/ AtRest) =>
                             t.model \in OwnersIn(meta, t.sha)
      BY DEF LoadedChunksStay
    <2>1. LoadKept(t) /\ t.sha \in Shas \ crossed
      BY WorkIsTyped DEF LoadInv, Claimed, Undisturbed, StoreInv, TypesKept
    <2>2. ASSUME AtRest PROVE t.sha \in DOMAIN meta
      <3>1. BodyFollowsRecord(t.sha)
        BY <2>1, <2>2 DEF StoreInv, ChunksKept, BodyKept, NobodyGone, AtRest
      <3> QED
        BY <2>1, <2>2, <3>1 DEF BodyFollowsRecord, AtRest, LoadKept
    <2> QED
      BY <2>1, <2>2 DEF LoadKept, OwnersIn
  <1> QED
    BY <1>1, StoreInvHolds, LoadInvHolds, PTL
=============================================================================
