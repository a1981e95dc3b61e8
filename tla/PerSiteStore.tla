---------------------------- MODULE PerSiteStore ----------------------------
(***************************************************************************)
(* The per-site chunk store (packages/sdk/src/cache/persite.ts, idb.ts).   *)
(*                                                                         *)
(* A chunk is kept in two places that share no transaction: its body in    *)
(* the Cache API, its record (owners, last access) in IndexedDB. Every     *)
(* operation is a chain of awaited calls on one or the other, and the      *)
(* operations of a page and of other pages on the origin interleave at     *)
(* each await. One action is one such call.                                *)
(*                                                                         *)
(* A task is one call into the store as the SDK makes it: a worker's       *)
(* `load` of a chunk (get; on a miss put; on corrupt bytes evict, then     *)
(* put), `evictModel`, or `clear`. caches.delete leaves open Cache objects *)
(* working on the deleted cache, so caches are numbered and a tab keeps    *)
(* the number its memoized handle refers to.                               *)
(*                                                                         *)
(* Nothing keeps a call that removes a chunk apart from one that is using  *)
(* it. `crossed` has the chunks to which that has happened: the properties *)
(* say what holds for the others, in any workload.                         *)
(***************************************************************************)
EXTENDS Naturals, FiniteSets, FiniteSetsExt

CONSTANTS
  Shas, Models, Tabs,
  Size,              \* Size[sha]: bytes of the chunk
  Workloads          \* what the pages do, from which state of the cache

\* A workload: the calls (`tasks`), those that are made only when others have
\* returned (`precedes`), what earlier sessions cached (`stored`: sha -> owners)
\* and what of it is corrupt by now (`rotten`), the bytes the origin may cache
\* (`capacity`), and whether a tab may be closed in the middle of its tasks.
ASSUME StoreAssumption ==
  /\ IsFiniteSet(Shas) /\ Size \in [Shas -> Nat \ {0}]
  /\ \A w \in Workloads :
       /\ IsFiniteSet(w.tasks)
       /\ \A t \in w.tasks :
            /\ t.kind \in {"load", "evictModel", "clear"} /\ t.tab \in Tabs
            /\ t.kind # "clear" => t.model \in Models
            /\ t.kind = "load" => t.sha \in Shas
       /\ w.precedes \subseteq w.tasks \X w.tasks
       /\ DOMAIN w.stored \subseteq Shas
       /\ \A s \in DOMAIN w.stored : w.stored[s] \in (SUBSET Models) \ {{}}
       /\ w.rotten \subseteq DOMAIN w.stored
       /\ w.capacity \in Nat
       /\ w.tabsMayClose \in BOOLEAN

VARIABLES
  work,              \* the workload
  bodies,            \* bodies[k]: the chunks whose body cache number k holds
  rotten,            \* chunks whose body in the first cache is corrupt
  current,           \* the cache that `dianome-v1` names now
  handle,            \* handle[tab]: the tab's memoized cache, 0 for none
  meta,              \* the records: a function sha -> [owners, at]
  clock,             \* Date.now(): grows with every stamp
  pc,                \* the call each task is waiting for
  cache,             \* the cache object the task's put works on
  from,              \* the cache object the task's evict works on
  snap,              \* the records the task has read
  todo,              \* shas the task has still to delete or write back
  victims,           \* shas whose records the task deletes
  result,            \* how the task's call ended
  crossed            \* history: chunks removed by a call while another used them

storage == <<bodies, rotten, current, handle, meta, clock>>
local == <<pc, cache, from, snap, todo, victims, result>>
vars == <<work, storage, local, crossed>>

Tasks == work.tasks
Stored == work.stored

Caches == 1..(1 + Cardinality({t \in Tasks : t.kind = "clear"}))
NoRecords == [s \in {} |-> {}]

Init ==
  /\ work \in Workloads
  /\ bodies = [k \in Caches |-> IF k = 1 THEN DOMAIN Stored ELSE {}]
  /\ rotten = work.rotten
  /\ current = 1
  /\ handle \in [Tabs -> {0, 1}]
  /\ \E order \in [DOMAIN Stored -> 1..Cardinality(DOMAIN Stored)] :
       /\ \A s, r \in DOMAIN Stored : s # r => order[s] # order[r]
       /\ meta = [s \in DOMAIN Stored |-> [owners |-> Stored[s], at |-> order[s]]]
  /\ clock = Cardinality(DOMAIN Stored)
  /\ pc = [t \in Tasks |-> "called"]
  /\ cache = [t \in Tasks |-> 0] /\ from = [t \in Tasks |-> 0]
  /\ snap = [t \in Tasks |-> NoRecords]
  /\ todo = [t \in Tasks |-> {}]
  /\ victims = [t \in Tasks |-> {}]
  /\ result = [t \in Tasks |-> "none"]
  /\ crossed = {}

-----------------------------------------------------------------------------
\* Seeded fault: a record from the future.
StampAhead == clock + 2

\* Date.now(); no two stamps are equal here.
Stamp == clock + 1

Goto(t, p) == pc' = [pc EXCEPT ![t] = p]
Return(t, r) == Goto(t, "done") /\ result' = [result EXCEPT ![t] = r]

SumSizes(S) == MapThenSumSet(LAMBDA s : Size[s], S)

\* Whether the body fits: it does in the place of an old one. A deleted cache
\* that is still referenced has no limit here.
Fits(t) ==
  \/ cache[t] # current \/ t.sha \in bodies[current]
  \/ SumSizes(bodies[current] \cup {t.sha}) <= work.capacity

\* Seeded fault: the model being loaded is not protected.
LruVictimsOfAnyone(records, bytes, model) ==
  {s \in DOMAIN records :
     SumSizes({r \in DOMAIN records : records[r].at < records[s].at}) < bytes}

\* evictLru: the least recently used records that `model` does not own, until
\* they make up `bytes`.
LruVictims(records, bytes, model) ==
  LET evictable == {s \in DOMAIN records : model \notin records[s].owners}
  IN  {s \in evictable :
         SumSizes({r \in evictable : records[r].at < records[s].at}) < bytes}

\* Writing a record: owners read before, plus the model.
RecordOf(records, sha, owners, at) ==
  [s \in DOMAIN records \cup {sha} |->
     IF s = sha THEN [owners |-> owners, at |-> at] ELSE records[s]]

Without(records, S) == [s \in DOMAIN records \ S |-> records[s]]

OwnersIn(records, sha) == IF sha \in DOMAIN records THEN records[sha].owners ELSE {}

\* What is corrupt in cache number k.
RottenIn(k) == IF k = 1 THEN rotten ELSE {}

\* openCache: the memoized handle, or the cache that has the name now.
Opened(tab) == IF handle[tab] = 0 THEN current ELSE handle[tab]
Memoize(tab) == handle' = [handle EXCEPT ![tab] = Opened(tab)]

\* evict, called with `shas`: it opens the cache, and deletes.
StartEvict(t, shas) ==
  /\ Memoize(t.tab)
  /\ from' = [from EXCEPT ![t] = Opened(t.tab)]
  /\ todo' = [todo EXCEPT ![t] = shas]
  /\ victims' = [victims EXCEPT ![t] = shas]

-----------------------------------------------------------------------------
(***************************************************************************)
(* get, and the put of a chunk fetched after a miss                        *)
(***************************************************************************)

\* The task is called now.
Called(t, kind) ==
  /\ pc[t] = "called" /\ t.kind = kind
  /\ \A u \in Tasks : <<u, t>> \in work.precedes => pc[u] = "done"

\* cache.match; the page verifies what it got, and puts what it fetches after
\* a miss.
Match(t) ==
  /\ Called(t, "load")
  /\ Memoize(t.tab)
  /\ LET k == Opened(t.tab)
     IN  Goto(t, CASE t.sha \notin bodies[k]                            -> "missing"
                   [] t.sha \in bodies[k] /\ t.sha \in RottenIn(k)    -> "touchBad"
                   [] t.sha \in bodies[k] /\ t.sha \notin RottenIn(k) -> "touch")
  /\ UNCHANGED <<work, bodies, rotten, current, meta, clock, cache, from, snap, todo, victims,
                 result>>

\* meta.touch, one transaction; get returns.
Touch(t) ==
  /\ pc[t] \in {"touch", "touchBad"}
  /\ IF t.sha \in DOMAIN meta
       THEN meta' = RecordOf(meta, t.sha, meta[t.sha].owners \cup {t.model}, Stamp)
       ELSE UNCHANGED meta
  /\ clock' = clock + 1
  /\ IF pc[t] = "touch" THEN Return(t, "hit")
                        ELSE Goto(t, "corrupt") /\ UNCHANGED result
  /\ UNCHANGED <<work, bodies, rotten, current, handle, cache, from, snap, todo, victims>>

\* The bytes were corrupt.
EvictCorrupt(t) ==
  /\ pc[t] = "corrupt"
  /\ StartEvict(t, {t.sha})
  /\ Goto(t, "evict")
  /\ UNCHANGED <<work, bodies, rotten, current, meta, clock, cache, snap, result>>

\* put begins once the chunk is there.
OpenToPut(t) ==
  /\ pc[t] = "missing"
  /\ Memoize(t.tab)
  /\ cache' = [cache EXCEPT ![t] = Opened(t.tab)]
  /\ Goto(t, "put")
  /\ UNCHANGED <<work, bodies, rotten, current, meta, clock, from, snap, todo, victims, result>>

\* cache.put.
PutBody(t) ==
  /\ pc[t] = "put"
  /\ Fits(t)
  /\ bodies' = [bodies EXCEPT ![cache[t]] = @ \cup {t.sha}]
  /\ rotten' = rotten \ ({t.sha} \cap RottenIn(cache[t]))
  /\ Goto(t, "metaGet")
  /\ UNCHANGED <<work, current, handle, meta, clock, cache, from, snap, todo, victims, result>>

PutHitsQuota(t) ==
  /\ pc[t] = "put"
  /\ ~Fits(t)
  /\ Goto(t, "lru")
  /\ UNCHANGED <<work, storage, cache, from, snap, todo, victims, result>>

\* Seeded fault: with nothing to evict the put is tried again.
ChooseVictimsOrRetry(t) ==
  /\ pc[t] = "lru"
  /\ LET chosen == LruVictims(meta, Size[t.sha], t.model)
     IN  /\ StartEvict(t, chosen)
         /\ Goto(t, IF chosen = {} THEN "put" ELSE "evict")
  /\ UNCHANGED <<work, bodies, rotten, current, meta, clock, cache, snap, result>>

\* evictLru read every record; with nothing to evict the put throws.
ChooseVictims(t) ==
  /\ pc[t] = "lru"
  /\ LET chosen == LruVictims(meta, Size[t.sha], t.model)
     IN  IF chosen = {}
           THEN Return(t, "quota") /\ UNCHANGED <<handle, from, todo, victims>>
           ELSE StartEvict(t, chosen) /\ Goto(t, "evict") /\ UNCHANGED result
  /\ UNCHANGED <<work, bodies, rotten, current, meta, clock, cache, snap>>

\* meta.get: the owners so far.
ReadRecord(t) ==
  /\ pc[t] = "metaGet"
  /\ snap' = [snap EXCEPT ![t] = meta]
  /\ Goto(t, "metaPut")
  /\ UNCHANGED <<work, storage, cache, from, todo, victims, result>>

\* meta.put, a transaction of its own.
WriteRecord(t) ==
  /\ pc[t] = "metaPut"
  /\ meta' = RecordOf(meta, t.sha, OwnersIn(snap[t], t.sha) \cup {t.model}, Stamp)
  /\ clock' = clock + 1
  /\ Return(t, "stored")
  /\ UNCHANGED <<work, bodies, rotten, current, handle, cache, from, snap, todo, victims>>

-----------------------------------------------------------------------------
(***************************************************************************)
(* evict: the bodies first, each by a call of its own, then the records    *)
(***************************************************************************)

DeleteBody(t, s) ==
  /\ pc[t] = "evict"
  /\ s \in todo[t]
  /\ bodies' = [bodies EXCEPT ![from[t]] = @ \ {s}]
  /\ rotten' = rotten \ ({s} \cap RottenIn(from[t]))
  /\ todo' = [todo EXCEPT ![t] = @ \ {s}]
  /\ UNCHANGED <<work, current, handle, meta, clock, pc, cache, from, snap, victims, result>>

\* Back to the put that met the quota, or to the fetch of what was corrupt;
\* evictModel is over.
Evicted(t) ==
  IF t.kind = "load"
  THEN Goto(t, IF cache[t] = 0 THEN "missing" ELSE "put") /\ UNCHANGED result
  ELSE Return(t, "evicted")

\* Seeded fault: the records of evicted chunks are kept.
KeepRecords(t) ==
  /\ pc[t] = "evict" /\ todo[t] = {}
  /\ Evicted(t)
  /\ UNCHANGED <<work, storage, cache, from, snap, todo, victims>>

\* meta.delete.
DeleteRecords(t) ==
  /\ pc[t] = "evict" /\ todo[t] = {}
  /\ meta' = Without(meta, victims[t])
  /\ Evicted(t)
  /\ UNCHANGED <<work, bodies, rotten, current, handle, clock, cache, from, snap, todo, victims>>

\* evictModel: every record is read; those of the model alone will go.
ReadModel(t) ==
  /\ Called(t, "evictModel")
  /\ LET mine == {s \in DOMAIN meta : t.model \in meta[s].owners}
         gone == {s \in mine : meta[s].owners = {t.model}}
     IN  /\ snap' = [snap EXCEPT ![t] = meta]
         /\ todo' = [todo EXCEPT ![t] = mine \ gone]
         /\ victims' = [victims EXCEPT ![t] = gone]
  /\ Goto(t, "writeBack")
  /\ UNCHANGED <<work, storage, cache, from, result>>

\* Seeded fault: the record is written back as it was.
WriteBackUnchanged(t, s) ==
  /\ pc[t] = "writeBack"
  /\ s \in todo[t]
  /\ todo' = [todo EXCEPT ![t] = @ \ {s}]
  /\ UNCHANGED <<work, storage, pc, cache, from, snap, victims, result>>

\* The shared records are written back one after the other, oldest first, as
\* they were read, without the model.
WriteBack(t, s) ==
  /\ pc[t] = "writeBack"
  /\ s \in todo[t]
  /\ \A r \in todo[t] : snap[t][s].at <= snap[t][r].at
  /\ meta' = RecordOf(meta, s, snap[t][s].owners \ {t.model}, snap[t][s].at)
  /\ todo' = [todo EXCEPT ![t] = @ \ {s}]
  /\ UNCHANGED <<work, bodies, rotten, current, handle, clock, pc, cache, from, snap, victims,
                 result>>

WrittenBack(t) ==
  /\ pc[t] = "writeBack" /\ todo[t] = {}
  /\ IF victims[t] = {}
       THEN Return(t, "evicted") /\ UNCHANGED <<handle, from, todo, victims>>
       ELSE StartEvict(t, victims[t]) /\ Goto(t, "evict") /\ UNCHANGED result
  /\ UNCHANGED <<work, bodies, rotten, current, meta, clock, cache, snap>>

-----------------------------------------------------------------------------
(***************************************************************************)
(* clear, and a tab that closes                                            *)
(***************************************************************************)

\* caches.delete: whoever has the cache open keeps a cache without a name.
ClearBodies(t) ==
  /\ Called(t, "clear")
  /\ current' = current + 1
  /\ Goto(t, "forget")
  /\ UNCHANGED <<work, bodies, rotten, handle, meta, clock, cache, from, snap, todo, victims, result>>

\* Seeded fault: the store keeps the handle of the cache it has deleted.
KeepHandle(t) ==
  /\ pc[t] = "forget"
  /\ Goto(t, "clearMeta")
  /\ UNCHANGED <<work, storage, cache, from, snap, todo, victims, result>>

\* This store forgets its handle.
ForgetHandle(t) ==
  /\ pc[t] = "forget"
  /\ handle' = [handle EXCEPT ![t.tab] = 0]
  /\ Goto(t, "clearMeta")
  /\ UNCHANGED <<work, bodies, rotten, current, meta, clock, cache, from, snap, todo, victims,
                 result>>

\* meta.clear.
ClearRecords(t) ==
  /\ pc[t] = "clearMeta"
  /\ meta' = NoRecords
  /\ Return(t, "cleared")
  /\ UNCHANGED <<work, bodies, rotten, current, handle, clock, cache, from, snap, todo, victims>>

\* The tab is closed: its calls stop where they are, what is stored stays.
TabCloses(tab) ==
  /\ work.tabsMayClose
  /\ \E t \in Tasks : t.tab = tab /\ pc[t] \notin {"done", "gone"}
  /\ pc' = [t \in Tasks |-> IF t.tab = tab /\ pc[t] # "done" THEN "gone" ELSE pc[t]]
  /\ UNCHANGED <<work, storage, cache, from, snap, todo, victims, result>>

-----------------------------------------------------------------------------
\* The chunk a call is loading, or the records it is about to write back.
UsedBy(t) ==
  IF pc[t] = "writeBack" THEN todo[t]
  ELSE IF t.kind = "load" /\ pc[t] \notin {"called", "done", "gone"} THEN {t.sha} ELSE {}

\* What a call has chosen to remove, or to write back.
Removers == {t \in Tasks : pc[t] \in {"evict", "writeBack", "forget", "clearMeta"}}

RemovedBy(t) ==
  CASE pc[t] = "evict"     -> victims[t]
    [] pc[t] = "writeBack" -> victims[t] \cup todo[t]
    [] pc[t] \in {"forget", "clearMeta"} -> Shas

Crossing ==
  UNION {RemovedBy(t) \cap UNION {UsedBy(u) : u \in Tasks \ {t}} : t \in Removers}

Note == crossed' = crossed \cup Crossing'

Act(t) ==
  \/ Match(t) \/ Touch(t) \/ EvictCorrupt(t) \/ OpenToPut(t) \/ PutBody(t) \/ PutHitsQuota(t)
  \/ ChooseVictims(t) \/ ReadRecord(t) \/ WriteRecord(t)
  \/ (\E s \in Shas : DeleteBody(t, s) \/ WriteBack(t, s))
  \/ DeleteRecords(t) \/ ReadModel(t) \/ WrittenBack(t)
  \/ ClearBodies(t) \/ ForgetHandle(t) \/ ClearRecords(t)

Step(t) == t \in Tasks /\ Act(t) /\ Note

AllDone == \A t \in Tasks : pc[t] \in {"done", "gone"}

Next ==
  \/ \E t \in Tasks : Step(t)
  \/ \E tab \in Tabs : TabCloses(tab) /\ Note
  \/ AllDone /\ UNCHANGED vars

Spec == Init /\ [][Next]_vars

\* Cache API and IndexedDB calls settle.
FairSpec ==
  Spec /\ \A t \in UNION {w.tasks : w \in Workloads} : WF_vars(Step(t))

-----------------------------------------------------------------------------
(***************************************************************************)
(* Properties                                                              *)
(***************************************************************************)

TypeOK ==
  /\ bodies \in [Caches -> SUBSET Shas]
  /\ rotten \subseteq Shas
  /\ current \in Caches
  /\ handle \in [Tabs -> Caches \cup {0}]
  /\ DOMAIN meta \subseteq Shas
  /\ \A s \in DOMAIN meta : meta[s].owners \subseteq Models /\ meta[s].at \in 0..clock
  /\ pc \in [Tasks -> {"called", "missing", "touch", "touchBad", "corrupt", "put", "lru",
                       "metaGet", "metaPut", "evict", "writeBack", "forget", "clearMeta",
                       "done", "gone"}]
  /\ cache \in [Tasks -> Caches \cup {0}] /\ from \in [Tasks -> Caches \cup {0}]
  /\ todo \in [Tasks -> SUBSET Shas]
  /\ victims \in [Tasks -> SUBSET Shas]
  /\ result \in [Tasks -> {"none", "hit", "stored", "quota", "evicted", "cleared"}]
  /\ crossed \subseteq Shas

AtRest == \A t \in Tasks : pc[t] \in {"called", "done"}

\* No page has a cache open that another has deleted: see StoreDeadHandle.cfg.
HandlesAreFresh == \A tab \in Tabs : handle[tab] \in {0, current}

\* Between operations, what the metadata lists is what the cache holds:
\* status() is right, and the LRU can evict every body there is. The chunks
\* that were removed by one call while another used them are excepted: they may
\* be left with a body and no record, or the reverse.
MetadataMatchesBodies ==
  /\ TypeOK
  /\ AtRest /\ HandlesAreFresh =>
       \A s \in Shas \ crossed : s \in DOMAIN meta <=> s \in bodies[current]

\* All that is cached and loaded fits.
RoomForAll ==
  SumSizes(DOMAIN Stored \cup {t.sha : t \in {u \in Tasks : u.kind = "load"}})
    <= work.capacity

\* put reads the owners in one transaction and writes them in another, and a
\* hit may find no record yet: loads of one chunk for two models lose an owner.
LoadedForOneModel(t) ==
  \A u \in Tasks : u.kind = "load" /\ u.sha = t.sha => u.model = t.model

\* No removal of the task's chunk was asked for while it ran or later - of the
\* model's, or of any if an owner may be lost - and no load of another model
\* has to make room at its cost.
Undisturbed(t) ==
  /\ t.sha \notin crossed
  /\ \A u \in Tasks :
       /\ \/ u.kind = "clear"
          \/ u.kind = "evictModel" /\ (u.model = t.model \/ ~LoadedForOneModel(t))
          => pc[u] = "called" \/ <<u, t>> \in work.precedes
       /\ u.kind = "load" /\ u.model # t.model => RoomForAll

\* A chunk that was loaded for a model is in the cache that has the name, and
\* is the model's, as long as nobody asks for its removal. (The owner of a hit
\* is there once the put that cached the chunk has written its record.)
LoadedChunksStay ==
  \A t \in Tasks :
    t.kind = "load" /\ result[t] \in {"hit", "stored"} /\ Undisturbed(t) =>
      /\ t.sha \in bodies[current]
      /\ LoadedForOneModel(t) /\ (result[t] = "stored" \/ AtRest) =>
           t.model \in OwnersIn(meta, t.sha)

\* Making room for a model evicts no chunk that the model owns at that moment,
\* awaits after the victims were chosen, as long as no call used a chunk that
\* another was removing. It does not hold for those: a chunk the model came to
\* own after the choice, by a load that overlapped the eviction, is removed.
OwnChunksAreProtected ==
  [][\A t \in Tasks : t.kind = "load" /\ pc[t] = "evict" =>
       \A s \in todo[t] \ (todo'[t] \cup crossed) :
         s # t.sha => t.model \notin OwnersIn(meta, s)]_vars

\* When all calls have returned, a model that was evicted owns nothing any more,
\* and nothing it alone owned is left, if none of its own chunks was loaded, of
\* the chunks that no call used while another was removing them. A chunk shared
\* with another model whose load overlapped the eviction is not covered: its
\* record may come back with the evicted model among its owners.
EvictedModelIsGone ==
  AtRest => \A t \in Tasks :
    /\ result[t] = "evicted"
    /\ \A u \in Tasks : u.kind = "load" /\ u.model = t.model => pc[u] = "called"
    => \A s \in DOMAIN meta \ crossed :
         t.model \notin meta[s].owners /\ meta[s].owners # {}

\* Every operation comes back, also when loads of two models take turns in
\* evicting each other's chunks.
OperationsEnd == <>AllDone
=============================================================================
