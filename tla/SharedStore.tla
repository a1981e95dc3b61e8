---------------------------- MODULE SharedStore -----------------------------
(***************************************************************************)
(* The chunk store of one Dianome (sdk/src/index.ts): opened when a load   *)
(* first asks for it, given up when a load meets the quota, replaced when  *)
(* the user opts in, with loads under way through all of it. What a load   *)
(* does with its store is FetchLoop's, how the user opts in CrossSite's.   *)
(***************************************************************************)
EXTENDS Naturals, Sequences

CONSTANTS
  StoreLoads,        \* loads
  MaxGrants          \* bound: how often the user opts in

VARIABLES
  stores,            \* storePromise and those before it, in order: "pending", or
                     \* the store: "cross-site", "per-site" or "none"
  storePromise,      \* a place in `stores`, or 0
  cacheDisabled,
  loads,             \* load -> [at, promise, store, mode, words]
  words              \* what was last said of the store: "quota" and "granted",
                     \* in order; a load notes how many before it began

stVars == <<stores, storePromise, cacheDisabled, loads, words>>

STInit ==
  /\ stores = <<>> /\ storePromise = 0 /\ cacheDisabled = FALSE /\ words = <<>>
  /\ loads = [l \in StoreLoads |->
                [at |-> "idle", promise |-> 0, store |-> "none", mode |-> "none", words |-> 0]]

\* store(): none, or the promise that is there, or a new one.
AskStore(l) ==
  /\ loads[l].at = "idle"
  /\ IF cacheDisabled
     THEN /\ loads' = [loads EXCEPT ![l] = [@ EXCEPT !.at = "loading", !.words = Len(words)]]
          /\ UNCHANGED <<stores, storePromise>>
     ELSE /\ storePromise' = IF storePromise = 0 THEN Len(stores) + 1 ELSE storePromise
          /\ stores' = IF storePromise = 0 THEN Append(stores, "pending") ELSE stores
          /\ loads' = [loads EXCEPT ![l] = [@ EXCEPT !.at = "waiting", !.words = Len(words),
                                                     !.promise = storePromise']]
  /\ UNCHANGED <<cacheDisabled, words>>

\* Seeded fault: the store is kept once it is open, not its promise.
KeepsWhenOpen(n) == n

\* What the object keeps when an opening ends: it kept its promise already.
KeepsOpened(n) == storePromise

\* openStore: the cross-site store when it is granted here, else the origin's,
\* or none; a failure is none.
StoreOpens ==
  /\ \E n \in DOMAIN stores, s \in {"cross-site", "per-site", "none"} :
       /\ stores[n] = "pending" /\ stores' = [stores EXCEPT ![n] = s]
       /\ storePromise' = KeepsOpened(n)
  /\ UNCHANGED <<cacheDisabled, loads, words>>

StartLoad(l) ==
  /\ loads[l].at = "waiting" /\ stores[loads[l].promise] # "pending"
  /\ loads' = [loads EXCEPT ![l] = [@ EXCEPT !.at = "loading", !.store = stores[loads[l].promise]]]
  /\ UNCHANGED <<stores, storePromise, cacheDisabled, words>>

\* Seeded fault: the next load opens the store again.
DisabledForThisLoad == FALSE

DisabledByQuota == TRUE

\* onCacheDisabled, once a load.
MeetQuota(l) ==
  /\ loads[l].at = "loading" /\ loads[l].store # "none"
  /\ loads' = [loads EXCEPT ![l] = [@ EXCEPT !.at = "uncached"]]
  /\ cacheDisabled' = DisabledByQuota /\ storePromise' = 0
  /\ words' = Append(words, "quota")
  /\ UNCHANGED stores

\* enableCrossSiteCache: adopt, at once or after the click in the frame.
AdoptStore ==
  /\ Len(SelectSeq(words, LAMBDA w : w = "granted")) < MaxGrants
  /\ stores' = Append(stores, "cross-site") /\ storePromise' = Len(stores) + 1
  /\ cacheDisabled' = FALSE /\ words' = Append(words, "granted")
  /\ UNCHANGED loads

\* The summary's cacheMode.
EndLoad(l) ==
  /\ loads[l].at \in {"loading", "uncached"}
  /\ loads' = [loads EXCEPT ![l] =
                 [@ EXCEPT !.at = "done",
                           !.mode = IF loads[l].at = "uncached" THEN "none" ELSE loads[l].store]]
  /\ UNCHANGED <<stores, storePromise, cacheDisabled, words>>

STNext ==
  \/ StoreOpens \/ AdoptStore
  \/ \E l \in StoreLoads : AskStore(l) \/ StartLoad(l) \/ MeetQuota(l) \/ EndLoad(l)

STSpec == STInit /\ [][STNext]_stVars

-----------------------------------------------------------------------------
Begun(l) == loads[l].at \notin {"idle", "waiting"}

\* A load's store is what was last said before it began: after a quota, met by
\* any load with any store, none; after the user opted in, the shared one,
\* whatever was still being opened; before either, what the first load opened,
\* for all of them. Two loads that began with nothing said in between have the
\* same. ("switches the session to cache none", dianome.test.ts.)
StoreIsTheLastWord ==
  \A l \in StoreLoads : Begun(l) =>
    /\ loads[l].words > 0 /\ words[loads[l].words] = "quota" => loads[l].store = "none"
    /\ loads[l].words > 0 /\ words[loads[l].words] = "granted" => loads[l].store = "cross-site"
    /\ \A m \in StoreLoads :
         Begun(m) /\ loads[m].words = loads[l].words => loads[m].store = loads[l].store
=============================================================================
