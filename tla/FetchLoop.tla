------------------------------ MODULE FetchLoop ------------------------------
(***************************************************************************)
(* The chunk fetch loop of the SDK, packages/sdk/src/fetcher.ts.           *)
(*                                                                         *)
(* `fetchChunks` runs a few workers over the download order. A worker      *)
(* takes the next index, brings one chunk in through a cache and the       *)
(* network (`one`), verifies it, and hands it to `onChunk`. JavaScript     *)
(* runs a worker without interruption from one `await` to the next, so an  *)
(* action below is what happens from the settling of one awaited promise   *)
(* to the next `await`, and pc[w] names the promise worker w waits for.    *)
(*                                                                         *)
(* Chunks are the positions 1..NumChunks of the order (a plan lists a      *)
(* chunk once). Bytes are "good" when their SHA-256 and length match the   *)
(* chunk's name, "corrupt" otherwise. The store is abstract here: what a   *)
(* body under the chunk's URL contains. Backoff lengths and timings are    *)
(* left out.                                                               *)
(***************************************************************************)
EXTENDS Naturals, Sequences

CONSTANTS
  NumChunks,         \* length of the download order
  Workers,           \* the workers of the pool
  Retries,           \* `retries`: attempts after the first one
  StoreKinds         \* the stores a load may be given

ASSUME FetchAssumption ==
  /\ NumChunks \in Nat
  /\ Workers # {}                 \* Math.max(1, concurrency)
  /\ Retries \in Nat
  /\ StoreKinds \subseteq {"none", "per-site", "cross-site"}

VARIABLES
  nextIndex,         \* `next`, counted from 1
  pc,                \* the promise each worker is waiting for
  item,              \* the chunk each worker is working on
  attempt,           \* `n` in withRetry
  buf,               \* the bytes the worker is holding
  source,            \* where they came from: "network" or "cache"
  evictedOnce,       \* the flag of the cross-site path
  kind,              \* the store given: "none", "per-site", or "cross-site",
                     \* which is a store with `fetch`
  storeOn,           \* `store` is not null
  failure,           \* "none", "error" or "aborted": the first failure
  aborted,           \* the internal AbortController's signal
  outerAborted,      \* the caller's signal
  cached,            \* what the store holds under each chunk's URL
  handed,            \* handed[c]: the buffers passed to onChunk for c
  outcome,           \* how the promise of fetchChunks settled
  badReplies,        \* history: bad replies of the CDN for each chunk
  finalReply,        \* history: the CDN gave a reply that no retry may follow
  frameFailed,       \* history: a call on the cross-site frame failed by itself
  putFailed          \* history: some write to the store did not succeed

loopVarsButPc == <<nextIndex, item, attempt, buf, source, evictedOnce>>
loopVars == <<nextIndex, pc, item, attempt, buf, source, evictedOnce>>
sharedVars == <<kind, storeOn, failure, aborted, outerAborted, outcome>>
historyVars == <<badReplies, finalReply, frameFailed, putFailed>>
vars == <<nextIndex, pc, item, attempt, buf, source, evictedOnce,
          kind, storeOn, failure, aborted, outerAborted, cached, handed, outcome,
          badReplies, finalReply, frameFailed, putFailed>>

Chunks == 1..NumChunks
Bytes == {"good", "corrupt"}
Waits == {"idle", "cacheGet", "cacheCheck", "cacheEvict", "request", "check",
          "backoff", "put", "stopped"}
FrameWaits == {"frameFetch", "frameCheck", "frameEvict", "frameBackoff"}

\* The delivery is closed: nothing reaches the consumer any more.
Closed == failure # "none" \/ aborted

Busy(w) == pc[w] \notin {"idle", "stopped"}

TypeOK ==
  /\ nextIndex \in 1..(NumChunks + 1)
  /\ pc \in [Workers -> Waits \cup FrameWaits]
  /\ item \in [Workers -> 0..NumChunks]
  /\ attempt \in [Workers -> 1..(Retries + 1)]
  /\ buf \in [Workers -> Bytes \cup {"none"}]
  /\ source \in [Workers -> {"network", "cache"}]
  /\ evictedOnce \in [Workers -> BOOLEAN]
  /\ kind \in StoreKinds
  /\ storeOn \in BOOLEAN
  /\ failure \in {"none", "error", "aborted"}
  /\ aborted \in BOOLEAN
  /\ outerAborted \in BOOLEAN
  /\ cached \in [Chunks -> Bytes \cup {"absent"}]
  /\ handed \in [Chunks -> Seq(Bytes)]
  /\ outcome \in {"running", "done", "failed", "aborted"}
  /\ badReplies \in [Chunks -> Nat]
  /\ finalReply \in BOOLEAN
  /\ frameFailed \in BOOLEAN
  /\ putFailed \in BOOLEAN

\* The caller's signal may already be aborted; the store may hold anything an
\* earlier load left behind, corrupt bodies included.
Init ==
  /\ nextIndex = 1
  /\ pc = [w \in Workers |-> "idle"]
  /\ item = [w \in Workers |-> 0]
  /\ attempt = [w \in Workers |-> 1]
  /\ buf = [w \in Workers |-> "none"]
  /\ source = [w \in Workers |-> "network"]
  /\ evictedOnce = [w \in Workers |-> FALSE]
  /\ kind \in StoreKinds
  /\ storeOn \in BOOLEAN
  /\ storeOn <=> kind # "none"
  /\ failure = "none"
  /\ outerAborted \in BOOLEAN
  /\ aborted = outerAborted
  /\ IF kind = "none"
       THEN cached = [c \in Chunks |-> "absent"]
       ELSE cached \in [Chunks -> Bytes \cup {"absent"}]
  /\ handed = [c \in Chunks |-> <<>>]
  /\ outcome = "running"
  /\ badReplies = [c \in Chunks |-> 0]
  /\ finalReply = FALSE
  /\ frameFailed = FALSE
  /\ putFailed = FALSE

-----------------------------------------------------------------------------
(***************************************************************************)
(* Pieces shared by the actions                                            *)
(***************************************************************************)

Goto(w, p) == pc' = [pc EXCEPT ![w] = p]

\* Seeded fault: the caller's signal is not looked at.
ThrowForgettingCaller(w) ==
  /\ failure' = IF failure # "none" THEN failure ELSE "error"
  /\ aborted' = TRUE
  /\ Goto(w, "stopped")

\* Seeded fault: the other requests are not cancelled.
ThrowWithoutAbort(w) ==
  /\ failure' = IF failure # "none" THEN failure
                ELSE IF outerAborted THEN "aborted" ELSE "error"
  /\ UNCHANGED aborted
  /\ Goto(w, "stopped")

\* The `catch` of the worker: the first failure is kept, as an abort when the
\* caller's signal is up, and every other request is cancelled.
Throw(w) ==
  /\ failure' = IF failure # "none" THEN failure
                ELSE IF outerAborted THEN "aborted" ELSE "error"
  /\ aborted' = TRUE
  /\ Goto(w, "stopped")

\* Seeded fault: one retry too many.
RetryOrThrowOffByOne(w, wait) ==
  IF aborted \/ attempt[w] > Retries + 1
    THEN Throw(w)
    ELSE Goto(w, wait) /\ UNCHANGED <<failure, aborted>>

\* The `catch` of withRetry for a retryable error: abort wins, then the retry
\* budget decides. Any other error goes straight to Throw.
RetryOrThrow(w, wait) ==
  IF aborted \/ attempt[w] > Retries
    THEN Throw(w)
    ELSE Goto(w, wait) /\ UNCHANGED <<failure, aborted>>

\* Seeded fault: the chunk is handed over whatever happened meanwhile.
FinishAnyway(w) ==
  /\ handed' = [handed EXCEPT ![item[w]] = Append(@, buf[w])]
  /\ Goto(w, "idle")

\* `one` returned: the chunk goes to onChunk unless the load has closed.
Finish(w) ==
  /\ handed' = IF Closed THEN handed
               ELSE [handed EXCEPT ![item[w]] = Append(@, buf[w])]
  /\ Goto(w, "idle")

\* disableCache: only the first call has an effect, and it is for good.
DisableCache == storeOn' = FALSE

-----------------------------------------------------------------------------
(***************************************************************************)
(* The worker loop                                                         *)
(***************************************************************************)

LoopGoesOn == nextIndex <= NumChunks /\ failure = "none" /\ ~aborted

\* Seeded fault: the index is read in one turn and written back in a later
\* one, so that two idle workers read the same value.
TakeWithoutAdvance(w) ==
  /\ pc[w] = "idle"
  /\ LoopGoesOn
  /\ item' = [item EXCEPT ![w] = nextIndex]
  /\ nextIndex' = IF \E v \in Workers \ {w} : pc[v] = "idle"
                    THEN nextIndex ELSE nextIndex + 1
  /\ attempt' = [attempt EXCEPT ![w] = 1]
  /\ buf' = [buf EXCEPT ![w] = "none"]
  /\ source' = [source EXCEPT ![w] = "network"]
  /\ evictedOnce' = [evictedOnce EXCEPT ![w] = FALSE]
  /\ Goto(w, CASE ~storeOn                               -> "request"
               [] storeOn /\ kind = "cross-site" -> "frameFetch"
               [] storeOn /\ kind # "cross-site" -> "cacheGet")
  /\ UNCHANGED <<sharedVars, historyVars, cached, handed>>

\* `order[next++]`, then `one(item)` up to its first await; the store is the
\* one in force at this moment.
Take(w) ==
  /\ pc[w] = "idle"
  /\ LoopGoesOn
  /\ item' = [item EXCEPT ![w] = nextIndex]
  /\ nextIndex' = nextIndex + 1
  /\ attempt' = [attempt EXCEPT ![w] = 1]
  /\ buf' = [buf EXCEPT ![w] = "none"]
  /\ source' = [source EXCEPT ![w] = "network"]
  /\ evictedOnce' = [evictedOnce EXCEPT ![w] = FALSE]
  /\ Goto(w, CASE ~storeOn                               -> "request"
               [] storeOn /\ kind = "cross-site" -> "frameFetch"
               [] storeOn /\ kind # "cross-site" -> "cacheGet")
  /\ UNCHANGED <<sharedVars, historyVars, cached, handed>>

\* The loop condition is false: this worker is done.
Stop(w) ==
  /\ pc[w] = "idle"
  /\ ~LoopGoesOn
  /\ Goto(w, "stopped")
  /\ UNCHANGED <<nextIndex, item, attempt, buf, source, evictedOnce,
                 sharedVars, historyVars, cached, handed>>

\* fromNetwork starts, or withRetry starts its next attempt: the abort check
\* comes before the request.
StartRequest(w, wait) ==
  IF aborted THEN Throw(w)
  ELSE Goto(w, wait) /\ UNCHANGED <<failure, aborted>>

-----------------------------------------------------------------------------
(***************************************************************************)
(* Per-site cache: get, verify, evict a corrupt body                       *)
(***************************************************************************)

\* `get` found nothing, or threw (its errors count as a miss).
CacheMiss(w) ==
  /\ pc[w] = "cacheGet"
  /\ StartRequest(w, "request")
  /\ UNCHANGED <<nextIndex, item, attempt, buf, source, evictedOnce,
                 storeOn, kind, outerAborted, outcome, historyVars, cached, handed>>

CacheHit(w) ==
  /\ pc[w] = "cacheGet"
  /\ cached[item[w]] # "absent"
  /\ buf' = [buf EXCEPT ![w] = cached[item[w]]]
  /\ source' = [source EXCEPT ![w] = "cache"]
  /\ Goto(w, "cacheCheck")
  /\ UNCHANGED <<nextIndex, item, attempt, evictedOnce, sharedVars,
                 historyVars, cached, handed>>

CacheVerified(w) ==
  /\ pc[w] = "cacheCheck"
  /\ buf[w] = "good"
  /\ Finish(w)
  /\ UNCHANGED <<loopVarsButPc, sharedVars, historyVars, cached>>

CacheCorrupt(w) ==
  /\ pc[w] = "cacheCheck"
  /\ buf[w] = "corrupt"
  /\ Goto(w, "cacheEvict")
  /\ UNCHANGED <<loopVarsButPc, sharedVars, historyVars, cached, handed>>

\* Seeded fault: the cache is tried again after the eviction.
CacheEvictedRereads(w) ==
  /\ pc[w] = "cacheEvict"
  /\ \/ cached' = [cached EXCEPT ![item[w]] = "absent"]
     \/ cached' = cached
  /\ source' = [source EXCEPT ![w] = "network"]
  /\ StartRequest(w, "cacheGet")
  /\ UNCHANGED <<nextIndex, item, attempt, buf, evictedOnce, storeOn,
                 kind, outerAborted, outcome, historyVars, handed>>

\* The eviction settled, well or badly; the refetch starts either way.
CacheEvicted(w) ==
  /\ pc[w] = "cacheEvict"
  /\ \/ cached' = [cached EXCEPT ![item[w]] = "absent"]
     \/ cached' = cached
  /\ source' = [source EXCEPT ![w] = "network"]
  /\ StartRequest(w, "request")
  /\ UNCHANGED <<nextIndex, item, attempt, buf, evictedOnce, storeOn,
                 kind, outerAborted, outcome, historyVars, handed>>

-----------------------------------------------------------------------------
(***************************************************************************)
(* The network: fetchChunkOnce, verify, withRetry, and the store's put     *)
(***************************************************************************)

\* A complete body of the expected length arrived; it is not yet verified.
ReplyBody(w) ==
  /\ pc[w] = "request"
  /\ \E b \in Bytes : buf' = [buf EXCEPT ![w] = b]
  /\ Goto(w, "check")
  /\ UNCHANGED <<nextIndex, item, attempt, source, evictedOnce,
                 sharedVars, historyVars, cached, handed>>

\* A network error, a 5xx, or a body of the wrong length.
ReplyBad(w) ==
  /\ pc[w] = "request"
  /\ badReplies' = [badReplies EXCEPT ![item[w]] = @ + 1]
  /\ RetryOrThrow(w, "backoff")
  /\ UNCHANGED <<loopVarsButPc, storeOn, kind, outerAborted, outcome, finalReply,
                 frameFailed, putFailed, cached, handed>>

\* A 4xx: never retried.
ReplyFatal(w) ==
  /\ pc[w] = "request"
  /\ finalReply' = TRUE
  /\ Throw(w)
  /\ UNCHANGED <<loopVarsButPc, storeOn, kind, outerAborted, outcome, badReplies,
                 frameFailed, putFailed, cached, handed>>

\* The internal signal cancels a request in flight, by the network or by the
\* frame; a frame that was asked for the chunk may still store what it gets.
RequestCancelled(w) ==
  /\ pc[w] \in {"request", "frameFetch"}
  /\ aborted
  /\ Throw(w)
  /\ \/ cached' = cached
     \/ /\ pc[w] = "frameFetch"
        /\ cached[item[w]] = "absent"
        /\ \E b \in Bytes : cached' = [cached EXCEPT ![item[w]] = b]
  /\ UNCHANGED <<loopVarsButPc, storeOn, kind, outerAborted, outcome, historyVars,
                 handed>>

\* Seeded fault: a chunk fetched again is not stored.
VerifiedWithoutPut(w) ==
  /\ pc[w] = "check"
  /\ buf[w] = "good"
  /\ Finish(w)
  /\ UNCHANGED <<loopVarsButPc, sharedVars, historyVars, cached>>

\* The SHA-256 matches. `store` is read again: it may be gone by now.
Verified(w) ==
  /\ pc[w] = "check"
  /\ buf[w] = "good"
  /\ IF storeOn THEN Goto(w, "put") /\ UNCHANGED handed
                ELSE Finish(w)
  /\ UNCHANGED <<loopVarsButPc, sharedVars, historyVars, cached>>

VerifyFailed(w) ==
  /\ pc[w] = "check"
  /\ buf[w] = "corrupt"
  /\ badReplies' = [badReplies EXCEPT ![item[w]] = @ + 1]
  /\ RetryOrThrow(w, "backoff")
  /\ UNCHANGED <<loopVarsButPc, storeOn, kind, outerAborted, outcome, finalReply,
                 frameFailed, putFailed, cached, handed>>

\* The sleep between two attempts ended, or the signal ended it.
BackoffOver(w) ==
  /\ pc[w] \in {"backoff", "frameBackoff"}
  /\ StartRequest(w, IF pc[w] = "backoff" THEN "request" ELSE "frameFetch")
  /\ attempt' = IF aborted THEN attempt ELSE [attempt EXCEPT ![w] = @ + 1]
  /\ UNCHANGED <<nextIndex, item, buf, source, evictedOnce, storeOn,
                 kind, outerAborted, outcome, historyVars, cached, handed>>

PutStored(w) ==
  /\ pc[w] = "put"
  /\ cached' = [cached EXCEPT ![item[w]] = buf[w]]
  /\ Finish(w)
  /\ UNCHANGED <<loopVarsButPc, sharedVars, historyVars>>

\* Seeded fault: a put that throws fails the worker.
PutFailedThrows(w) ==
  /\ pc[w] = "put"
  /\ putFailed' = TRUE
  /\ UNCHANGED <<storeOn, cached, handed>>
  /\ Throw(w)
  /\ UNCHANGED <<loopVarsButPc, kind, outerAborted, outcome, badReplies, finalReply,
                 frameFailed>>

\* `put` threw: on quota the session stops caching, any other error is only
\* counted. The body may or may not have been stored before the error.
PutFailed(w) ==
  /\ pc[w] = "put"
  /\ putFailed' = TRUE
  /\ DisableCache \/ UNCHANGED storeOn
  /\ \/ cached' = [cached EXCEPT ![item[w]] = buf[w]]
     \/ cached' = cached
  /\ Finish(w)
  /\ UNCHANGED <<loopVarsButPc, failure, aborted, kind, outerAborted, outcome,
                 badReplies, finalReply,
                 frameFailed>>

-----------------------------------------------------------------------------
(***************************************************************************)
(* Cross-site: the frame fetches and caches, the page verifies             *)
(***************************************************************************)

\* The frame answers from the shared cache, unverified.
FrameHit(w) ==
  /\ pc[w] = "frameFetch"
  /\ cached[item[w]] # "absent"
  /\ buf' = [buf EXCEPT ![w] = cached[item[w]]]
  /\ source' = [source EXCEPT ![w] = "cache"]
  /\ Goto(w, "frameCheck")
  /\ UNCHANGED <<nextIndex, item, attempt, evictedOnce, sharedVars,
                 historyVars, cached, handed>>

\* The frame fetched the body and stored it, still unverified; when its put
\* fails the bytes come anyway, flagged when the reason was quota.
FrameFetched(w) ==
  /\ pc[w] = "frameFetch"
  /\ cached[item[w]] = "absent"
  /\ \E b \in Bytes :
       /\ buf' = [buf EXCEPT ![w] = b]
       /\ \/ /\ cached' = [cached EXCEPT ![item[w]] = b]
             /\ UNCHANGED <<storeOn, putFailed>>
          \/ /\ cached' \in {cached, [cached EXCEPT ![item[w]] = b]}
             /\ putFailed' = TRUE
             /\ DisableCache \/ UNCHANGED storeOn
  /\ source' = [source EXCEPT ![w] = "network"]
  /\ Goto(w, "frameCheck")
  /\ UNCHANGED <<nextIndex, item, attempt, evictedOnce, failure, aborted,
                 kind, outerAborted, outcome, badReplies, finalReply, frameFailed, handed>>

\* The frame reports a network error, a short body or a 5xx.
FrameBad(w) ==
  /\ pc[w] = "frameFetch"
  /\ cached[item[w]] = "absent"
  /\ badReplies' = [badReplies EXCEPT ![item[w]] = @ + 1]
  /\ RetryOrThrow(w, "frameBackoff")
  /\ UNCHANGED <<loopVarsButPc, storeOn, kind, outerAborted, outcome, finalReply,
                 frameFailed, putFailed, cached, handed>>

\* The frame passes a 4xx of the CDN on: never retried.
FrameFinal(w) ==
  /\ pc[w] = "frameFetch"
  /\ cached[item[w]] = "absent"
  /\ finalReply' = TRUE
  /\ Throw(w)
  /\ UNCHANGED <<loopVarsButPc, storeOn, kind, outerAborted, outcome, badReplies,
                 frameFailed, putFailed, cached, handed>>

\* The call fails by itself, before the CDN was asked or after: the frame's
\* cache read threw, the frame did not answer in time or its client was closed.
\* Never retried either; a frame that was only late may still store a body.
FrameCallFails(w) ==
  /\ pc[w] = "frameFetch"
  /\ frameFailed' = TRUE
  /\ Throw(w)
  /\ \/ cached' = cached
     \/ /\ cached[item[w]] = "absent"
        /\ \E b \in Bytes : cached' = [cached EXCEPT ![item[w]] = b]
  /\ UNCHANGED <<loopVarsButPc, storeOn, kind, outerAborted, outcome, badReplies,
                 finalReply, putFailed, handed>>

FrameVerified(w) ==
  /\ pc[w] = "frameCheck"
  /\ buf[w] = "good"
  /\ Finish(w)
  /\ UNCHANGED <<loopVarsButPc, sharedVars, historyVars, cached>>

\* The first corrupt body that came out of the cache is evicted.
FrameCorrupt(w) ==
  /\ pc[w] = "frameCheck"
  /\ buf[w] = "corrupt"
  /\ source[w] = "cache"
  /\ ~evictedOnce[w]
  /\ evictedOnce' = [evictedOnce EXCEPT ![w] = TRUE]
  /\ Goto(w, "frameEvict")
  /\ UNCHANGED <<nextIndex, item, attempt, buf, source, sharedVars,
                 historyVars, cached, handed>>

\* Any other corrupt body is only a failed attempt: it stays in the cache.
FrameCorruptAgain(w) ==
  /\ pc[w] = "frameCheck"
  /\ buf[w] = "corrupt"
  /\ source[w] = "network" \/ evictedOnce[w]
  /\ badReplies' = IF source[w] = "cache" THEN badReplies
                   ELSE [badReplies EXCEPT ![item[w]] = @ + 1]
  /\ RetryOrThrow(w, "frameBackoff")
  /\ UNCHANGED <<loopVarsButPc, storeOn, kind, outerAborted, outcome, finalReply,
                 frameFailed, putFailed, cached, handed>>

\* Only now does the failed verification reach withRetry.
FrameEvicted(w) ==
  /\ pc[w] = "frameEvict"
  /\ cached' = [cached EXCEPT ![item[w]] = "absent"]
  /\ RetryOrThrow(w, "frameBackoff")
  /\ UNCHANGED <<loopVarsButPc, storeOn, kind, outerAborted, outcome, historyVars,
                 handed>>

\* The eviction call itself failed, and may have evicted or not; its error
\* takes the place of the verification error, and no retry follows it.
FrameEvictFailed(w) ==
  /\ pc[w] = "frameEvict"
  /\ frameFailed' = TRUE
  /\ Throw(w)
  /\ cached' \in {cached, [cached EXCEPT ![item[w]] = "absent"]}
  /\ UNCHANGED <<loopVarsButPc, storeOn, kind, outerAborted, outcome, badReplies,
                 finalReply, putFailed, handed>>

-----------------------------------------------------------------------------
(***************************************************************************)
(* The caller and the end of the loop                                      *)
(***************************************************************************)

\* The caller aborts; the listener is removed when the loop has settled.
OuterAbort ==
  /\ outcome = "running"
  /\ ~outerAborted
  /\ outerAborted' = TRUE
  /\ aborted' = TRUE
  /\ UNCHANGED <<loopVars, kind, storeOn, failure, outcome, historyVars,
                 cached, handed>>

\* Promise.all over the workers settled.
Settle ==
  /\ outcome = "running"
  /\ \A w \in Workers : pc[w] = "stopped"
  /\ outcome' = CASE failure = "aborted"                  -> "aborted"
                  [] failure = "error"                    -> "failed"
                  [] failure = "none" /\ outerAborted     -> "aborted"
                  [] failure = "none" /\ ~outerAborted    -> "done"
  /\ UNCHANGED <<loopVars, storeOn, failure, aborted, kind, outerAborted,
                 historyVars, cached, handed>>

\* What the loop and the browser do without the CDN or the frame: these steps
\* always come, and a cancelled request always rejects.
LocalStep(w) ==
  \/ Take(w) \/ Stop(w)
  \/ CacheMiss(w) \/ CacheHit(w) \/ CacheVerified(w) \/ CacheCorrupt(w)
  \/ CacheEvicted(w)
  \/ RequestCancelled(w) \/ Verified(w) \/ VerifyFailed(w) \/ BackoffOver(w)
  \/ PutStored(w) \/ PutFailed(w)
  \/ FrameVerified(w) \/ FrameCorrupt(w) \/ FrameCorruptAgain(w)
  \/ FrameEvicted(w) \/ FrameEvictFailed(w)

\* Replies of the CDN or of the frame.
RemoteStep(w) ==
  \/ ReplyBody(w) \/ ReplyBad(w) \/ ReplyFatal(w)
  \/ FrameHit(w) \/ FrameFetched(w) \/ FrameBad(w) \/ FrameFinal(w)
  \/ FrameCallFails(w)

\* A settled load stays settled.
Settled == outcome # "running" /\ UNCHANGED vars

Next ==
  \/ \E w \in Workers : LocalStep(w) \/ RemoteStep(w)
  \/ OuterAbort
  \/ Settle
  \/ Settled

Spec == Init /\ [][Next]_vars

\* With local progress only: the CDN and the frame may stay silent for ever.
LocalFairness ==
  /\ \A w \in Workers : WF_vars(LocalStep(w))
  /\ WF_vars(Settle)

LocalSpec == Spec /\ LocalFairness

-----------------------------------------------------------------------------
(***************************************************************************)
(* Properties                                                              *)
(***************************************************************************)

(***************************************************************************)
(* The inductive invariant behind ExactlyOnceVerified and the refinement   *)
(***************************************************************************)

\* A worker sleeps between attempts only while it has a retry left.
RetriesRemain ==
  \A w \in Workers :
    pc[w] \in {"backoff", "frameBackoff"} => attempt[w] <= Retries

\* The signals agree: the internal one is up exactly after a failure or the
\* caller's abort.
SignalsAgree == aborted <=> (failure # "none" \/ outerAborted)

\* A chunk being worked on was taken from the order, is worked on by one
\* worker only, and has not been handed over.
InFlightAlone ==
  \A w \in Workers : Busy(w) =>
    /\ item[w] \in 1..(nextIndex - 1)
    /\ handed[item[w]] = <<>>
    /\ \A v \in Workers : Busy(v) /\ item[v] = item[w] => v = w

\* What was handed over is one verified buffer per chunk that was taken.
HandedOnce ==
  \A c \in Chunks :
    /\ handed[c] \in {<<>>, <<"good">>}
    /\ c >= nextIndex => handed[c] = <<>>

\* A worker that stores a chunk has verified it.
StoresVerified == \A w \in Workers : pc[w] = "put" => buf[w] = "good"

\* While the load is open, a chunk that was taken is in flight or handed over.
NoneLost ==
  ~Closed => \A c \in 1..(nextIndex - 1) :
               \/ handed[c] = <<"good">>
               \/ \E w \in Workers : Busy(w) /\ item[w] = c

\* A worker of an open load stops only at the end of the order.
StopsAtEnd ==
  ~Closed => \A w \in Workers : pc[w] = "stopped" => nextIndex = NumChunks + 1

\* A settled load has no worker left, and a good one was never closed.
SettledQuietly ==
  /\ outcome # "running" => \A w \in Workers : pc[w] = "stopped"
  /\ outcome = "done" => ~Closed

LoopInv ==
  /\ TypeOK
  /\ RetriesRemain
  /\ SignalsAgree
  /\ InFlightAlone
  /\ HandedOnce
  /\ StoresVerified
  /\ NoneLost
  /\ StopsAtEnd
  /\ SettledQuietly

\* The consumer gets a chunk at most once and only with bytes that match its
\* name, whichever worker, attempt or cache they came from; a load that ends
\* well has handed over every chunk (onChunk is "called once per chunk").
ExactlyOnceVerified ==
  /\ \A c \in Chunks : handed[c] \in {<<>>, <<"good">>}
  /\ outcome = "done" => \A c \in Chunks : handed[c] = <<"good">>

\* What may fail a load that nobody aborted. Without a store, and with the
\* per-site store, only the CDN: a reply that may not be retried, or more bad
\* replies for one chunk than the retries allow; quota, reads, puts and
\* evictions that throw, and corrupt bodies never do. With the frame, also a
\* call on the frame that fails by itself, an eviction included
\* (fetcher.ts:166); the frame caches what it fetched before the page has
\* verified it, so there a single bad reply may use up several attempts. A
\* corrupt body that was in the cache before the load is "evicted and refetched
\* once": alone it never fails the load, if there is a retry at all, since with
\* none the eviction has used the only attempt.
FailureIsEarned ==
  failure = "error" =>
    \/ finalReply
    \/ kind = "cross-site" /\ frameFailed
    \/ \E c \in Chunks :
         badReplies[c] > (IF kind = "cross-site" THEN 0 ELSE Retries)

\* A completed load leaves a good body under every chunk's URL, whatever was
\* there before, unless a write to the store failed on the way.
CacheIsHealed ==
  outcome = "done" /\ kind # "none" /\ ~putFailed
    => \A c \in Chunks : cached[c] = "good"

\* Once the caller has aborted a load in which nothing had failed, it never
\* reports success nor another error, however the cancelled requests race.
AbortIsReported ==
  [][outerAborted /\ failure = "none"
       => failure' # "error" /\ outcome' \notin {"done", "failed"}]_vars

\* The loop implements the abstract delivery.
Delivery == INSTANCE VerifiedDelivery WITH closed <- Closed
ImplementsDelivery == Delivery!DeliverySpec

\* After an abort, or one final failure, the load settles even when the CDN
\* or the frame never answers what is still in flight.
ClosedLoadSettles == Closed ~> outcome # "running"

\* When every request is answered, the load settles.
LoadSettles ==
  (\A w \in Workers : WF_vars(RemoteStep(w))) => <>(outcome # "running")
=============================================================================
