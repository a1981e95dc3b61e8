----------------------------- MODULE EdgeCache ------------------------------
(***************************************************************************)
(* What the worker answers from memory, and what stands behind it:         *)
(*   - a manifest uploaded to the store by ingest (r2.py) and read through *)
(*     the worker (manifest.ts), with its hash remembered per ETag;        *)
(*   - a split server's /plan, remembered for PlanCache (split.ts);        *)
(*   - the statistics, kept in the key-value store (stats.ts, sessions.ts).*)
(*                                                                         *)
(* A manifest version stands for its bytes, its hash and its ETag, which   *)
(* all identify the bytes. The store's puts and gets are atomic; an upload *)
(* may stop between any two of them.                                       *)
(***************************************************************************)
EXTENDS Integers, FiniteSets

CONSTANTS
  Versions,          \* manifest versions of one artifact
  ChunksOf,          \* version -> the chunks its table lists
  NoVersion,         \* "nothing", of a version or a hash
  PlanCache,         \* PLAN_CACHE_MS
  PlanTimeout,       \* PLAN_TIMEOUT_MS
  StatsTtl,          \* STATS_TTL_SECONDS
  Readers,           \* 1..n: requests of one kind
  MaxClock           \* bound on the time that passes

ASSUME EdgeAssumption == NoVersion \notin Versions /\ PlanCache \in Nat

VARIABLES
  clock,
  bucket,            \* the object store: [chunks, hashed, latest]
  upload,            \* version -> how far its upload came
  memo,              \* what the worker remembers: [sha, plan, stats]
  reader             \* the requests' progress

ecVars == <<clock, bucket, upload, memo, reader>>

Waiting == [at |-> "idle", asked |-> 0, body |-> NoVersion, sha |-> NoVersion,
            born |-> 0, rows |-> FALSE, kept |-> FALSE]

\* An entry of an older worker, without computed_at, may lie under the key.
OldEntry == [shape |-> FALSE, rows |-> TRUE, born |-> 0, put |-> 0]

ECInit ==
  /\ clock = 0
  /\ bucket = [chunks |-> {}, hashed |-> {}, latest |-> NoVersion]
  /\ upload = [v \in Versions |-> "chunks"]
  /\ memo = [sha |-> [v \in Versions |-> NoVersion], plan |-> <<>>, stats |-> <<OldEntry>>]
  /\ reader = [r \in Readers |-> Waiting]

\* A fetch of /plan is given up by its timer, so time does not pass it by.
Tick ==
  /\ clock < MaxClock /\ clock' = clock + 1
  /\ \A r \in Readers :
       reader[r].at \in {"fetching", "served"} => clock < reader[r].asked + PlanTimeout
  /\ UNCHANGED <<bucket, upload, memo, reader>>

-----------------------------------------------------------------------------
(* upload_manifest: the chunks, several at once and in any order, each     *)
(* skipped when it is there; then the manifest under its hash; then latest.*)

PutChunk(v) ==
  /\ upload[v] = "chunks"
  /\ \E c \in ChunksOf[v] \ bucket.chunks : bucket' = [bucket EXCEPT !.chunks = @ \cup {c}]
  /\ UNCHANGED <<clock, upload, memo, reader>>

\* Seeded fault: the upload does not wait for its last chunk.
PutHashedEarly(v) ==
  /\ upload[v] = "chunks" /\ Cardinality(ChunksOf[v] \ bucket.chunks) <= 1
  /\ bucket' = [bucket EXCEPT !.hashed = @ \cup {v}]
  /\ upload' = [upload EXCEPT ![v] = "hashed"]
  /\ UNCHANGED <<clock, memo, reader>>

PutHashed(v) ==
  /\ upload[v] = "chunks" /\ ChunksOf[v] \subseteq bucket.chunks
  /\ bucket' = [bucket EXCEPT !.hashed = @ \cup {v}]
  /\ upload' = [upload EXCEPT ![v] = "hashed"]
  /\ UNCHANGED <<clock, memo, reader>>

PutLatest(v) ==
  /\ upload[v] = "hashed"
  /\ bucket' = [bucket EXCEPT !.latest = v]
  /\ upload' = [upload EXCEPT ![v] = "done"]
  /\ UNCHANGED <<clock, memo, reader>>

\* The command is run again: after a failure, or to publish an old version anew.
Rerun(v) ==
  /\ upload[v] \in {"hashed", "done"}
  /\ upload' = [upload EXCEPT ![v] = "chunks"]
  /\ UNCHANGED <<clock, bucket, memo, reader>>

-----------------------------------------------------------------------------
(* manifest.ts.                                                            *)

\* latestManifest: the object and its ETag are read together; a request whose
\* If-None-Match holds that ETag (known) gets no body.
GetLatest(r, known) ==
  /\ reader[r].at = "idle"
  /\ reader' = [reader EXCEPT ![r] =
       [Waiting EXCEPT !.at = CASE bucket.latest = NoVersion -> "notFound"
                                [] bucket.latest \in {known} \ {NoVersion} -> "unchanged"
                                [] OTHER -> "got",
                       !.body = bucket.latest]]
  /\ UNCHANGED <<clock, bucket, upload, memo>>

\* The hash from the memo, or from the body, which is then remembered; a 304
\* carries it only when the memo has it. A memo just put may not be seen yet.
AnswerHash(r) ==
  /\ reader[r].at \in {"got", "unchanged"}
  /\ \E known \in {memo.sha[reader[r].body], NoVersion} :
       LET v   == reader[r].body
           sha == IF known = NoVersion /\ reader[r].at = "got" THEN v ELSE known
       IN  /\ reader' = [reader EXCEPT ![r].sha = sha, ![r].at = "answered"]
           /\ \/ sha # known /\ memo' = [memo EXCEPT !.sha[v] = sha]
              \/ UNCHANGED memo        \* waitUntil's put may fail
  /\ UNCHANGED <<clock, bucket, upload>>

\* hashedManifest, for a hash some answer advertised.
GetHashed(r) ==
  /\ reader[r].at = "answered" /\ reader[r].sha # NoVersion
  /\ reader' = [reader EXCEPT ![r].at =
                  IF reader[r].sha \in bucket.hashed THEN "found" ELSE "lost"]
  /\ UNCHANGED <<clock, bucket, upload, memo>>

-----------------------------------------------------------------------------
(* planProxy.                                                              *)

AskPlan(r) ==
  /\ reader[r].at = "idle"
  /\ IF memo.plan # <<>> /\ clock - memo.plan[1].at <= PlanCache
     THEN reader' = [reader EXCEPT ![r] = [Waiting EXCEPT !.at = "planned", !.asked = clock,
                                                          !.born = memo.plan[1].born]]
     ELSE reader' = [reader EXCEPT ![r] = [Waiting EXCEPT !.at = "fetching", !.asked = clock]]
  /\ UNCHANGED <<clock, bucket, upload, memo>>

\* The split server computes its plan (external): its answer is on the way.
ServePlan(r) ==
  /\ reader[r].at = "fetching"
  /\ reader' = [reader EXCEPT ![r].at = "served", ![r].born = clock]
  /\ UNCHANGED <<clock, bucket, upload, memo>>

\* Seeded fault: the memo is dated when the answer is in.
KeepPlanLate(r) ==
  /\ reader[r].at = "served"
  /\ memo' = [memo EXCEPT !.plan = <<[at |-> clock, born |-> reader[r].born]>>]
  /\ reader' = [reader EXCEPT ![r].at = "planned"]
  /\ UNCHANGED <<clock, bucket, upload>>

\* The answer, or a failure (also an answer: the server was not reached), is
\* remembered as of the time the request came in; the last to return is kept.
KeepPlan(r) ==
  /\ reader[r].at \in {"served", "fetching"}
  /\ LET born == IF reader[r].at = "served" THEN reader[r].born ELSE clock
     IN  /\ memo' = [memo EXCEPT !.plan = <<[at |-> reader[r].asked, born |-> born]>>]
         /\ reader' = [reader EXCEPT ![r].at = "planned", ![r].born = born]
  /\ UNCHANGED <<clock, bucket, upload>>

-----------------------------------------------------------------------------
(* loadStats and sessionStats.                                             *)

\* Without a token for SQL the answer is empty, and may be kept. A stored entry
\* is served when it has the current shape (isCurrentShape) and is seen; a later
\* get may still see an earlier entry, or none.
AskStats(r) ==
  /\ reader[r].at = "idle"
  /\ \/ reader' = [reader EXCEPT ![r] =
            [Waiting EXCEPT !.at = "tokenless", !.asked = clock, !.kept = TRUE]]
     \/ /\ memo.stats # <<>> /\ memo.stats[1].shape
        /\ reader' = [reader EXCEPT ![r] =
             [Waiting EXCEPT !.at = "counted", !.asked = clock, !.kept = TRUE,
                             !.rows = memo.stats[1].rows, !.born = memo.stats[1].born]]
     \/ reader' = [reader EXCEPT ![r] = [Waiting EXCEPT !.at = "querying", !.asked = clock]]
  /\ UNCHANGED <<clock, bucket, upload, memo>>

\* Seeded fault: an empty answer is kept, too.
KeepAnyStats(r) ==
  /\ reader[r].at = "querying"
  /\ \E rows \in BOOLEAN :
       /\ reader' = [reader EXCEPT ![r].at = "counted", ![r].rows = rows, ![r].born = clock,
                                   ![r].kept = rows]
       /\ memo' = [memo EXCEPT !.stats =
            <<[shape |-> TRUE, rows |-> rows, born |-> clock, put |-> clock]>>]
  /\ UNCHANGED <<clock, bucket, upload>>

\* computeStats returns rows, none, or fails (degraded); only rows are stored,
\* and only such an answer may be kept by others (Cache-Control).
QueryStats(r) ==
  /\ reader[r].at = "querying"
  /\ \E rows \in BOOLEAN :
       /\ reader' = [reader EXCEPT ![r].at = "counted", ![r].rows = rows, ![r].born = clock,
                                   ![r].kept = rows]
       /\ \/ /\ rows
             /\ memo' = [memo EXCEPT !.stats =
                  <<[shape |-> TRUE, rows |-> TRUE, born |-> clock, put |-> clock]>>]
          \/ UNCHANGED memo
  /\ UNCHANGED <<clock, bucket, upload>>

\* The store drops the entry (expirationTtl).
ExpireStats ==
  /\ memo.stats # <<>> /\ clock >= memo.stats[1].put + StatsTtl
  /\ memo' = [memo EXCEPT !.stats = <<>>]
  /\ UNCHANGED <<clock, bucket, upload, reader>>

-----------------------------------------------------------------------------
ManifestNext ==
  \/ \E v \in Versions : PutChunk(v) \/ PutHashed(v) \/ PutLatest(v) \/ Rerun(v)
  \/ \E r \in Readers :
       \/ \E known \in Versions \cup {NoVersion} : GetLatest(r, known)
       \/ AnswerHash(r) \/ GetHashed(r)

PlanNext ==
  \/ Tick
  \/ \E r \in Readers : AskPlan(r) \/ ServePlan(r) \/ KeepPlan(r)

StatsNext ==
  \/ Tick \/ ExpireStats
  \/ \E r \in Readers : AskStats(r) \/ QueryStats(r)

ECSpec == ECInit /\ [][ManifestNext \/ PlanNext \/ StatsNext]_ecVars

-----------------------------------------------------------------------------
\* Whatever upload stopped wherever, a manifest one can read has all its chunks;
\* the hash the worker advertises is that of the body it comes with, and the
\* manifest under that hash is in the store ("memoised in KV keyed by R2's ETag
\* so a 304 never has to re-read the object", manifest.ts).
AdvertisedManifestLoads ==
  /\ \A v \in bucket.hashed \cup ({bucket.latest} \ {NoVersion}) :
       v \in bucket.hashed /\ ChunksOf[v] \subseteq bucket.chunks
  /\ \A r \in Readers :
       /\ reader[r].at # "lost"
       /\ reader[r].sha \in {NoVersion, reader[r].body}

\* No plan the worker answers was more than PlanCache old when the request came
\* in, whichever of the concurrent fetches was kept ("cached 5 s per server",
\* split.ts). Statistics that were looked up and may be kept have rows: an empty
\* answer is "usually ingestion lag ... and must not be pinned" (stats.ts). The
\* answer of a worker that has no token to look them up with is none of them.
RememberedIsFresh ==
  \A r \in Readers :
    /\ reader[r].at = "planned" => reader[r].asked - reader[r].born <= PlanCache
    /\ reader[r].at = "counted" /\ reader[r].kept => reader[r].rows

\* What the edge answers from memory or from the store is true: both.
EdgeIsTrue == AdvertisedManifestLoads /\ RememberedIsFresh

=============================================================================
