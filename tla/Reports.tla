------------------------------ MODULE Reports -------------------------------
(***************************************************************************)
(* Load and session reports: built by the SDK (telemetry.ts), validated,   *)
(* written as rows and metered by the worker (telemetry.ts, metering.ts),  *)
(* and read back as statistics and usage (stats.ts, sessions.ts,           *)
(* dashboard-api.ts).                                                      *)
(*                                                                         *)
(* Times are measured in hundredths of a millisecond and reported in whole *)
(* milliseconds (loads) or in tenths (sessions); names and enumerations are*)
(* members of small sets. Absent, -1 as in the worker, stands for null and *)
(* for a field that is not there.                                          *)
(***************************************************************************)
EXTENDS Integers, Sequences, SequencesExt, FiniteSetsExt

CONSTANTS
  MaxBytes,          \* 1 TiB, the schema's limit of every byte count
  MaxMs,             \* a day
  MaxCount           \* a million: chunks, tokens

Absent == -1

Sources == {"network", "per-site-cache", "cross-site-cache"}

Rounded(n, unit) == (2 * n + unit) \div (2 * unit)

TotalOf(numbers) == FoldLeft(+, 0, numbers)

-----------------------------------------------------------------------------
(* The SDK's reports.                                                      *)

ClassifySource(sources) ==
  CASE sources = <<>> -> "network"
    [] Cardinality(ToSet(sources)) = 1 -> sources[1]
    [] OTHER -> "mixed"

CountCacheHits(sources) == Len(SelectSeq(sources, LAMBDA s : s # "network"))

\* median and int together: twice the median is a whole number.
RoundedMedian(samples) ==
  IF samples = <<>> THEN 0
  ELSE LET s   == SortSeq(samples, <)
           mid == (Len(s) \div 2) + 1
       IN  IF Len(s) % 2 = 1 THEN Rounded(s[mid], 100) ELSE Rounded(s[mid - 1] + s[mid], 200)

Optional(field, value) == IF value = Absent THEN <<>> ELSE field :> value

\* buildReport. A load's measurements: sources, bytes, ms, verifyMs, hops
\* (transferSamples), quota, maxBuffer, mode.
BuildReport(i) ==
  [schema |-> 2, bytes |-> i.bytes, chunks |-> Len(i.sources), ms |-> Rounded(i.ms, 100),
   source |-> ClassifySource(i.sources), cache_hits |-> CountCacheHits(i.sources),
   bytes_per_second |-> IF i.ms > 0 THEN Rounded(i.bytes * 100000, i.ms) ELSE 0,
   verify_ms |-> Rounded(i.verifyMs, 100), transfer_ms |-> RoundedMedian(i.hops),
   cache_mode |-> i.mode]
    @@ Optional("quota_bytes", i.quota) @@ Optional("max_buffer_size", i.maxBuffer)

\* Seeded fault: the server's time is cut to tenths instead of rounded.
BuildSessionReportCut(i) ==
  [schema |-> 3, mode |-> i.mode, N |-> i.N, L |-> i.L,
   prompt_tokens |-> i.promptTokens, new_tokens |-> i.newTokens,
   client_ms |-> Rounded(i.clientMs, 10), server_busy_ms |-> i.serverBusyMs \div 10,
   plan_policy |-> i.policy, cache_mode |-> i.cacheMode] @@ Optional("key_id", i.keyId)

\* buildSessionReport: times in tenths of a millisecond. A key id travels when
\* the session was minted with a key.
BuildSessionReport(i) ==
  [schema |-> 3, mode |-> i.mode, N |-> i.N, L |-> i.L,
   prompt_tokens |-> i.promptTokens, new_tokens |-> i.newTokens,
   client_ms |-> Rounded(i.clientMs, 10), server_busy_ms |-> Rounded(i.serverBusyMs, 10),
   plan_policy |-> i.policy, cache_mode |-> i.cacheMode] @@ Optional("key_id", i.keyId)

-----------------------------------------------------------------------------
(* The worker's validators.                                                *)

LoadFields == {"schema", "bytes", "chunks", "ms", "source", "cache_hits"}

V2Limits == [bytes_per_second |-> MaxBytes, verify_ms |-> MaxMs, transfer_ms |-> MaxMs,
             quota_bytes |-> MaxBytes, max_buffer_size |-> MaxBytes]

CacheModes == {"per-site", "cross-site", "none"}

Within(n, max) == 0 <= n /\ n <= max

ValidateLoadReport(o) ==
  /\ o.schema \in {1, 2}
  /\ DOMAIN o \subseteq LoadFields
       \cup (IF o.schema = 2 THEN DOMAIN V2Limits \cup {"cache_mode"} ELSE {})
  /\ LoadFields \subseteq DOMAIN o
  /\ \A k \in DOMAIN V2Limits \cap DOMAIN o : Within(o[k], V2Limits[k])
  /\ "cache_mode" \in DOMAIN o => o.cache_mode \in CacheModes
  /\ Within(o.bytes, MaxBytes) /\ Within(o.chunks, MaxCount) /\ Within(o.ms, MaxMs)
  /\ o.source \in Sources \cup {"mixed"}
  /\ Within(o.cache_hits, MaxCount) /\ o.cache_hits <= o.chunks

SessionFields ==
  {"schema", "mode", "N", "L", "prompt_tokens", "new_tokens", "client_ms",
   "server_busy_ms", "plan_policy", "cache_mode"}

\* Seeded fault: a split session may not run every block in the browser.
ValidateSessionStrict(o) ==
  /\ SessionFields \subseteq DOMAIN o
  /\ o.mode = "split" => o.N \in 1..(o.L - 1)

ValidateSessionReport(o) ==
  /\ DOMAIN o \subseteq SessionFields \cup {"key_id"}
  /\ SessionFields \subseteq DOMAIN o
  /\ o.mode \in {"local", "split", "server"}
  /\ o.L >= 1 /\ Within(o.N, o.L)
  /\ Within(o.prompt_tokens, MaxCount) /\ Within(o.new_tokens, MaxCount)
  /\ Within(o.client_ms, 10 * MaxMs) /\ Within(o.server_busy_ms, 10 * MaxMs)
  /\ CASE o.mode = "server" -> o.N = 0
       [] o.mode = "local" -> o.N = o.L
       [] o.mode = "split" -> o.N # 0
  /\ o.plan_policy \in {"cost", "latency", "local", "server"}
  /\ o.cache_mode \in CacheModes

-----------------------------------------------------------------------------
(* Rows: a column is known by its place only.                              *)

Get(r, field) == IF field \in DOMAIN r THEN r[field] ELSE Absent

\* dataPoint: blobs 3, 5 and 8 and the doubles.
DataPoint(r, country) ==
  [blobs |-> <<"model", "variant", r.source, "browser", country, "colo", "hour",
               IF r.schema = 2 THEN r.cache_mode ELSE "">>,
   doubles |-> <<r.bytes, r.chunks, r.ms, r.cache_hits, 1, Get(r, "bytes_per_second"),
                 Get(r, "verify_ms"), Get(r, "transfer_ms"), Get(r, "quota_bytes"),
                 Get(r, "max_buffer_size")>>]

\* sessionDataPoint.
SessionDataPoint(s) ==
  [blobs |-> <<"model", "variant", s.mode, s.plan_policy, s.cache_mode, "browser",
               "country", "colo", "hour", Get(s, "key_id")>>,
   doubles |-> <<s.N, s.L, s.prompt_tokens, s.new_tokens, s.client_ms, s.server_busy_ms>>]

\* Sum of double d over the rows whose blob b is x.
SumWhere(rows, b, x, d) ==
  TotalOf([i \in DOMAIN rows |-> IF rows[i].blobs[b] = x THEN rows[i].doubles[d] ELSE 0])

CountWhere(rows, b, x) == Len(SelectSeq(rows, LAMBDA row : row.blobs[b] = x))

Permille(part, whole) == IF whole = 0 THEN 0 ELSE Rounded(1000 * part, whole)

\* computeStats over unsampled rows: loads and cache hits by country (blob5),
\* loads by source (blob3), the largest load (double1).
LoadStatsOf(rows) ==
  [byCountry |-> [c \in {rows[i].blobs[5] : i \in DOMAIN rows} |->
     [loads |-> CountWhere(rows, 5, c),
      hitRate |-> Min({1000, Permille(SumWhere(rows, 5, c, 4), SumWhere(rows, 5, c, 2))})]],
   bySource |-> [s \in {rows[i].blobs[3] : i \in DOMAIN rows} |-> CountWhere(rows, 3, s)],
   maxBytes |-> Max({rows[i].doubles[1] : i \in DOMAIN rows} \cup {0})]

\* computeSessionStats: sessions, tokens and L by mode (blob3, doubles 4 and 2).
SessionStatsOf(rows) ==
  [m \in {rows[i].blobs[3] : i \in DOMAIN rows} |->
     [sessions |-> CountWhere(rows, 3, m), newTokens |-> SumWhere(rows, 3, m, 4),
      L |-> Max({rows[i].doubles[2] : i \in {j \in DOMAIN rows : rows[j].blobs[3] = m}})]]

-----------------------------------------------------------------------------
(* Metering.                                                               *)

Modes == {"local", "split", "server"}

EmptyCounters == [sessions |-> 0, client |-> 0, server |-> 0, newTokens |-> 0,
                  busy |-> 0, bytes |-> 0, modes |-> [m \in Modes |-> 0]]

\* Seeded fault: a split session's head is counted for the client.
LayerTokensNoHead(s) ==
  [client |-> s.N * s.new_tokens,
   server |-> (s.L - s.N) * s.new_tokens + (IF s.mode = "server" THEN s.new_tokens ELSE 0)]

\* layerTokens: blocks run per token on either side; the head counts as one
\* more on the server's whenever it runs there.
LayerTokens(s) ==
  [client |-> s.N * s.new_tokens,
   server |-> (s.L - s.N) * s.new_tokens + (IF s.mode = "local" THEN 0 ELSE s.new_tokens)]

\* addSession; the busy time is kept in tenths, as it was reported.
AddSession(c, s) ==
  [c EXCEPT !.sessions = @ + 1, !.client = @ + LayerTokens(s).client,
            !.server = @ + LayerTokens(s).server, !.newTokens = @ + s.new_tokens,
            !.busy = @ + s.server_busy_ms, !.modes[s.mode] = @ + 1]

AddLoad(c, r) == [c EXCEPT !.bytes = @ + r.bytes]

SumCounters(buckets) ==
  FoldLeft(LAMBDA t, b :
             [sessions |-> t.sessions + b.sessions, client |-> t.client + b.client,
              server |-> t.server + b.server, newTokens |-> t.newTokens + b.newTokens,
              busy |-> t.busy + b.busy, bytes |-> t.bytes + b.bytes,
              modes |-> [m \in Modes |-> t.modes[m] + b.modes[m]]],
           EmptyCounters, buckets)

\* readUsage: of the hours that have a bucket, those of the last `hours` hours.
\* maxHours is MAX_USAGE_HOURS.
ReadUsage(stamps, hours, now, maxHours) ==
  {s \in stamps : s >= now - (Max({1, Min({maxHours, hours})}) - 1)}
=============================================================================
