------------------------------ MODULE MCWorker ------------------------------
(***************************************************************************)
(* The worker: reports carried from the SDK to the statistics (Reports) on *)
(* small inputs, and the state machines ControlPlane and EdgeCache, one    *)
(* family of requests at a time.                                           *)
(***************************************************************************)
EXTENDS Bench, Planner, Reports, ControlPlane, EdgeCache

-----------------------------------------------------------------------------
(* Loads: one of any shape, or two of a few shapes.                        *)

SourceLists ==
  {<<>>, <<"network">>, <<"network", "per-site-cache">>,
   <<"cross-site-cache", "cross-site-cache", "network">>}

Load(sources, bytes, ms, verifyMs, hops, quota, maxBuffer, mode, country) ==
  [sources |-> sources, bytes |-> bytes, ms |-> ms, verifyMs |-> verifyMs, hops |-> hops,
   quota |-> quota, maxBuffer |-> maxBuffer, mode |-> mode, country |-> country]

AnyLoad ==
  {Load(s, bytes, ms, 250, hops, quota, buffer, mode, "a") :
     s \in SourceLists, bytes \in {0, 7, MaxBytes}, ms \in {0, 149, 100 * MaxMs},
     hops \in {<<>>, <<150>>, <<250, 100>>, <<300, 100, 200>>},
     quota \in {Absent, 5, MaxBytes, MaxBytes + 1}, buffer \in {Absent, 5},
     mode \in CacheModes}

FewLoads ==
  {Load(s, bytes, 100 * MaxMs, 0, <<>>, Absent, 5, "none", country) :
     s \in SourceLists, bytes \in {7, 20}, country \in {"a", "b"}}

LoadTasksOf ==
  [kind : {"loads"}, loads : {<<i>> : i \in AnyLoad} \cup [1..2 -> FewLoads]]

\* What the telemetry schema has room for.
Reportable(i) ==
  /\ i.bytes <= MaxBytes /\ Rounded(i.ms, 100) <= MaxMs /\ i.quota <= MaxBytes
  /\ i.ms > 0 => Rounded(i.bytes * 100000, i.ms) <= MaxBytes

ReportLoads ==
  Run("loads",
    LET reports == [n \in DOMAIN task.loads |-> BuildReport(task.loads[n])]
        rows    == [n \in DOMAIN reports |-> DataPoint(reports[n], task.loads[n].country)]
    IN  [accepted |-> [n \in DOMAIN reports |-> ValidateLoadReport(reports[n])],
         stats    |-> LoadStatsOf(rows), usage |-> FoldLeft(AddLoad, EmptyCounters, reports)])

-----------------------------------------------------------------------------
(* Sessions: what plan() chose, ended in one of the last three hours.      *)

Hours == 1..3

AnySession ==
  {[mode |-> c.mode, N |-> c.N, L |-> 2, promptTokens |-> prompt, newTokens |-> new,
    clientMs |-> client, serverBusyMs |-> busy, policy |-> "cost", cacheMode |-> "none",
    keyId |-> key, hour |-> 3] :
     c \in Candidates(2), prompt \in {0, MaxCount}, new \in {0, 2},
     client \in {0, 14, 16}, busy \in {4, 5, 16}, key \in {Absent, 1}}

FewSessions ==
  {[mode |-> c.mode, N |-> c.N, L |-> 2, promptTokens |-> 1, newTokens |-> new,
    clientMs |-> 0, serverBusyMs |-> busy, policy |-> "cost", cacheMode |-> "none",
    keyId |-> Absent, hour |-> hour] :
     c \in Candidates(2), new \in {1, 2}, busy \in {4, 16}, hour \in Hours}

SessionTasks ==
  [kind : {"sessions"}, window : {1}, sessions : {<<i>> : i \in AnySession}]
    \cup [kind : {"sessions"}, window : 0..4, sessions : [1..2 -> FewSessions]]

ReportSessions ==
  Run("sessions",
    LET reports == [n \in DOMAIN task.sessions |-> BuildSessionReport(task.sessions[n])]
        hourly(hour) ==
          FoldLeft(LAMBDA c, n : IF task.sessions[n].hour = hour
                                 THEN AddSession(c, reports[n]) ELSE c,
                   EmptyCounters, [n \in DOMAIN reports |-> n])
        used == SetToSeq(ReadUsage({i.hour : i \in ToSet(task.sessions)}, task.window, 3, 3))
    IN  [accepted |-> [n \in DOMAIN reports |-> ValidateSessionReport(reports[n])],
         stats    |-> SessionStatsOf([n \in DOMAIN reports |-> SessionDataPoint(reports[n])]),
         usage    |-> SumCounters([k \in DOMAIN used |-> hourly(used[k])])])

-----------------------------------------------------------------------------
(* The machines: which of them runs is the task.                           *)

ChunksOfVersion == [v \in Versions |-> IF v = "v1" THEN {1, 2} ELSE {2, 3}]

\* The requests that compete for the same entries of the store, and how many of
\* its gets and puts may throw.
ControlTasks ==
  {[kind |-> "control", faults |-> 1, ops |-> {"open", "owned", "list"}],
   [kind |-> "control", faults |-> 1, ops |-> {"list", "revoke", "session"}],
   [kind |-> "control", faults |-> 2, ops |-> {"report"}]}

EdgeTasks == [kind : {"manifest", "plan", "stats"}]

Control ==
  /\ task.kind = "control" /\ CPNext
  /\ \A r \in Requests : req'[r].op \in task.ops \cup {"none"}
  /\ faults' <= task.faults
  /\ UNCHANGED <<task, result, ecVars>>

Edge ==
  /\ \/ task.kind = "manifest" /\ ManifestNext
     \/ task.kind = "plan" /\ PlanNext
     \/ task.kind = "stats" /\ StatsNext
  /\ UNCHANGED <<task, result, cpVars>>

Reporting == (ReportLoads \/ ReportSessions) /\ UNCHANGED <<cpVars, ecVars>>

WorkerTasks == LoadTasksOf \cup SessionTasks \cup ControlTasks \cup EdgeTasks

-----------------------------------------------------------------------------
\* The worker takes every report the SDK builds of a measured load or session,
\* whatever plan() chose, as long as the measurements fit the schema; and only
\* those ("postReport ... resolves to the HTTP status", telemetry.ts: nobody
\* looks at a refusal).
ReportsAreAccepted ==
  /\ Ran("loads") =>
       \A n \in DOMAIN task.loads : result.accepted[n] <=> Reportable(task.loads[n])
  /\ Ran("sessions") => \A n \in DOMAIN task.sessions : result.accepted[n]

\* What the dashboard and the statistics show is what was measured: loads and
\* cache hits by country and by source, tokens by mode; a window's usage counts
\* each of its sessions once, each block and each head run of each token on one
\* of the two sides ("the head runs on the server", metering.ts), and the busy
\* time to half a tenth of a millisecond per session.
TelemetryAddsUp ==
  /\ Ran("loads") =>
       LET all      == DOMAIN task.loads
           of(c)    == {n \in all : task.loads[n].country = c}
           hits(n)  == {k \in DOMAIN task.loads[n].sources : task.loads[n].sources[k] # "network"}
           only(s)  == {n \in all : ToSet(task.loads[n].sources) \subseteq {s}}
           count(s) == IF s \in DOMAIN result.stats.bySource THEN result.stats.bySource[s] ELSE 0
       IN  /\ result.usage.bytes = MapThenSumSet(LAMBDA n : task.loads[n].bytes, all)
           /\ result.stats.maxBytes = Max({task.loads[n].bytes : n \in all})
           /\ count("network") = Cardinality(only("network"))
           /\ MapThenSumSet(LAMBDA s : count(s), DOMAIN result.stats.bySource) = Cardinality(all)
           /\ \A c \in DOMAIN result.stats.byCountry :
                LET part  == MapThenSumSet(LAMBDA n : Cardinality(hits(n)), of(c))
                    whole == MapThenSumSet(LAMBDA n : Len(task.loads[n].sources), of(c))
                IN  result.stats.byCountry[c] = [loads |-> Cardinality(of(c)),
                                                 hitRate |-> Permille(part, whole)]
  /\ Ran("sessions") =>
       LET in(m)   == {n \in DOMAIN task.sessions : task.sessions[n].mode = m}
           recent  == {n \in DOMAIN task.sessions :
                         task.sessions[n].hour > 3 - Max({1, task.window})}
           whole(n) == task.sessions[n].newTokens *
                         (task.sessions[n].L + (IF task.sessions[n].mode = "local" THEN 0 ELSE 1))
           u        == result.usage
           error    == 10 * u.busy - MapThenSumSet(LAMBDA n : task.sessions[n].serverBusyMs, recent)
       IN  /\ u.sessions = Cardinality(recent)
           /\ \A m \in Modes : u.modes[m] = Cardinality(recent \cap in(m))
           /\ u.client + u.server = MapThenSumSet(LAMBDA n : whole(n), recent)
           /\ -5 * u.sessions <= error /\ error <= 5 * u.sessions
           /\ \A m \in DOMAIN result.stats :
                result.stats[m] = [sessions |-> Cardinality(in(m)), L |-> 2, newTokens |->
                  MapThenSumSet(LAMBDA n : task.sessions[n].newTokens, in(m))]

\* A measurement gets into the statistics, as it was taken, and is counted: all
\* three.
TelemetryIsSound == ReportsAreAccepted /\ TelemetryAddsUp /\ CountersCount

=============================================================================
