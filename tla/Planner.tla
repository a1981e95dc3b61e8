------------------------------ MODULE Planner -------------------------------
(***************************************************************************)
(* packages/runtime/src/planner.ts: which candidate split runs a prompt.   *)
(*                                                                         *)
(* An input `in` is a record of measured integers; Unknown stands for the  *)
(* code's null (and, for maxLoad and maxShare, for an absent policy).      *)
(*   model    L, blockBytes (a sequence), embedBytes, headGpuBytes,        *)
(*            headDownloadBytes, kvBytes, workspaceBytes, maxEntry, floor  *)
(*            (the measured cost(L)/cost(0), as a fraction [p, q])         *)
(*   device   webgpu, maxBuffer, gpuBudget, msT1, headMs, exportMs,        *)
(*            cachedBlocks, embedCached                                    *)
(*   network  bandwidth, rtt, reachable                                    *)
(*   server   serverL, serverMs, serverHeadMs (serverL Unknown: no server  *)
(*            report was received)                                         *)
(*   policy   prefer, maxLoad, maxShare (hundredths), requireLocal         *)
(* Prefill times, privacy rows and the reasons' wording are left out: no   *)
(* choice reads them.                                                      *)
(***************************************************************************)
EXTENDS Integers, Sequences, SequencesExt, FiniteSetsExt

Unknown == -1

Known(x) == x # Unknown

\* The candidates, as pairs: server is N = 0, a split 1..L, local runs all L.
Candidates(L) ==
  {[mode |-> "server", N |-> 0]} \cup [mode : {"split"}, N : 1..L]
    \cup {[mode |-> "local", N |-> L]}

\* serverShare, in units of 1/(q * L). With h = fL/(1-f) block-equivalents for
\* the head, (L - N + h)/(L + h) is ((L - N)(q - p) + pL)/(qL).
ServerShare(in, c) ==
  IF c.mode = "local" THEN 0
  ELSE (in.L - c.N) * (in.floor.q - in.floor.p) + in.floor.p * in.L

WholeShare(in) == in.floor.q * in.L

\* cost0Per1M: what a million tokens of the server alone cost, in units of
\* usdPerHour / 3600.
Cost0(in) ==
  IF Known(in.serverL) /\ Known(in.serverMs) /\ Known(in.serverHeadMs)
  THEN in.serverMs * in.serverL + in.serverHeadMs ELSE Unknown

SumOf(bytes, from, to) == FoldLeft(+, 0, SubSeq(bytes, from, to))

GpuBytes(in, c) ==
  IF c.N = 0 THEN 0
  ELSE SumOf(in.blockBytes, 1, c.N) + c.N * in.kvBytes + in.workspaceBytes
         + (IF c.mode = "local" THEN in.headGpuBytes ELSE 0)

\* Seeded fault: the embed bytes are counted when they are cached.
DownloadBytesSwapped(in, c) ==
  IF c.N = 0 THEN 0
  ELSE (IF in.embedCached THEN in.embedBytes ELSE 0)
         + SumOf(in.blockBytes, in.cachedBlocks + 1, c.N)
         + (IF c.mode = "local" THEN in.headDownloadBytes ELSE 0)

\* downloadBytesFor: what is not cached yet.
DownloadBytes(in, c) ==
  IF c.N = 0 THEN 0
  ELSE (IF in.embedCached THEN 0 ELSE in.embedBytes)
         + SumOf(in.blockBytes, in.cachedBlocks + 1, c.N)
         + (IF c.mode = "local" THEN in.headDownloadBytes ELSE 0)

\* loadSeconds > maxLoadSeconds; an unknown (or zero) bandwidth is not checked.
LoadsTooLong(in, c) ==
  /\ Known(in.maxLoad)
  /\ Known(in.bandwidth) /\ in.bandwidth > 0
  /\ DownloadBytes(in, c) > in.maxLoad * in.bandwidth

\* The reasons of feasibleN that exclude a candidate, one by one.
ServerAnswers(in, c) ==
  c.mode # "local" =>
    /\ in.reachable
    /\ Known(in.serverL) => in.serverL = in.L

ClientHolds(in, c) ==
  c.N >= 1 =>
    /\ in.webgpu
    /\ Known(in.msT1)
    /\ GpuBytes(in, c) <= in.gpuBudget
    /\ Known(in.maxBuffer) => in.maxEntry <= in.maxBuffer
    /\ ~LoadsTooLong(in, c)

PolicyAllows(in, c) ==
  /\ Known(in.maxShare) =>
       100 * ServerShare(in, c) <= in.maxShare * WholeShare(in)
  /\ in.requireLocal => c.mode = "local"

Feasible(in, c) ==
  ServerAnswers(in, c) /\ ClientHolds(in, c) /\ PolicyAllows(in, c)

\* The client's lm_head time: measured, or its bytes at the blocks' speed.
ClientHeadMs(in) ==
  CASE Known(in.headMs) -> in.headMs
    [] ~Known(in.headMs) /\ Known(in.msT1) /\ in.blockBytes[1] > 0 ->
         (in.msT1 * in.headGpuBytes) \div in.blockBytes[1]
    [] OTHER -> Unknown

\* msPerToken, or Unknown when an input it needs is missing.
MsPerToken(in, c) ==
  LET client == IF c.N = 0 THEN 0
                ELSE IF Known(in.msT1) THEN in.msT1 * c.N ELSE Unknown
      export == IF c.N = 0 THEN 0 ELSE in.exportMs
      server == IF Known(in.serverL) /\ Known(in.serverMs) /\ Known(in.serverHeadMs)
                THEN in.serverMs * (in.L - c.N) + in.serverHeadMs ELSE Unknown
  IN  IF c.mode = "local"
      THEN IF Known(client) /\ Known(ClientHeadMs(in))
           THEN client + ClientHeadMs(in) + in.samplingMs ELSE Unknown
      ELSE IF Known(client) /\ Known(server) /\ Known(in.rtt)
           THEN client + export + in.rtt + server ELSE Unknown

Earlier(in, a, b) ==
  \/ MsPerToken(in, a) < MsPerToken(in, b)
  \/ MsPerToken(in, a) = MsPerToken(in, b) /\ a.N > b.N

\* The first of the alternatives that exists (the code's `a ?? b ?? c`); an
\* alternative is a set of at most one candidate.
FirstOf(alternatives) ==
  LET found == {i \in DOMAIN alternatives : alternatives[i] # {}}
  IN  IF found = {} THEN {} ELSE alternatives[Min(found)]

\* Seeded fault: local and the largest split are tried in the wrong order.
PickSplitFirst(in) ==
  LET feasible == {c \in Candidates(in.L) : Feasible(in, c)}
      local    == {c \in feasible : c.mode = "local"}
      largest  == {c \in feasible \ local :
                     \A d \in feasible \ local : d.N <= c.N}
  IN  FirstOf(<<largest, local>>)

\* plan: the picked candidate, as a set of at most one. Nothing feasible: the
\* empty set (the code then reports N = 0 with an infeasible estimate). Equal
\* times go to the larger N; the split at L and local have equal N, and the
\* stable sort keeps the split, which feasibleN lists first.
Pick(in) ==
  LET feasible == {c \in Candidates(in.L) : Feasible(in, c)}
      local    == {c \in feasible : c.mode = "local"}
      server   == {c \in feasible : c.mode = "server"}
      largest  == {c \in feasible \ local :
                     \A d \in feasible \ local : d.N <= c.N}
      timed    == {c \in feasible : Known(MsPerToken(in, c))}
      fastest  == {c \in timed : \A d \in timed : ~Earlier(in, d, c)}
      chosen   == IF Cardinality(fastest) > 1 THEN fastest \ local ELSE fastest
  IN  CASE in.prefer = "server"  -> FirstOf(<<server, local, largest>>)
        [] in.prefer = "local"   -> FirstOf(<<local, largest>>)
        [] in.prefer = "cost"    -> FirstOf(<<local, largest>>)
        [] in.prefer = "latency" -> FirstOf(<<chosen, local, largest, server>>)
=============================================================================
