----------------------------- MODULE StreamLoad -----------------------------
(***************************************************************************)
(* Dianome.stream (packages/sdk/src/index.ts): the generator that turns    *)
(* the chunks of a load into groups.                                       *)
(*                                                                         *)
(* The fetch loop runs beside the generator and pushes what it delivers    *)
(* into an unbounded channel; the generator pulls, counts a chunk down in  *)
(* every group that needs it, and yields groups in manifest order as they  *)
(* complete. The consumer decides when to go on, may break out of the      *)
(* iteration, and may abort its signal at any moment, also while the       *)
(* generator is paused at a yield and the channel holds events nobody has  *)
(* read. The loop is VerifiedDelivery here, which FetchLoop implements.    *)
(***************************************************************************)
EXTENDS VerifiedDelivery, Naturals, FiniteSets, LoadPlan

CONSTANT Needs       \* plan.groups: the chunks each group needs

\* A group lists a chunk once (NeedsOf of LoadPlan); the marks at the end of
\* the channel are no chunks.
ASSUME StreamAssumption ==
  /\ Needs \in Seq(Seq(Chunks))
  /\ \A c \in Chunks : \E g \in DOMAIN Needs : c \in ToSet(Needs[g])
  /\ \A g \in DOMAIN Needs : \A i, j \in DOMAIN Needs[g] :
       Needs[g][i] = Needs[g][j] => i = j
  /\ {"done", "error"} \cap Chunks = {}

VARIABLES
  failed,            \* the loop closed because of a chunk, not of a signal
  signal,            \* the caller's signal is aborted
  channel,           \* events pushed and not yet pulled
  chunks,            \* the chunks the generator holds a reference to
  pending,           \* pending[g]: chunks group g still waits for
  nextGroup,         \* the next group to yield
  counted,           \* sources.length
  doneSeen,          \* `stats` is set: the loop's result was pulled
  gen,               \* where the generator is
  fate,              \* how it completes
  report,            \* the load report was posted
  abortPhase         \* history: when the caller aborted

genVars == <<chunks, pending, nextGroup, counted, doneSeen, gen, fate, report>>
loopVars == <<handed, closed, outcome, failed, channel>>
callerVars == <<signal, abortPhase>>
vars == <<genVars, loopVars, callerVars>>

NumGroups == Len(Needs)
NeededBy(c) == {g \in DOMAIN Needs : c \in ToSet(Needs[g])}
LastUse(c) == LastNeeding(Needs, c)

TypeOK ==
  /\ failed \in BOOLEAN /\ signal \in BOOLEAN
  /\ channel \in Seq(Chunks \cup {"done", "error"})
  /\ chunks \subseteq Chunks
  /\ pending \in [DOMAIN Needs -> 0..Cardinality(Chunks)]
  /\ nextGroup \in 1..(NumGroups + 1)
  /\ counted \in 0..Cardinality(Chunks)
  /\ doneSeen \in BOOLEAN
  /\ gen \in {"pulling", "paused", "closing", "ended"}
  /\ fate \in {"none", "complete", "broken", "aborted", "error", "chunk_missing"}
  /\ report \in BOOLEAN
  /\ abortPhase \in {"never", "fetching", "streaming", "late"}

\* The signal may have been aborted while the manifest was on its way.
Init ==
  /\ DeliveryInit
  /\ failed = FALSE
  /\ signal = closed
  /\ channel = <<>>
  /\ chunks = {}
  /\ pending = [g \in DOMAIN Needs |-> Len(Needs[g])]
  /\ nextGroup = 1
  /\ counted = 0
  /\ doneSeen = FALSE
  /\ gen = "pulling"
  /\ fate = "none"
  /\ report = FALSE
  /\ abortPhase = IF signal THEN "fetching" ELSE "never"

-----------------------------------------------------------------------------
(***************************************************************************)
(* The fetch loop and its callbacks                                        *)
(***************************************************************************)

\* onChunk.
LoopDelivers(c) ==
  /\ Deliver(c)
  /\ channel' = Append(channel, c)
  /\ UNCHANGED <<failed, genVars, callerVars>>

\* A chunk failed for good; the loop cancels the rest and will reject.
LoopFails ==
  /\ Close
  /\ failed' = TRUE
  /\ UNCHANGED <<channel, genVars, callerVars>>

\* fetchChunks settled and the `then` pushed its result.
LoopSettles ==
  /\ Settle
  /\ outcome' = "failed" => failed
  /\ outcome' = "aborted" => ~failed
  /\ channel' = Append(channel, IF outcome' = "done" THEN "done" ELSE "error")
  /\ UNCHANGED <<failed, genVars, callerVars>>

\* ac.abort(): nothing happens when the loop has closed or settled before.
CancelLoop == closed' = (closed \/ outcome = "running")

-----------------------------------------------------------------------------
(***************************************************************************)
(* The generator                                                           *)
(***************************************************************************)

\* The `finally` up to `await loop`.
Finally(how) ==
  /\ gen' = "closing"
  /\ fate' = how
  /\ CancelLoop

\* Seeded fault: chunks are dropped after the first group that needs them.
YieldDroppingEarly(n, held, left) ==
  /\ pending' = left
  /\ nextGroup' = n
  /\ IF ToSet(Needs[n]) \subseteq held
       THEN /\ chunks' = held \ ToSet(Needs[n])
            /\ gen' = "paused"
            /\ UNCHANGED <<fate, closed>>
       ELSE /\ chunks' = held
            /\ Finally("chunk_missing")

\* Seeded fault: no reference is ever dropped.
YieldKeepingAll(n, held, left) ==
  /\ pending' = left
  /\ nextGroup' = n
  /\ chunks' = held
  /\ IF ToSet(Needs[n]) \subseteq held
       THEN gen' = "paused" /\ UNCHANGED <<fate, closed>>
       ELSE Finally("chunk_missing")

\* yieldGroup(n) with `held` in the map: assemble, drop what no later group
\* needs, and pause. Assembly throws when a chunk is not in the map.
Yield(n, held, left) ==
  /\ pending' = left
  /\ nextGroup' = n
  /\ IF ToSet(Needs[n]) \subseteq held
       THEN /\ chunks' = held \ {c \in ToSet(Needs[n]) : LastUse(c) = n}
            /\ gen' = "paused"
            /\ UNCHANGED <<fate, closed>>
       ELSE /\ chunks' = held
            /\ Finally("chunk_missing")

Ready(n, left) == n <= NumGroups /\ left[n] = 0

\* The `while` over complete groups, entered after a chunk, after a resumed
\* yield, and once more after the loop's end.
After(n, held, left, done) ==
  IF Ready(n, left) THEN Yield(n, held, left)
  ELSE /\ pending' = left
       /\ nextGroup' = n
       /\ chunks' = held
       /\ IF done THEN Finally(IF n > NumGroups THEN "complete" ELSE "chunk_missing")
                  ELSE gen' = "pulling" /\ UNCHANGED <<fate, closed>>

Pull(e) ==
  /\ gen = "pulling"
  /\ channel # <<>>
  /\ Head(channel) = e
  /\ channel' = Tail(channel)
  /\ UNCHANGED <<handed, outcome, failed, callerVars, report>>

\* Seeded fault: a chunk counts for every group, needed or not.
CountDownEverywhere(c) == [g \in DOMAIN Needs |-> pending[g] - 1]

CountDown(c) == [g \in DOMAIN Needs |->
                   IF g \in NeededBy(c) THEN pending[g] - 1 ELSE pending[g]]

PullChunk(c) ==
  /\ Pull(c)
  /\ counted' = counted + 1
  /\ After(nextGroup, chunks \cup {c}, CountDown(c), FALSE)
  /\ UNCHANGED doneSeen

\* The caller's onProgress threw: the load is over.
ProgressThrows(c) ==
  /\ Pull(c)
  /\ counted' = counted + 1
  /\ chunks' = chunks \cup {c}
  /\ pending' = CountDown(c)
  /\ Finally(IF signal THEN "aborted" ELSE "error")
  /\ UNCHANGED <<nextGroup, doneSeen>>

PullDone ==
  /\ Pull("done")
  /\ doneSeen' = TRUE
  /\ After(nextGroup, chunks, pending, TRUE)
  /\ UNCHANGED counted

\* The loop rejected: an abort is reported as such, whatever the error was,
\* when the caller's signal is up by now.
PullError ==
  /\ Pull("error")
  /\ Finally(IF signal \/ outcome = "aborted" THEN "aborted" ELSE "error")
  /\ UNCHANGED <<chunks, pending, nextGroup, counted, doneSeen>>

\* The consumer asks for the next group.
Resume ==
  /\ gen = "paused"
  /\ After(nextGroup + 1, chunks, pending, doneSeen)
  /\ UNCHANGED <<counted, doneSeen, report, handed, outcome, failed, channel,
                 callerVars>>

\* Seeded fault: breaking out leaves the loop running.
BreakWithoutAbort ==
  /\ gen = "paused"
  /\ gen' = "closing"
  /\ fate' = "broken"
  /\ UNCHANGED <<chunks, pending, nextGroup, counted, doneSeen, report,
                 loopVars, callerVars>>

\* The consumer breaks out of the iteration.
Break ==
  /\ gen = "paused"
  /\ Finally("broken")
  /\ UNCHANGED <<chunks, pending, nextGroup, counted, doneSeen, report,
                 handed, outcome, failed, channel, callerVars>>

\* `await loop` returned; a complete load posts its report (once, with
\* telemetry on) and the generator ends.
End ==
  /\ gen = "closing"
  /\ outcome # "running"
  /\ gen' = "ended"
  /\ report' = (fate = "complete")
  /\ UNCHANGED <<chunks, pending, nextGroup, counted, doneSeen, fate,
                 loopVars, callerVars>>

\* "fetching" until the loop settles or fails, "streaming" while groups are
\* outstanding after that.
AbortPhase ==
  CASE gen \notin {"pulling", "paused"} -> "late"
    [] gen \in {"pulling", "paused"} /\ outcome = "running" /\ ~failed -> "fetching"
    [] gen \in {"pulling", "paused"} /\ (outcome # "running" \/ failed) ->
         IF nextGroup < NumGroups THEN "streaming" ELSE "late"

\* Seeded fault: the signal reaches the generator but not the loop.
CallerAbortsQuietly ==
  /\ ~signal
  /\ signal' = TRUE
  /\ abortPhase' = AbortPhase
  /\ UNCHANGED <<loopVars, genVars>>

\* The caller aborts. The listener is there until the `finally` ran.
CallerAborts ==
  /\ ~signal
  /\ signal' = TRUE
  /\ abortPhase' = AbortPhase
  /\ IF gen \in {"pulling", "paused"} THEN CancelLoop ELSE UNCHANGED closed
  /\ UNCHANGED <<handed, outcome, failed, channel, genVars>>

Ended == gen = "ended" /\ UNCHANGED vars

Loop == (\E c \in Chunks : LoopDelivers(c)) \/ LoopFails \/ LoopSettles

Generator ==
  \/ \E c \in Chunks : PullChunk(c) \/ ProgressThrows(c)
  \/ PullDone
  \/ PullError
  \/ End

Next == Loop \/ Generator \/ Resume \/ Break \/ CallerAborts \/ Ended

Spec == Init /\ [][Next]_vars

\* The generator's own steps come, and a closed loop settles, as FetchLoop
\* shows (ClosedLoadSettles). Nothing is assumed of the CDN.
FairSpec ==
  /\ Spec
  /\ WF_vars(Generator)
  /\ WF_vars(LoopSettles)

\* The consumer does not sit on the generator: it asks for more or breaks out.
EagerSpec == FairSpec /\ WF_vars(Resume \/ Break)

-----------------------------------------------------------------------------
(***************************************************************************)
(* Properties                                                              *)
(***************************************************************************)

\* Groups already yielded, the one the generator is paused at included.
Yielded == IF gen = "paused" THEN nextGroup ELSE nextGroup - 1

\* The generator refers to exactly the pulled chunks that a group not yet
\* yielded needs: it frees memory as soon as it can and never earlier.
HoldsExactlyTheNeeded ==
  /\ TypeOK
  /\ gen \in {"pulling", "paused"} =>
       chunks = {c \in Chunks :
                   /\ handed[c] # <<>>
                   /\ c \notin ToSet(channel)
                   /\ LastUse(c) > Yielded}

\* No group is yielded, or found incomplete, without its chunks: neither the
\* order in which chunks arrive nor the dropping of references can make
\* assembleGroup miss one (tied groups use chunks of earlier groups). A load
\* that completes has yielded every group, counted every chunk once, and has
\* let go of all of them: the report's totals are the plan's.
CompleteMeansEverything ==
  /\ fate # "chunk_missing"
  /\ fate = "complete" =>
       /\ nextGroup = NumGroups + 1
       /\ counted = Cardinality(Chunks)
       /\ chunks = {}
       /\ outcome = "done"

\* An abort that comes before the loop has settled or failed always wins: the
\* load is not reported, however many events were waiting in the channel.
AbortInTimeWins ==
  abortPhase = "fetching" => ~report /\ fate \notin {"complete", "error"}

\* Breaking out, an abort, and every other way to the `finally`, ends the
\* generator, and with its fetch loop settled: `await loop` returns although
\* chunks may still be missing, and nothing is fetched behind the consumer.
LeavingEnds ==
  (gen = "closing" \/ signal) ~> (gen = "ended" /\ outcome # "running")

\* The report is sent "never on abort": a load whose signal was aborted while
\* the consumer was still owed groups is not reported as completed.
AbortMidStreamIsNotReported == abortPhase = "streaming" => ~report
=============================================================================
