----------------------------- MODULE SharedRuns -----------------------------
(***************************************************************************)
(* Calls of run() on one Dianome that may be under way at once, and what   *)
(* they share: the tokenizer's promise, the GPU device, and the runtimes   *)
(* kept for the next call, with their caches (RunState in sdk/src/run.ts). *)
(*                                                                         *)
(* SplitRun has what one run does with its server and its session; here a  *)
(* run is the steps at which it reads or writes what is shared. A runtime  *)
(* is known by the run that loaded it; a prompt is one token.              *)
(***************************************************************************)
EXTENDS Naturals, Sequences, SequencesExt

CONSTANTS
  SharedRunIds,      \* the calls, in the order they are made; 0 is none of them
  RuntimeKeys,       \* id, variant, N, head and context of plans with blocks
  DecodeSteps        \* bound: tokens a run feeds after its prompt

ASSUME SharedRunsAssumption == SharedRunIds \subseteq Nat \ {0} /\ "server" \notin RuntimeKeys

VARIABLES
  at,                \* run -> what it waits for
  wants,             \* run -> the key of its plan, or "server"
  using,             \* run -> the runtime its session has, or 0
  step,              \* run -> tokens it has fed
  tokenizer,         \* the promise kept: "none", "pending", "ok" or "failed"
  device,            \* RunState.device is there
  runtimes,          \* runtime -> "none", "loading", "loaded" or "destroyed"
  kept,              \* RunState.runtimes: key -> runtime, or 0
  rows,              \* runtime -> whose tokens its key/value cache holds
  met                \* for the properties: the pairs of runs that met

srVars == <<at, wants, using, step, tokenizer, device, runtimes, kept, rows, met>>

SRInit ==
  /\ at = [r \in SharedRunIds |-> "idle"] /\ wants = [r \in SharedRunIds |-> "server"]
  /\ using = [r \in SharedRunIds |-> 0] /\ step = [r \in SharedRunIds |-> 0]
  /\ tokenizer = "none" /\ device = FALSE
  /\ runtimes = [r \in SharedRunIds |-> "none"] /\ kept = [k \in RuntimeKeys |-> 0]
  /\ rows = [r \in SharedRunIds |-> <<>>]
  /\ met = {}

UnderWay == {r \in SharedRunIds : at[r] \notin {"idle", "ended"}}

\* A run that ends lets go of its session.
Goes(r, to) ==
  /\ at' = [at EXCEPT ![r] = to]
  /\ using' = [using EXCEPT ![r] = IF to = "ended" THEN 0 ELSE @]
  /\ step' = [step EXCEPT ![r] = IF to = "ended" THEN 0 ELSE @]

Starts(r, u, to) ==
  /\ at' = [at EXCEPT ![r] = to] /\ using' = [using EXCEPT ![r] = u] /\ UNCHANGED step

\* A run starts and asks for the tokenizer, or finds it asked for.
StartRun(r) ==
  /\ at[r] = "idle" /\ (\A q \in SharedRunIds : q < r => at[q] # "idle")
  /\ Goes(r, "tokenizer")
  /\ tokenizer' = IF tokenizer = "none" THEN "pending" ELSE tokenizer
  /\ met' = met \cup {{r, q} : q \in UnderWay}
  /\ UNCHANGED <<wants, device, runtimes, kept, rows>>

TokenizerSettles ==
  /\ tokenizer = "pending" /\ tokenizer' \in {"ok", "failed"}
  /\ UNCHANGED <<at, wants, using, step, device, runtimes, kept, rows, met>>

\* `st.device ??= await` reads it before the await.
EncodePrompt(r) ==
  /\ at[r] = "tokenizer" /\ tokenizer # "pending"
  /\ Goes(r, CASE tokenizer = "failed" -> "ended"
                [] tokenizer = "ok" /\ device -> "plan"
                [] OTHER -> "acquire")
  /\ UNCHANGED <<wants, tokenizer, device, runtimes, kept, rows, met>>

\* And writes it after. Without a device the plan is the server's, and such a
\* run touches nothing more of this.
AcquireDevice(r) ==
  /\ at[r] = "acquire"
  /\ \/ device' = TRUE /\ Goes(r, "plan")
     \/ UNCHANGED device /\ Goes(r, "ended")
  /\ UNCHANGED <<wants, tokenizer, runtimes, kept, rows, met>>

\* Seeded fault: a runtime can be found from when it begins to load.
KeptAtOnce(r, key) == [k \in RuntimeKeys |-> IF k = key THEN r ELSE 0]

\* What is kept while r loads the runtime of `key`: nothing.
KeptMeanwhile(r, key) == [k \in RuntimeKeys |-> 0]

\* The plan is the server's (or there is none that fits), or has blocks of the
\* model in it: then a kept runtime of just that key is used, or every kept one
\* goes for a new one.
UsePlan(r) ==
  /\ at[r] = "plan"
  /\ \/ Goes(r, "ended") /\ UNCHANGED <<wants, runtimes, kept>>
     \/ \E key \in RuntimeKeys :
          /\ wants' = [wants EXCEPT ![r] = key]
          /\ IF kept[key] # 0
             THEN Starts(r, kept[key], "forward") /\ UNCHANGED <<runtimes, kept>>
             ELSE /\ runtimes' = [u \in SharedRunIds |->
                                    IF u = r THEN "loading"
                                    ELSE IF \E k \in RuntimeKeys : kept[k] = u THEN "destroyed"
                                    ELSE runtimes[u]]
                  /\ kept' = KeptMeanwhile(r, key) /\ Goes(r, "load")
  /\ UNCHANGED <<tokenizer, device, rows, met>>

\* The stream ends: the runtime is kept, or destroyed by the run that made it.
LoadRuntime(r) ==
  /\ at[r] = "load"
  /\ \/ /\ runtimes' = [runtimes EXCEPT ![r] = "loaded"] /\ kept' = [kept EXCEPT ![wants[r]] = r]
        /\ Starts(r, r, "forward")
     \/ /\ runtimes' = [runtimes EXCEPT ![r] = "destroyed"] /\ Goes(r, "ended")
        /\ UNCHANGED kept
  /\ UNCHANGED <<wants, tokenizer, device, rows, met>>

\* The prompt begins a cache of its own: reset.
RowsFor(r) == IF step[r] = 0 THEN <<>> ELSE rows[using[r]]

\* Once the session is open, prefill, where the cache ends, and decode: a position
\* that does not continue the cache is refused.
ForwardToken(r) ==
  /\ at[r] = "forward"
  /\ IF step[r] = 0 \/ Len(RowsFor(r)) = step[r]
     THEN /\ rows' = [rows EXCEPT ![using[r]] = Append(RowsFor(r), r)]
          /\ at' = [at EXCEPT ![r] = "read"] /\ step' = [step EXCEPT ![r] = @ + 1]
          /\ UNCHANGED using
     ELSE UNCHANGED rows /\ Goes(r, "ended")
  /\ UNCHANGED <<wants, tokenizer, device, runtimes, kept, met>>

\* The server refuses the session or a token, or the GPU a buffer.
RunFails(r) ==
  /\ at[r] \in {"forward", "read"} /\ Goes(r, "ended")
  /\ UNCHANGED <<wants, tokenizer, device, runtimes, kept, rows, met>>

\* logits or exportHidden, once the GPU is done: of what the runtime holds then.
ReadOut(r) ==
  /\ at[r] = "read"
  /\ Goes(r, "ended") \/ (step[r] <= DecodeSteps /\ Goes(r, "forward"))
  /\ UNCHANGED <<wants, tokenizer, device, runtimes, kept, rows, met>>

SRNext ==
  \/ TokenizerSettles
  \/ \E r \in SharedRunIds :
       \/ StartRun(r) \/ EncodePrompt(r) \/ AcquireDevice(r) \/ UsePlan(r)
       \/ LoadRuntime(r) \/ ForwardToken(r) \/ RunFails(r) \/ ReadOut(r)

SRSpec == SRInit /\ [][SRNext]_srVars

-----------------------------------------------------------------------------
KeptOnes == {kept[k] : k \in RuntimeKeys} \ {0}

Live == {u \in SharedRunIds : runtimes[u] \in {"loading", "loaded"}}

Findable == KeptOnes \cup {u \in SharedRunIds : at[u] = "load"}

Met(r, q) == {r, q} \in met

\* What is kept can be used: it is loaded, not destroyed, and under the key it
\* was loaded for.
KeptAreLoaded ==
  \A k \in RuntimeKeys : kept[k] # 0 => runtimes[kept[k]] = "loaded" /\ wants[kept[k]] = k

\* A runtime no later run can find or free is left only where two runs of one
\* key met before either had loaded it.
LostOnlyByTwins ==
  \A u \in Live \ Findable :
    \E q \in SharedRunIds \ {u} : Met(u, q) /\ wants[q] = wants[u]

\* "One loaded runtime at a time" (run.ts) and one device, for runs that follow
\* one another: two runtimes a later run can still find belong to runs that met.
OneAtATime ==
  /\ \A u, v \in Live \cap Findable : u # v => Met(u, v)
  /\ \A r \in SharedRunIds :
       at[r] = "acquire" /\ device => \E q \in SharedRunIds : Met(r, q)

\* A run loses its runtime only to a run of another key that it met, and reads
\* tokens of another run only where one of its own key met it.
RunsAloneAreAlone ==
  \A r \in UnderWay :
    /\ using[r] # 0 /\ runtimes[using[r]] = "destroyed" =>
         \E q \in SharedRunIds : Met(r, q) /\ wants[q] \notin {"server", wants[r]}
    /\ at[r] = "read" /\ ToSet(rows[using[r]]) # {r} =>
         \E q \in SharedRunIds \ {r} : Met(r, q) /\ wants[q] = wants[r]

\* What runs share is as good as their own while they follow one another, and
\* where they meet only what is named above is lost: all four.
RuntimesAreShared == KeptAreLoaded /\ LostOnlyByTwins /\ OneAtATime /\ RunsAloneAreAlone
=============================================================================
