------------------------------ MODULE SplitRun ------------------------------
(***************************************************************************)
(* run(): a prompt through a model split between the browser and the       *)
(* server (packages/sdk/src/run.ts), with the session it drives            *)
(* (runtime/src/session.ts), its WebSocket client (runtime/src/protocol.ts)*)
(* and the runtime's key/value cache (runtime/src/kv.ts).                  *)
(*                                                                         *)
(* run() is a chain of awaits: connect and ping, plan, load the blocks,    *)
(* open a session, generate, close. The client has no request ids: replies *)
(* are taken in the order they arrive, the server may send an error nobody *)
(* asked for, and either end may go at any time. Runs follow one another   *)
(* and share the loaded runtime. The server is what SplitServer does for   *)
(* one connection. Tokens, weights and timings are left out.               *)
(***************************************************************************)
EXTENDS Naturals, Sequences

CONSTANTS
  L, Splits,         \* the model's blocks; the split points plans may choose
  Tied,              \* the head's weight is the embedding's
  Prompts,           \* prompt lengths
  MaxTokens, MaxCtx, \* options of run()
  ServerCtx,         \* the context a session may get from the server
  Pings,             \* pings of one rtt measurement
  MaxRuns            \* bound: how often run() is called

ASSUME RunAssumption ==
  /\ L \in Nat \ {0} /\ Splits \subseteq 1..L /\ Tied \in BOOLEAN
  /\ Prompts \subseteq Nat \ {0} /\ MaxTokens \in Nat \ {0} /\ MaxCtx \in Nat
  /\ ServerCtx \subseteq Nat \ {0} /\ Pings \in Nat \ {0} /\ MaxRuns \in Nat

VARIABLES
  pc,                \* what run() waits for
  outcome,           \* how the last run() settled
  runs,              \* runs begun
  plan,              \* mode and N
  T,                 \* tokens of the prompt
  step, pos,         \* of generate(): the step, and the next position
  lastDone,          \* `done` of the last token
  signal,            \* the caller's signal is aborted
  loaded,            \* the plan whose runtime is kept
  got, kv,           \* of that runtime, or the one being loaded: groups taken
                     \* from the stream, and cached positions
  client,            \* run() holds a connected client
  ws,                \* the socket, on the browser's side
  inbox,             \* messages nobody has taken yet
  up, down,          \* frames on their way
  srv,               \* the server's end: "gone", "connected" or "open"
  srvSeen, srvCtx    \* the session's positions and context there

runVars == <<pc, outcome, runs, plan, T, lastDone, signal>>
genVars == <<step, pos>>
rtVars == <<loaded, got, kv>>
wsVars == <<client, ws, inbox, up, down>>
srvVars == <<srv, srvSeen, srvCtx>>
vars == <<runVars, genVars, rtVars, wsVars, srvVars>>

NoPlan == [mode |-> "none", N |-> 0]
Plans == {[mode |-> "server", N |-> 0], [mode |-> "local", N |-> L]}
           \cup {[mode |-> "split", N |-> n] : n \in Splits}

Feed(a, b) == [type |-> "feed", start |-> a, end |-> b]
Msg(t) == [type |-> t]
Error(code) == [type |-> "error", code |-> code]
Token(done) == [type |-> "token", done |-> done]

TypeOK ==
  /\ pc \in {"idle", "pinging", "planning", "loading", "opening", "forward",
             "awaiting", "yielded", "stats"}
  /\ outcome \in {"none", "resolved", "rejected"}
  /\ runs \in 0..MaxRuns
  /\ plan \in Plans \cup {NoPlan} /\ loaded \in Plans \cup {NoPlan}
  /\ T \in Prompts \cup {0} /\ step \in 0..(MaxTokens + Pings) /\ pos \in 0..MaxCtx
  /\ lastDone \in BOOLEAN /\ signal \in BOOLEAN /\ client \in BOOLEAN
  /\ got \in 0..(L + 3) /\ kv \in 0..MaxCtx
  /\ ws \in {"none", "open", "closed"}
  /\ Len(inbox) <= 2 /\ Len(up) <= 2 /\ Len(down) <= 2
  /\ srv \in {"gone", "connected", "open"}
  /\ srvSeen \in 0..MaxCtx /\ srvCtx \in ServerCtx \cup {0}

Init ==
  /\ pc = "idle" /\ outcome = "none" /\ runs = 0
  /\ plan = NoPlan /\ loaded = NoPlan
  /\ T = 0 /\ step = 0 /\ pos = 0 /\ got = 0 /\ kv = 0
  /\ lastDone = FALSE /\ signal = FALSE /\ client = FALSE
  /\ ws = "none" /\ inbox = <<>> /\ up = <<>> /\ down = <<>>
  /\ srv = "gone" /\ srvSeen = 0 /\ srvCtx = 0

-----------------------------------------------------------------------------
(***************************************************************************)
(* The client                                                              *)
(***************************************************************************)

\* send: a closed socket swallows the frame.
Ask(m) == up' = (IF ws = "open" THEN Append(up, m) ELSE up)

\* Seeded fault: onclose rejects nobody.
TakeOnly(m) == inbox # <<>> /\ m = Head(inbox) /\ inbox' = Tail(inbox)

\* next: the oldest message, or the error of a closed socket.
Take(m) ==
  \/ inbox # <<>> /\ m = Head(inbox) /\ inbox' = Tail(inbox)
  \/ inbox = <<>> /\ ws = "closed" /\ m = Error("closed") /\ UNCHANGED inbox

\* SplitClient.close.
CloseClient ==
  /\ client' = FALSE
  /\ ws' = IF ws = "open" THEN "closed" ELSE ws
  /\ Ask(Msg("close"))

KeepClient == UNCHANGED <<client, ws, up>>

Settle(how) == pc' = "idle" /\ outcome' = how

-----------------------------------------------------------------------------
(***************************************************************************)
(* prepare: connect, ping, plan                                            *)
(***************************************************************************)

\* A run begins: no client (no token, or the socket did not open), or a fresh
\* one. A connection an earlier run has left behind is not followed further.
Begin ==
  /\ pc = "idle" /\ runs < MaxRuns
  /\ runs' = runs + 1
  /\ outcome' = "none"
  /\ \E t \in Prompts : t + MaxTokens <= MaxCtx /\ T' = t
  /\ signal' = FALSE /\ lastDone' = FALSE /\ plan' = NoPlan
  /\ step' = 1 /\ pos' = 0
  /\ inbox' = <<>> /\ down' = <<>> /\ srvSeen' = 0
  /\ \/ /\ client' = TRUE /\ ws' = "open" /\ up' = <<Msg("ping")>>
        /\ srv' = "connected" /\ srvCtx' \in ServerCtx
        /\ pc' = "pinging"
     \/ /\ client' = FALSE /\ ws' = "none" /\ up' = <<>>
        /\ srv' = "gone" /\ srvCtx' = 0
        /\ pc' = "planning"
  /\ UNCHANGED rtVars

\* rtt(): the pings follow one another; any error drops the client.
Pong ==
  /\ pc = "pinging"
  /\ \E m \in {Msg("pong"), Error("closed"), Error("shutdown")} :
       /\ Take(m)
       /\ IF m.type = "error"
            THEN CloseClient /\ pc' = "planning" /\ UNCHANGED step
          ELSE IF step < Pings
            THEN Ask(Msg("ping")) /\ step' = step + 1 /\ UNCHANGED <<pc, client, ws>>
            ELSE KeepClient /\ pc' = "planning" /\ UNCHANGED step
  /\ UNCHANGED <<outcome, runs, plan, T, pos, lastDone, signal, rtVars, down, srvVars>>

\* The plan: a feasible one needs the client unless it is local. A local run
\* closes the client; a runtime of another key is destroyed.
Plan ==
  /\ pc = "planning"
  /\ \E p \in Plans :
       /\ p.mode # "local" => client
       /\ plan' = p
       /\ IF p.mode = "local" THEN CloseClient ELSE KeepClient
       /\ IF p.N = 0 \/ loaded = p
            THEN pc' = "opening" /\ UNCHANGED rtVars
            ELSE pc' = "loading" /\ loaded' = NoPlan /\ got' = 0 /\ kv' = 0
  /\ UNCHANGED <<outcome, runs, T, genVars, lastDone, signal, inbox, down, srvVars>>

NoPlanFits ==
  /\ pc = "planning"
  /\ CloseClient
  /\ Settle("rejected")
  /\ UNCHANGED <<runs, plan, T, genVars, lastDone, signal, rtVars, inbox, down, srvVars>>

-----------------------------------------------------------------------------
(***************************************************************************)
(* Load, open, generate                                                    *)
(***************************************************************************)

\* What a plan needs of the stream embed, layer.0 .. layer.L-1, final_norm,
\* lm_head: the blocks 0..N-1, and for a local plan the head.
Ready(p, n) ==
  /\ n >= 1 + p.N
  /\ p.mode = "local" => n >= L + 2 + (IF Tied THEN 0 ELSE 1)

\* addGroup: the stream is left at the first group that makes the runtime ready.
Load ==
  /\ pc = "loading" /\ ~signal /\ got < L + 3
  /\ got' = got + 1
  /\ IF Ready(plan, got')
       THEN loaded' = plan /\ pc' = "opening"
       ELSE UNCHANGED <<loaded, pc>>
  /\ UNCHANGED <<outcome, runs, plan, T, lastDone, signal, genVars, kv, wsVars, srvVars>>

\* Whatever throws on the way - the load, an abort of the load, the GPU, the
\* caller's onToken - rejects run(). The client stays as it is.
Throw ==
  /\ \/ pc \in {"loading", "yielded"} /\ UNCHANGED kv
     \/ pc = "forward" /\ plan.N >= 1 /\ kv' \in {kv, pos}
     \/ pc = "awaiting" /\ plan.mode = "local" /\ UNCHANGED kv
  /\ Settle("rejected")
  /\ UNCHANGED <<runs, plan, T, lastDone, signal, genVars, loaded, got, wsVars, srvVars>>

\* generate() begins: the prompt is at positions 0..T-1.
StartGenerate == pc' = "forward" /\ step' = 0 /\ pos' = T

\* SplitSession.open: only a local session needs no server. The reply is
\* waited for with step = 0 as the mark that `open` was sent.
Open ==
  /\ pc = "opening" /\ step # 0
  /\ IF plan.mode = "local"
       THEN StartGenerate /\ UNCHANGED up
       ELSE Ask(Msg("open")) /\ step' = 0 /\ UNCHANGED <<pc, pos>>
  /\ UNCHANGED <<outcome, runs, plan, T, lastDone, signal, rtVars, client, ws, inbox,
                 down, srvVars>>

Opened ==
  /\ pc = "opening" /\ step = 0
  /\ \E m \in {Msg("opened")} \cup {Error(e) : e \in {"closed", "refused", "shutdown"}} :
       /\ Take(m)
       /\ IF m.type = "error"
            THEN Settle("rejected") /\ UNCHANGED genVars
            ELSE StartGenerate /\ UNCHANGED outcome
  /\ UNCHANGED <<runs, plan, T, lastDone, signal, rtVars, client, ws, up, down, srvVars>>

\* What a forward pass takes: the prompt, or the token at position pos - 1.
FedAt == IF step = 0 THEN 0 ELSE pos - 1

\* Seeded fault: generate() does not reset the runtime it found loaded.
ForwardWithoutReset ==
  /\ pc = "forward"
  /\ kv' = IF plan.N = 0 THEN kv ELSE kv + (pos - FedAt)
  /\ pc' = "awaiting"
  /\ IF plan.mode = "local" THEN UNCHANGED up ELSE Ask(Feed(FedAt, pos))
  /\ UNCHANGED <<outcome, runs, plan, T, lastDone, signal, genVars, loaded, got, client, ws,
                 inbox, down, srvVars>>

\* Seeded fault: a token is fed at the position of the next one.
ForwardAhead ==
  /\ pc = "forward"
  /\ kv' = IF plan.N = 0 THEN kv ELSE pos
  /\ pc' = "awaiting"
  /\ IF plan.mode = "local" THEN UNCHANGED up
     ELSE Ask(IF step = 0 THEN Feed(0, pos) ELSE Feed(pos, pos + 1))
  /\ UNCHANGED <<outcome, runs, plan, T, lastDone, signal, genVars, loaded, got, client, ws,
                 inbox, down, srvVars>>

\* The runtime's half (reset before the prompt; KvState.advance insists on
\* contiguous positions), then the hidden state or the ids go to the server.
Forward ==
  /\ pc = "forward"
  /\ (plan.N >= 1 /\ step > 0) => kv = FedAt
  /\ kv' = IF plan.N = 0 THEN kv ELSE pos
  /\ pc' = "awaiting"
  /\ IF plan.mode = "local" THEN UNCHANGED up ELSE Ask(Feed(FedAt, pos))
  /\ UNCHANGED <<outcome, runs, plan, T, lastDone, signal, genVars, loaded, got, client, ws,
                 inbox, down, srvVars>>

\* Seeded fault: nothing but the server's `done` ends a generation.
IsDoneThere(m) == m.done \/ signal

\* The token is the last: the server says so, it is an eos, a limit is
\* reached, or the caller has aborted.
IsDone(m) == m.done \/ step + 1 >= MaxTokens \/ pos + 1 >= MaxCtx \/ signal

\* The token, local or from the server, is yielded.
TokenArrives ==
  /\ pc = "awaiting"
  /\ \E m \in {Token(d) : d \in BOOLEAN}
               \cup {Error(e) : e \in {"closed", "bad_positions", "ctx_exceeded", "shutdown"}} :
       /\ IF plan.mode = "local" THEN m.type = "token" /\ UNCHANGED inbox ELSE Take(m)
       /\ IF m.type = "error"
            THEN Settle("rejected") /\ UNCHANGED lastDone
            ELSE pc' = "yielded" /\ lastDone' = IsDone(m) /\ UNCHANGED outcome
  /\ UNCHANGED <<runs, plan, T, signal, genVars, rtVars, client, ws, up, down, srvVars>>

\* run() takes the token; after the last one it asks for the server's stats.
NextToken ==
  /\ pc = "yielded"
  /\ IF ~lastDone
       THEN pc' = "forward" /\ step' = step + 1 /\ pos' = pos + 1 /\ UNCHANGED up
       ELSE /\ pc' = "stats"
            /\ IF client THEN Ask(Msg("stats")) ELSE UNCHANGED up
            /\ UNCHANGED genVars
  /\ UNCHANGED <<outcome, runs, plan, T, lastDone, signal, rtVars, client, ws, inbox,
                 down, srvVars>>

\* Seeded fault: the session is not closed at the end of a run.
FinishOpen ==
  /\ pc = "stats"
  /\ IF client THEN \E m \in {Msg("stats"), Error("closed"), Error("shutdown")} : Take(m)
               ELSE UNCHANGED inbox
  /\ KeepClient
  /\ Settle("resolved")
  /\ UNCHANGED <<runs, plan, T, lastDone, signal, genVars, rtVars, down, srvVars>>

\* serverStats (an error counts as none), session.close, and run() resolves.
Finish ==
  /\ pc = "stats"
  /\ IF client
       THEN \E m \in {Msg("stats"), Error("closed"), Error("shutdown")} : Take(m) /\ CloseClient
       ELSE UNCHANGED <<inbox, client, ws, up>>
  /\ Settle("resolved")
  /\ UNCHANGED <<runs, plan, T, lastDone, signal, genVars, rtVars, down, srvVars>>

Abort ==
  /\ pc # "idle" /\ ~signal
  /\ signal' = TRUE
  /\ UNCHANGED <<pc, outcome, runs, plan, T, lastDone, genVars, rtVars, wsVars, srvVars>>

-----------------------------------------------------------------------------
(***************************************************************************)
(* The server and the network                                              *)
(***************************************************************************)

\* One message is answered: see SplitServer. The model may call any token the
\* last one (an eos); it does at the end of its context.
Serve ==
  /\ srv # "gone" /\ up # <<>>
  /\ up' = Tail(up)
  /\ LET m == Head(up)
         Answer(r, s) == down' = Append(down, r) /\ srv' = s
     IN  \/ m.type = "ping" /\ Answer(Msg("pong"), srv) /\ UNCHANGED srvSeen
         \/ m.type = "open" /\ Answer(Msg("opened"), "open") /\ UNCHANGED srvSeen
         \/ m.type = "open" /\ Answer(Error("refused"), "gone") /\ UNCHANGED srvSeen
         \/ m.type = "stats" /\ Answer(Msg("stats"), srv) /\ UNCHANGED srvSeen
         \/ m.type = "close" /\ srv' = "gone" /\ UNCHANGED <<down, srvSeen>>
         \/ /\ m.type = "feed"
            /\ IF m.start # srvSeen
                 THEN Answer(Error("bad_positions"), srv) /\ UNCHANGED srvSeen
               ELSE IF m.end > srvCtx
                 THEN Answer(Error("ctx_exceeded"), srv) /\ UNCHANGED srvSeen
               ELSE /\ srvSeen' = m.end
                    /\ \E d \in BOOLEAN : (m.end >= srvCtx => d) /\ Answer(Token(d), srv)
  /\ UNCHANGED <<runVars, genVars, rtVars, client, ws, inbox, srvCtx>>

\* The reaper's idle_timeout, or the server stops: an error nobody asked for.
ServerGoes ==
  /\ srv # "gone"
  /\ srv' = "gone"
  /\ down' \in {down} \cup (IF srv = "open" THEN {Append(down, Error("shutdown"))} ELSE {})
  /\ UNCHANGED <<runVars, genVars, rtVars, client, ws, inbox, up, srvSeen, srvCtx>>

\* The connection breaks: what is on its way is lost.
NetworkDrops ==
  /\ ws = "open"
  /\ ws' = "closed" /\ srv' = "gone"
  /\ up' = <<>> /\ down' = <<>>
  /\ UNCHANGED <<runVars, genVars, rtVars, client, inbox, srvSeen, srvCtx>>

\* onmessage, until the socket is closed.
Receive ==
  /\ ws = "open" /\ down # <<>>
  /\ inbox' = Append(inbox, Head(down))
  /\ down' = Tail(down)
  /\ UNCHANGED <<runVars, genVars, rtVars, client, ws, up, srvVars>>

\* onclose, after the last message.
SocketCloses ==
  /\ ws = "open" /\ srv = "gone" /\ down = <<>>
  /\ ws' = "closed" /\ up' = <<>>
  /\ UNCHANGED <<runVars, genVars, rtVars, client, inbox, down, srvVars>>

Browser == Pong \/ Plan \/ Load \/ Open \/ Opened \/ Forward \/ TokenArrives
             \/ NextToken \/ Finish \/ Receive \/ SocketCloses

Next ==
  \/ Begin \/ Browser \/ NoPlanFits \/ Throw \/ Abort
  \/ Serve \/ ServerGoes \/ NetworkDrops

Spec == Init /\ [][Next]_vars

\* The browser's steps come, a load ends, and the server, as long as it is
\* there, answers: what SplitServer shows.
FairSpec == Spec /\ WF_vars(Browser \/ Throw) /\ WF_vars(Serve)

-----------------------------------------------------------------------------
(***************************************************************************)
(* Properties                                                              *)
(***************************************************************************)

\* When a token is yielded, every half that works for the plan has exactly
\* the positions before it in its cache, although the runtime is shared with
\* earlier runs: the browser's blocks, and the server's unless it is gone.
\* The browser has taken the groups of its blocks and no others.
HalvesInStep ==
  /\ TypeOK
  /\ pc = "yielded" =>
       /\ plan.N >= 1 => (loaded = plan /\ kv = pos)
       /\ plan.mode = "split" => got = 1 + plan.N
       /\ plan.mode = "local" => (got >= L + 2 /\ (got >= L + 3 \/ Tied))
       /\ (plan.mode # "local" /\ srv = "open") => srvSeen = pos

\* The positions a run sends are the ones the server waits for, and never
\* exceed the context that was asked for: a run fails on positions only when
\* the prompt alone is longer than the context the server grants.
PositionsAreAccepted ==
  \A i \in DOMAIN down :
    /\ down[i] # Error("bad_positions")
    /\ (down[i] = Error("ctx_exceeded")) => T > srvCtx

\* A run that resolves has yielded its last token, within maxTokens, with
\* `done`; every block it used is still loaded, and its client is closed.
ResolvedIsComplete ==
  outcome = "resolved" =>
    /\ lastDone /\ step < MaxTokens
    /\ plan.N >= 1 => loaded = plan
    /\ ~client /\ ws # "open"

\* run() settles as long as the server answers or goes, whatever error comes
\* unasked for and wherever the connection breaks.
RunSettles == pc # "idle" ~> pc = "idle"

\* The client is "closed by run() or planOnly()".
RunClosesItsClient == pc = "idle" => ~client
=============================================================================
