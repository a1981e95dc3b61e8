---------------------------- MODULE SplitServer ----------------------------
(***************************************************************************)
(* The split server: SplitServer and SessionManager of                     *)
(* server/dianome_server (ws.py, session.py, model.py, auth.py).           *)
(*                                                                         *)
(* asyncio runs one handler per connection, which answers one message at a *)
(* time, and a reaper. Model execution is the only thing in threads, one   *)
(* at a time under exec_lock, and the event loop goes on meanwhile: the    *)
(* reaper may close a session whose request is waiting or executing. An    *)
(* action is what the loop, or a thread, does between two awaits or locks. *)
(*                                                                         *)
(* A connection has at most one session, so a session is named by its      *)
(* connection; its id is the token's sid or, under the static bearer, a    *)
(* random one (here the connection again). A client may send any message   *)
(* at any time. Times are abstract: a session has been idle for longer     *)
(* than the timeout (`stale`), a token has expired.                        *)
(***************************************************************************)
EXTENDS Naturals, FiniteSets

CONSTANTS
  Conns,             \* the connections made
  Sids,              \* the sids of the tokens
  Bearer,            \* the static token, which names no session
  TokenOf,           \* the token each connection comes with
  MaxSessions,
  MaxCtx             \* max_ctx of each session: the client's, capped by the token's

ASSUME ServerAssumption ==
  /\ TokenOf \in [Conns -> Sids \cup {Bearer}]
  /\ Bearer \notin Sids \cup Conns /\ Conns \cap Sids = {}
  /\ MaxSessions \in Nat \ {0}
  /\ MaxCtx \in [Conns -> Nat \ {0}]

VARIABLES
  pc,                \* what each handler waits for
  wire,              \* wire[c]: the socket is open
  live,              \* live[c]: the handler's session is not closed; "none" before
  seen,              \* positions the session says are in its cache
  cached,            \* positions that are
  request,           \* the positions being executed: [start, end]
  intact,            \* the cache under execution is still the session's
  stale,             \* sessions idle for longer than the timeout
  expired,           \* tokens past their exp
  sessions,          \* manager.sessions: id -> session
  connections,       \* server.connections: id -> connection
  lock,              \* exec_lock: who has it, or Bearer for nobody
  reaping,           \* sessions the reaper has closed and not yet told
  reaped             \* history: ids of reaped sessions

session == <<live, seen, cached, stale>>
exec == <<request, intact, lock>>
tables == <<sessions, connections>>
reaper == <<reaping, reaped>>
vars == <<pc, wire, session, exec, tables, reaper, expired>>

Ids == Sids \cup Conns
IdOf(c) == IF TokenOf[c] = Bearer THEN c ELSE TokenOf[c]
NoRequest == [start |-> 0, end |-> 0]

TypeOK ==
  /\ pc \in [Conns -> {"connecting", "receiving", "locking", "executing", "over"}]
  /\ wire \in [Conns -> BOOLEAN]
  /\ live \in [Conns -> {"none", "open", "closed"}]
  /\ seen \in [Conns -> Nat] /\ \A c \in Conns : seen[c] <= MaxCtx[c]
  /\ cached \in [Conns -> Nat]
  /\ request \in [Conns -> [start : Nat, end : Nat]]
  /\ intact \in [Conns -> BOOLEAN]
  /\ stale \subseteq Conns
  /\ expired \subseteq Sids
  /\ DOMAIN sessions \subseteq Ids /\ \A i \in DOMAIN sessions : sessions[i] \in Conns
  /\ DOMAIN connections \subseteq Ids /\ \A i \in DOMAIN connections : connections[i] \in Conns
  /\ lock \in Conns \cup {Bearer}
  /\ reaping \subseteq Conns
  /\ reaped \subseteq Ids

Init ==
  /\ pc = [c \in Conns |-> "connecting"]
  /\ wire = [c \in Conns |-> FALSE]
  /\ live = [c \in Conns |-> "none"]
  /\ seen = [c \in Conns |-> 0]
  /\ cached = [c \in Conns |-> 0]
  /\ request = [c \in Conns |-> NoRequest]
  /\ intact = [c \in Conns |-> TRUE]
  /\ stale = {}
  /\ expired = {}
  /\ sessions = [i \in {} |-> Bearer]
  /\ connections = [i \in {} |-> Bearer]
  /\ lock = Bearer
  /\ reaping = {}
  /\ reaped = {}

-----------------------------------------------------------------------------
Goto(c, p) == pc' = [pc EXCEPT ![c] = p]
Without(table, i) == [j \in DOMAIN table \ {i} |-> table[j]]
With(table, i, c) == [j \in DOMAIN table \cup {i} |-> IF j = i THEN c ELSE table[j]]
Zero(f, S) == [c \in Conns |-> IF c \in S THEN 0 ELSE f[c]]

\* Session.close: also resets the decoder, whoever is executing with it.
CloseSessions(S) ==
  /\ live' = [c \in Conns |-> IF c \in S THEN "closed" ELSE live[c]]
  /\ seen' = Zero(seen, S)
  /\ cached' = Zero(cached, S)
  /\ intact' = [c \in Conns |-> intact[c] /\ ~(c \in S /\ pc'[c] = "executing")]

\* Seeded fault: a session whose execution failed stays in the table.
FinallyKeepingSlot(c) ==
  /\ Goto(c, "over")
  /\ wire' = [wire EXCEPT ![c] = FALSE]
  /\ request' = [request EXCEPT ![c] = NoRequest]
  /\ stale' = stale \ {c}
  /\ UNCHANGED <<tables, live, seen, cached, intact>>

\* Seeded fault: the tables are cleared by the token's id also when this
\* handler never had a session.
FinallyByToken(c) ==
  /\ Goto(c, "over")
  /\ wire' = [wire EXCEPT ![c] = FALSE]
  /\ request' = [request EXCEPT ![c] = NoRequest]
  /\ stale' = stale \ {c}
  /\ connections' = Without(connections, IdOf(c))
  /\ sessions' = Without(sessions, IdOf(c))
  /\ CloseSessions({c} \cap {d \in Conns : live[d] # "none"})

\* The `finally` of the handler: both tables are cleared by id.
Finally(c) ==
  /\ Goto(c, "over")
  /\ wire' = [wire EXCEPT ![c] = FALSE]
  /\ request' = [request EXCEPT ![c] = NoRequest]
  /\ stale' = stale \ {c}
  /\ IF live[c] = "none"
       THEN UNCHANGED <<tables, live, seen, cached, intact>>
       ELSE /\ connections' = Without(connections, IdOf(c))
            /\ sessions' = Without(sessions, IdOf(c))
            /\ CloseSessions({c})

-----------------------------------------------------------------------------
(***************************************************************************)
(* The upgrade and the messages                                            *)
(***************************************************************************)

\* process_request: a token past its exp is refused.
Upgrade(c) ==
  /\ pc[c] = "connecting"
  /\ IF TokenOf[c] \in expired
       THEN Goto(c, "over") /\ UNCHANGED wire
       ELSE Goto(c, "receiving") /\ wire' = [wire EXCEPT ![c] = TRUE]
  /\ UNCHANGED <<session, exec, tables, reaper, expired>>

Receives(c) == pc[c] = "receiving"

\* Seeded fault: two connections may come with one token.
MayOpenTwice(c) ==
  /\ TokenOf[c] \notin expired
  /\ Cardinality(DOMAIN sessions) < MaxSessions

\* The checks of `open` and SessionManager.open that do not look at arguments.
MayOpen(c) ==
  /\ TokenOf[c] \notin expired
  /\ Cardinality(DOMAIN sessions) < MaxSessions
  /\ TokenOf[c] # Bearer => TokenOf[c] \notin DOMAIN sessions

Open(c) ==
  /\ Receives(c) /\ live[c] = "none"
  /\ MayOpen(c)
  /\ live' = [live EXCEPT ![c] = "open"]
  /\ sessions' = With(sessions, IdOf(c), c)
  /\ connections' = With(connections, IdOf(c), c)
  /\ UNCHANGED <<pc, wire, seen, cached, stale, exec, reaper, expired>>

\* A refused open, here or for its model, N or max_ctx, ends the connection.
RefuseOpen(c) ==
  /\ Receives(c) /\ live[c] = "none"
  /\ Finally(c)
  /\ UNCHANGED <<lock, reaper, expired>>

\* Seeded fault: the context limit is checked before the new positions.
AcceptsPastContext(c, r) == r.start = seen[c] /\ r.start < r.end /\ r.start <= MaxCtx[c]

\* The checks of Session.prefill and decode, after `touch`.
Accepts(c, r) == r.start = seen[c] /\ r.start < r.end /\ r.end <= MaxCtx[c]

\* prefill, or decode with end = start + 1; the thread then wants the lock.
Execute(c, r) ==
  /\ Receives(c) /\ live[c] # "none"
  /\ Accepts(c, r)
  /\ request' = [request EXCEPT ![c] = r]
  /\ stale' = stale \ {c}
  /\ Goto(c, "locking")
  /\ UNCHANGED <<wire, live, seen, cached, intact, lock, tables, reaper, expired>>

\* A request that is refused, or `stats`: nothing but `touch`. A reply into a
\* closed socket raises ConnectionClosed.
Touch(c) ==
  /\ Receives(c) /\ live[c] # "none"
  /\ IF wire[c]
       THEN /\ stale' = stale \ {c}
            /\ UNCHANGED <<pc, wire, tables, live, seen, cached, intact, request>>
       ELSE Finally(c)
  /\ UNCHANGED <<lock, reaper, expired>>

\* `close`, or the client is gone; frames it sent before may have been read.
Leave(c) ==
  /\ Receives(c)
  /\ Finally(c)
  /\ UNCHANGED <<lock, reaper, expired>>

-----------------------------------------------------------------------------
(***************************************************************************)
(* Execution                                                               *)
(***************************************************************************)

\* The lock is got. PartialDecoder.run looks at the positions again: when the
\* session was reset meanwhile it raises, which ends the handler.
Acquire(c) ==
  /\ pc[c] = "locking" /\ lock = Bearer
  /\ IF request[c].start = seen[c]
       THEN /\ lock' = c
            /\ Goto(c, "executing")
            /\ UNCHANGED <<wire, tables, session, request, intact>>
       ELSE /\ Finally(c)
            /\ UNCHANGED lock
  /\ UNCHANGED <<reaper, expired>>

Executing(c) == pc[c] = "executing"
Length(r) == r.end - r.start

\* Seeded fault: `seen` is set although the run failed, and the session lives.
ExecutionFailsOpen(c) ==
  /\ Executing(c)
  /\ lock' = Bearer
  /\ stale' = stale \ {c}
  /\ seen' = [seen EXCEPT ![c] = request[c].end]
  /\ Goto(c, "receiving")
  /\ request' = [request EXCEPT ![c] = NoRequest]
  /\ UNCHANGED <<wire, tables, live, intact, cached, reaper, expired>>

\* The run is over: seen grows; the positions went into the cache the run
\* began with, and the token is sent.
Executed(c) ==
  /\ Executing(c)
  /\ lock' = Bearer
  /\ IF wire[c]
       THEN /\ seen' = [seen EXCEPT ![c] = @ + Length(request[c])]
            /\ cached' = IF intact[c] THEN [cached EXCEPT ![c] = @ + Length(request[c])]
                         ELSE cached
            /\ Goto(c, "receiving")
            /\ request' = [request EXCEPT ![c] = NoRequest]
            /\ intact' = [intact EXCEPT ![c] = TRUE]
            /\ stale' = stale \ {c}
            /\ UNCHANGED <<wire, tables, live>>
       ELSE Finally(c)
  /\ UNCHANGED <<reaper, expired>>

\* The model raises: not a ProtocolError, so the handler ends.
ExecutionFails(c) ==
  /\ Executing(c)
  /\ lock' = Bearer
  /\ Finally(c)
  /\ UNCHANGED <<reaper, expired>>

-----------------------------------------------------------------------------
(***************************************************************************)
(* The reaper, the network, and time                                       *)
(***************************************************************************)

Idle == {sessions[i] : i \in DOMAIN sessions} \cap stale

\* reap_idle: every idle session is closed at once, then told one by one.
Reap ==
  /\ reaping = {} /\ Idle # {}
  /\ UNCHANGED pc
  /\ CloseSessions(Idle)
  /\ sessions' = [i \in {j \in DOMAIN sessions : sessions[j] \notin Idle} |-> sessions[i]]
  /\ reaping' = Idle
  /\ reaped' = reaped \cup {IdOf(c) : c \in Idle}
  /\ UNCHANGED <<wire, stale, request, lock, connections, expired>>

\* The connection listed under the id is told and closed.
ReapTell(c) ==
  /\ c \in reaping
  /\ reaping' = reaping \ {c}
  /\ IF IdOf(c) \in DOMAIN connections
       THEN /\ wire' = [wire EXCEPT ![connections[IdOf(c)]] = FALSE]
            /\ connections' = Without(connections, IdOf(c))
       ELSE UNCHANGED <<wire, connections>>
  /\ UNCHANGED <<pc, session, exec, sessions, reaped, expired>>

\* The network or the client drops the connection.
Disconnect(c) ==
  /\ wire[c]
  /\ wire' = [wire EXCEPT ![c] = FALSE]
  /\ UNCHANGED <<pc, session, exec, tables, reaper, expired>>

TimePasses ==
  /\ \/ \E c \in Conns : /\ live[c] = "open" /\ c \notin stale
                         /\ stale' = stale \cup {c}
                         /\ UNCHANGED expired
     \/ \E s \in {TokenOf[c] : c \in {d \in Conns : live[d] = "none"}} :
          /\ s \in Sids \ expired
          /\ expired' = expired \cup {s}
          /\ UNCHANGED stale
  /\ UNCHANGED <<pc, wire, live, seen, cached, exec, tables, reaper>>

Requests(c) == [start : 0..MaxCtx[c], end : 0..(MaxCtx[c] + 1)]

Message(c) ==
  \/ Open(c) \/ RefuseOpen(c) \/ Touch(c) \/ Leave(c)
  \/ \E r \in Requests(c) : Execute(c, r)

\* The server's own steps, which come without any client.
ServerStep(c) ==
  \/ Acquire(c) \/ Executed(c) \/ ExecutionFails(c) \/ ReapTell(c)
  \/ ~wire[c] /\ Leave(c)

Next ==
  \/ \E c \in Conns : Upgrade(c) \/ Message(c) \/ ServerStep(c) \/ Disconnect(c)
  \/ Reap
  \/ TimePasses
  \/ (\A c \in Conns : pc[c] = "over") /\ UNCHANGED vars

Spec == Init /\ [][Next]_vars

\* Executions end, the event loop gets to every handler whose socket is
\* closed, the reaper wakes up. exec_lock need not be fair: no session can
\* execute more than its context holds. Nothing is assumed of clients.
FairSpec ==
  /\ Spec
  /\ \A c \in Conns : WF_vars(ServerStep(c))
  /\ WF_vars(Reap)

-----------------------------------------------------------------------------
(***************************************************************************)
(* Properties                                                              *)
(***************************************************************************)

\* Sessions whose id has not been reaped under another handler.
Regular == {c \in Conns : IdOf(c) \notin reaped}

\* The manager counts the sessions there are: every open session is in the
\* table under its own id, so at most max_sessions are open, and none shares
\* its sid with another. (A sid that was reaped before is not covered.)
SessionsAreCounted ==
  /\ TypeOK
  /\ \A c \in Regular : live[c] = "open" =>
       IdOf(c) \in DOMAIN sessions /\ sessions[IdOf(c)] = c
  /\ Cardinality({c \in Regular : live[c] = "open"}) <= MaxSessions

\* "the same `sid` cannot be open twice".
SidIsOpenOnce ==
  \A c, d \in Conns :
    live[c] = "open" /\ live[d] = "open" /\ IdOf(c) = IdOf(d) => c = d

\* Between requests, an open session's cache holds exactly the positions it
\* says it has seen, whatever failed, waited for the lock or was refused.
CacheFollowsSeen ==
  \A c \in Conns : live[c] = "open" /\ Receives(c) => cached[c] = seen[c]

\* No other connection has had a session under the id of c.
Alone(c) ==
  \A d \in Conns \ {c} : IdOf(d) = IdOf(c) => live[d] = "none"

\* The reaper tells a session it has closed some time after it closed it, and
\* finds the connection by id (ws.py:240): meanwhile handlers end, refuse and
\* open sessions under the same sid. When it is through with a session, no
\* connection of another id was cut; and unless another connection has had a
\* session under its id, its own socket is closed, whoever closed it, and
\* nobody else's: no client is left with an open socket and a dead session.
ReaperCutsItsOwn ==
  [][\A c \in reaping \ reaping' :
       /\ \A d \in Conns : wire'[d] # wire[d] => IdOf(d) = IdOf(c)
       /\ Alone(c) => ~wire'[c] /\ \A d \in Conns \ {c} : wire'[d] = wire[d]]_vars

\* When a client goes away, in whatever state, its slot is free in the end.
SlotsComeBack ==
  \A c \in Conns : pc[c] # "connecting" /\ ~wire[c] ~>
    pc[c] = "over" /\ \A i \in DOMAIN sessions : sessions[i] # c
=============================================================================
