-------------------------- MODULE SplitServerProofs --------------------------
(***************************************************************************)
(* Proofs about SplitServer for any connections, tokens, contexts and      *)
(* number of slots.                                                        *)
(*                                                                         *)
(* The properties relate the tables, the sessions and the caches, which    *)
(* change in different steps. What makes them inductive is where a session *)
(* can be when: a handler that is over has no open session, a session that *)
(* was closed under its handler was reaped, a table names every session by *)
(* its own id, and the request under execution fits the session unless it  *)
(* was closed meanwhile.                                                   *)
(***************************************************************************)
EXTENDS SplitServer, FiniteSetTheorems, FunctionTheorems, TLAPS

\* An open session has a handler that is not over; a session that is closed
\* although its handler goes on was reaped.
HandlersOwnSessions ==
  \A c \in Conns :
    /\ live[c] = "open" => pc[c] \in {"receiving", "locking", "executing"}
    /\ pc[c] \in {"locking", "executing"} => live[c] # "none"
    /\ live[c] = "closed" /\ pc[c] # "over" => IdOf(c) \in reaped

\* What waits for the lock, or has it, passed the checks; the session's count
\* moves under an execution only by being reset.
RequestsFit ==
  \A c \in Conns :
    /\ pc[c] \in {"locking", "executing"} =>
         request[c].start < request[c].end /\ request[c].end <= MaxCtx[c]
    /\ pc[c] = "executing" => seen[c] \in {0, request[c].start}

LockIsHeld == \A c \in Conns : pc[c] = "executing" <=> lock = c

TableNamesItsSessions ==
  /\ IsFiniteSet(DOMAIN sessions)
  /\ Cardinality(DOMAIN sessions) <= MaxSessions
  /\ \A i \in DOMAIN sessions : IdOf(sessions[i]) = i

RegularAreListed ==
  \A c \in Regular : live[c] = "open" =>
    IdOf(c) \in DOMAIN sessions /\ sessions[IdOf(c)] = c

CachesMatch == \A c \in Conns : live[c] # "closed" => cached[c] = seen[c] /\ intact[c]

ServerInv ==
  /\ TypeOK
  /\ RequestsFit
  /\ HandlersOwnSessions
  /\ LockIsHeld
  /\ TableNamesItsSessions
  /\ RegularAreListed
  /\ CachesMatch

LEMMA InitServerInv == Init => ServerInv
  <1> SUFFICES ASSUME Init PROVE ServerInv
    OBVIOUS
  <1>1. DOMAIN sessions = {} /\ DOMAIN connections = {}
    BY DEF Init
  <1>2. TypeOK
    BY <1>1, ServerAssumption DEF Init, TypeOK, NoRequest
  <1>3. TableNamesItsSessions
    BY <1>1, FS_EmptySet, ServerAssumption DEF TableNamesItsSessions
  <1> QED
    BY <1>2, <1>3, ServerAssumption DEF Init, ServerInv, RequestsFit, HandlersOwnSessions,
       LockIsHeld, RegularAreListed, Regular, CachesMatch

-----------------------------------------------------------------------------
(***************************************************************************)
(* The tables                                                              *)
(***************************************************************************)

LEMMA IdsAreIds == \A c \in Conns : IdOf(c) \in Ids
  BY ServerAssumption DEF IdOf, Ids

\* A table that loses entries still names its sessions and stays within bounds.
LEMMA SmallerTable ==
  ASSUME TableNamesItsSessions, DOMAIN sessions' \subseteq DOMAIN sessions,
         \A i \in DOMAIN sessions' : sessions'[i] = sessions[i]
  PROVE  TableNamesItsSessions'
  <1>1. /\ IsFiniteSet(DOMAIN sessions')
        /\ Cardinality(DOMAIN sessions') <= Cardinality(DOMAIN sessions)
    BY FS_Subset DEF TableNamesItsSessions
  <1>2. Cardinality(DOMAIN sessions) \in Nat /\ Cardinality(DOMAIN sessions') \in Nat
    BY <1>1, FS_CardinalityType DEF TableNamesItsSessions
  <1> QED
    BY <1>1, <1>2, ServerAssumption DEF TableNamesItsSessions, IdOf

-----------------------------------------------------------------------------
(***************************************************************************)
(* The end of a handler, in whatever state                                 *)
(***************************************************************************)

\* The other session of a regular id is never open: `finally` clears an entry
\* of a session of its own, or of none.
LEMMA FinallyKeeps ==
  ASSUME ServerInv, NEW c \in Conns, pc[c] # "over", Finally(c),
         lock' = (IF lock = c THEN Bearer ELSE lock), UNCHANGED <<reaper, expired>>
  PROVE  ServerInv'
  <1> USE DEF reaper
  <1>0. /\ pc \in [Conns -> {"connecting", "receiving", "locking", "executing", "over"}]
        /\ live \in [Conns -> {"none", "open", "closed"}]
        /\ wire \in [Conns -> BOOLEAN]
        /\ request \in [Conns -> [start : Nat, end : Nat]]
        /\ pc' = [pc EXCEPT ![c] = "over"]
        /\ wire' = [wire EXCEPT ![c] = FALSE]
        /\ request' = [request EXCEPT ![c] = NoRequest]
    BY DEF ServerInv, TypeOK, Finally, Goto
  <1>1. \A d \in Conns : /\ live'[d] = IF d = c /\ live[c] # "none" THEN "closed" ELSE live[d]
                         /\ d # c \/ live[c] = "none" =>
                              seen'[d] = seen[d] /\ cached'[d] = cached[d]
                         /\ seen'[d] \in {0, seen[d]} /\ cached'[d] \in {0, cached[d]}
                         /\ intact'[d] = intact[d]
    <2>1. CASE live[c] = "none"
      BY <1>0, <2>1 DEF Finally, ServerInv, TypeOK
    <2>2. CASE live[c] # "none"
      BY <1>0, <2>2 DEF Finally, CloseSessions, Zero, ServerInv, TypeOK
    <2> QED BY <2>1, <2>2
  <1>2. /\ live' \in [Conns -> {"none", "open", "closed"}]
        /\ seen' \in [Conns -> Nat] /\ \A d \in Conns : seen'[d] <= MaxCtx[d]
        /\ cached' \in [Conns -> Nat] /\ intact' \in [Conns -> BOOLEAN]
    <2>1. CASE live[c] = "none"
      BY <1>0, <2>1 DEF Finally, ServerInv, TypeOK
    <2>2. CASE live[c] # "none"
      <3>1. intact' \in [Conns -> BOOLEAN]
        BY <2>2 DEF Finally, CloseSessions
      <3>2. /\ live' = [d \in Conns |-> IF d \in {c} THEN "closed" ELSE live[d]]
            /\ seen' = [d \in Conns |-> IF d \in {c} THEN 0 ELSE seen[d]]
            /\ cached' = [d \in Conns |-> IF d \in {c} THEN 0 ELSE cached[d]]
        BY <2>2 DEF Finally, CloseSessions, Zero
      <3>3. /\ seen \in [Conns -> Nat] /\ \A d \in Conns : seen[d] <= MaxCtx[d]
            /\ cached \in [Conns -> Nat] /\ \A d \in Conns : 0 <= MaxCtx[d]
        BY ServerAssumption DEF ServerInv, TypeOK
      <3> QED
        BY <1>0, <3>1, <3>2, <3>3
    <2> QED BY <2>1, <2>2
  <1>3. /\ DOMAIN sessions' \subseteq DOMAIN sessions
        /\ \A i \in DOMAIN sessions' : sessions'[i] = sessions[i]
        /\ \A i \in DOMAIN sessions \ DOMAIN sessions' : i = IdOf(c) /\ live[c] # "none"
        /\ DOMAIN connections' \subseteq DOMAIN connections
        /\ \A i \in DOMAIN connections' : connections'[i] = connections[i]
    <2>1. CASE live[c] = "none"
      BY <2>1 DEF Finally, tables
    <2>2. CASE live[c] # "none"
      <3>1. sessions' = Without(sessions, IdOf(c)) /\ connections' = Without(connections, IdOf(c))
        BY <2>2 DEF Finally
      <3>2. /\ DOMAIN sessions' = DOMAIN sessions \ {IdOf(c)}
            /\ \A i \in DOMAIN sessions \ {IdOf(c)} : sessions'[i] = sessions[i]
        BY <3>1 DEF Without
      <3>3. /\ DOMAIN connections' = DOMAIN connections \ {IdOf(c)}
            /\ \A i \in DOMAIN connections \ {IdOf(c)} : connections'[i] = connections[i]
        BY <3>1 DEF Without
      <3> QED BY <2>2, <3>2, <3>3
    <2> QED BY <2>1, <2>2
  <1>4. TypeOK'
    <2>1. pc' \in [Conns -> {"connecting", "receiving", "locking", "executing", "over"}]
          /\ wire' \in [Conns -> BOOLEAN] /\ stale' \subseteq Conns
      BY <1>0 DEF Finally, ServerInv, TypeOK
    <2>2. request' \in [Conns -> [start : Nat, end : Nat]]
      BY <1>0 DEF NoRequest
    <2> QED
      BY <1>2, <1>3, <2>1, <2>2 DEF ServerInv, TypeOK
  <1>5. RequestsFit'
    BY <1>0, <1>1 DEF ServerInv, RequestsFit
  <1>6. HandlersOwnSessions'
    BY <1>0, <1>1 DEF ServerInv, HandlersOwnSessions, IdOf
  <1>7. LockIsHeld'
    BY <1>0, ServerAssumption DEF ServerInv, LockIsHeld
  <1>8. TableNamesItsSessions'
    BY <1>3, SmallerTable DEF ServerInv
  <1>9. RegularAreListed'
    <2> SUFFICES ASSUME NEW d \in Conns, IdOf(d) \notin reaped, live'[d] = "open"
                 PROVE  IdOf(d) \in DOMAIN sessions' /\ sessions'[IdOf(d)] = d
      BY DEF RegularAreListed, Regular, IdOf
    <2>1. d # c /\ live[d] = "open"
      BY <1>1
    <2>2. IdOf(d) \in DOMAIN sessions /\ sessions[IdOf(d)] = d
      BY <2>1 DEF ServerInv, RegularAreListed, Regular
    <2>3. ~(IdOf(c) = IdOf(d) /\ live[c] # "none")
      <3> SUFFICES ASSUME IdOf(c) = IdOf(d), live[c] # "none" PROVE FALSE
        OBVIOUS
      <3>1. live[c] = "open"
        BY <1>0 DEF ServerInv, HandlersOwnSessions
      <3> QED
        BY <2>1, <2>2, <3>1 DEF ServerInv, RegularAreListed, Regular
    <2> QED
      BY <1>3, <2>2, <2>3
  <1>10. CachesMatch'
    BY <1>1 DEF ServerInv, CachesMatch
  <1> QED
    BY <1>4, <1>5, <1>6, <1>7, <1>8, <1>9, <1>10 DEF ServerInv
-----------------------------------------------------------------------------
(***************************************************************************)
(* One lemma per step that is not the end of a handler                     *)
(***************************************************************************)

LEMMA UpgradeKeeps ==
  ASSUME ServerInv, NEW c \in Conns, Upgrade(c)
  PROVE  ServerInv'
  <1> USE DEF Upgrade, Goto, session, exec, tables, reaper
  <1>0. /\ pc \in [Conns -> {"connecting", "receiving", "locking", "executing", "over"}]
        /\ wire \in [Conns -> BOOLEAN]
        /\ live[c] \in {"none", "open", "closed"}
    BY DEF ServerInv, TypeOK
  <1>1. \E p \in {"receiving", "over"} : pc' = [pc EXCEPT ![c] = p]
    OBVIOUS
  <1>2. TypeOK'
    BY <1>0 DEF ServerInv, TypeOK
  <1>3. RequestsFit' /\ LockIsHeld'
    BY <1>0, <1>1 DEF ServerInv, RequestsFit, LockIsHeld
  <1>4. HandlersOwnSessions'
    BY <1>0, <1>1 DEF ServerInv, HandlersOwnSessions, IdOf
  <1>5. TableNamesItsSessions' /\ RegularAreListed' /\ CachesMatch'
    BY DEF ServerInv, TableNamesItsSessions, RegularAreListed, CachesMatch, Regular, IdOf
  <1> QED
    BY <1>2, <1>3, <1>4, <1>5 DEF ServerInv

\* Two connections with one id are the same one under the static bearer.
LEMMA OneIdOneToken ==
  ASSUME NEW c \in Conns, NEW d \in Conns, IdOf(c) = IdOf(d), c # d
  PROVE  TokenOf[c] # Bearer /\ TokenOf[c] = IdOf(d)
  BY ServerAssumption DEF IdOf

LEMMA OpenKeeps ==
  ASSUME ServerInv, NEW c \in Conns, Open(c)
  PROVE  ServerInv'
  <1> USE DEF Open, exec, reaper
  <1>0. /\ live \in [Conns -> {"none", "open", "closed"}]
        /\ pc[c] = "receiving" /\ live[c] = "none"
        /\ live' = [live EXCEPT ![c] = "open"]
        /\ IdOf(c) \in Ids
    BY IdsAreIds DEF ServerInv, TypeOK, Receives
  <1>1. /\ DOMAIN sessions' = DOMAIN sessions \cup {IdOf(c)}
        /\ sessions'[IdOf(c)] = c
        /\ \A i \in DOMAIN sessions \ {IdOf(c)} : sessions'[i] = sessions[i]
    BY DEF With
  <1>2. /\ DOMAIN connections' = DOMAIN connections \cup {IdOf(c)}
        /\ connections'[IdOf(c)] = c
        /\ \A i \in DOMAIN connections \ {IdOf(c)} : connections'[i] = connections[i]
    BY DEF With
  <1>3. TypeOK'
    BY <1>0, <1>1, <1>2 DEF ServerInv, TypeOK
  <1>4. RequestsFit' /\ LockIsHeld'
    BY DEF ServerInv, RequestsFit, LockIsHeld
  <1>5. HandlersOwnSessions'
    BY <1>0 DEF ServerInv, HandlersOwnSessions, IdOf
  <1>6. TableNamesItsSessions'
    <2>1. IsFiniteSet(DOMAIN sessions) /\ Cardinality(DOMAIN sessions) \in Nat
          /\ Cardinality(DOMAIN sessions) < MaxSessions
      BY FS_CardinalityType DEF ServerInv, TableNamesItsSessions, MayOpen
    <2>2. /\ IsFiniteSet(DOMAIN sessions')
          /\ Cardinality(DOMAIN sessions') <= Cardinality(DOMAIN sessions) + 1
      <3>1. /\ IsFiniteSet(DOMAIN sessions \cup {IdOf(c)})
            /\ \/ Cardinality(DOMAIN sessions \cup {IdOf(c)}) = Cardinality(DOMAIN sessions)
               \/ Cardinality(DOMAIN sessions \cup {IdOf(c)}) = Cardinality(DOMAIN sessions) + 1
        BY <2>1, FS_AddElement
      <3> QED BY <1>1, <2>1, <3>1
    <2>3. Cardinality(DOMAIN sessions') \in Nat
      BY <2>2, FS_CardinalityType
    <2>4. \A i \in DOMAIN sessions' : IdOf(sessions'[i]) = i
      BY <1>1 DEF ServerInv, TableNamesItsSessions
    <2> QED
      BY <2>1, <2>2, <2>3, <2>4, ServerAssumption DEF TableNamesItsSessions, IdOf
  <1>7. RegularAreListed'
    <2> SUFFICES ASSUME NEW d \in Conns, IdOf(d) \notin reaped, live'[d] = "open"
                 PROVE  IdOf(d) \in DOMAIN sessions' /\ sessions'[IdOf(d)] = d
      BY DEF RegularAreListed, Regular, IdOf
    <2>1. CASE d = c
      BY <1>1, <2>1
    <2>2. CASE d # c
      <3>1. IdOf(d) \in DOMAIN sessions /\ sessions[IdOf(d)] = d
        BY <1>0, <2>2 DEF ServerInv, RegularAreListed, Regular
      <3>2. IdOf(c) # IdOf(d)
        BY <2>2, <3>1, OneIdOneToken DEF MayOpen
      <3> QED BY <1>1, <3>1, <3>2
    <2> QED BY <2>1, <2>2
  <1>8. CachesMatch'
    <2>1. cached[c] = seen[c] /\ intact[c]
      BY <1>0 DEF ServerInv, CachesMatch
    <2> QED
      BY <1>0, <2>1 DEF ServerInv, CachesMatch
  <1> QED
    BY <1>3, <1>4, <1>5, <1>6, <1>7, <1>8 DEF ServerInv

LEMMA ExecuteKeeps ==
  ASSUME ServerInv, NEW c \in Conns, NEW r \in Requests(c), Execute(c, r)
  PROVE  ServerInv'
  <1> USE DEF Execute, Goto, Receives, tables, reaper
  <1>0. /\ pc \in [Conns -> {"connecting", "receiving", "locking", "executing", "over"}]
        /\ request \in [Conns -> [start : Nat, end : Nat]]
        /\ pc[c] = "receiving" /\ live[c] # "none"
        /\ pc' = [pc EXCEPT ![c] = "locking"] /\ request' = [request EXCEPT ![c] = r]
        /\ r \in [start : Nat, end : Nat] /\ r.start < r.end /\ r.end <= MaxCtx[c]
    BY ServerAssumption DEF ServerInv, TypeOK, Requests, Accepts
  <1>1. TypeOK'
    <2>1. request' \in [Conns -> [start : Nat, end : Nat]]
      BY <1>0
    <2> QED
      BY <1>0, <2>1 DEF ServerInv, TypeOK
  <1>2. RequestsFit' /\ LockIsHeld'
    BY <1>0 DEF ServerInv, RequestsFit, LockIsHeld
  <1>3. HandlersOwnSessions'
    BY <1>0 DEF ServerInv, HandlersOwnSessions, IdOf
  <1>4. TableNamesItsSessions' /\ RegularAreListed' /\ CachesMatch'
    BY DEF ServerInv, TableNamesItsSessions, RegularAreListed, CachesMatch, Regular, IdOf
  <1> QED
    BY <1>1, <1>2, <1>3, <1>4 DEF ServerInv

LEMMA TouchKeeps ==
  ASSUME ServerInv, NEW c \in Conns, Touch(c)
  PROVE  ServerInv'
  <1>1. CASE wire[c]
    BY <1>1 DEF Touch, ServerInv, TypeOK, RequestsFit, LockIsHeld, HandlersOwnSessions,
       TableNamesItsSessions, RegularAreListed, CachesMatch, Regular, IdOf, tables, reaper
  <1>2. CASE ~wire[c]
    <2>1. pc[c] # "over" /\ Finally(c) /\ UNCHANGED <<reaper, expired, lock>>
      BY <1>2 DEF Touch, Receives
    <2>2. lock # c
      BY DEF Touch, Receives, ServerInv, LockIsHeld
    <2> QED
      BY <2>1, <2>2, FinallyKeeps
  <1> QED BY <1>1, <1>2

LEMMA LeaveKeeps ==
  ASSUME ServerInv, NEW c \in Conns, RefuseOpen(c) \/ Leave(c)
  PROVE  ServerInv'
  <1>1. pc[c] = "receiving" /\ Finally(c) /\ UNCHANGED <<reaper, expired, lock>>
    BY DEF RefuseOpen, Leave, Receives
  <1>2. lock # c
    BY <1>1 DEF ServerInv, LockIsHeld
  <1> QED
    BY <1>1, <1>2, FinallyKeeps

LEMMA AcquireKeeps ==
  ASSUME ServerInv, NEW c \in Conns, Acquire(c)
  PROVE  ServerInv'
  <1>0. /\ pc \in [Conns -> {"connecting", "receiving", "locking", "executing", "over"}]
        /\ pc[c] = "locking" /\ lock = Bearer /\ UNCHANGED <<reaper, expired>>
    BY DEF Acquire, ServerInv, TypeOK
  <1>1. CASE request[c].start = seen[c]
    <2>0. /\ lock' = c /\ pc' = [pc EXCEPT ![c] = "executing"]
          /\ UNCHANGED <<wire, tables, session, request, intact>>
      BY <1>1 DEF Acquire, Goto
    <2> USE DEF tables, session, reaper
    <2>1. TypeOK'
      BY <1>0, <2>0 DEF ServerInv, TypeOK
    <2>2. RequestsFit'
      BY <1>0, <1>1, <2>0 DEF ServerInv, RequestsFit
    <2>3. LockIsHeld'
      <3>1. \A d \in Conns : pc[d] # "executing"
        BY <1>0, ServerAssumption DEF ServerInv, LockIsHeld
      <3> QED
        BY <1>0, <2>0, <3>1 DEF LockIsHeld
    <2>4. HandlersOwnSessions'
      BY <1>0, <2>0 DEF ServerInv, HandlersOwnSessions, IdOf
    <2>5. TableNamesItsSessions' /\ RegularAreListed' /\ CachesMatch'
      BY <1>0, <2>0 DEF ServerInv, TableNamesItsSessions, RegularAreListed, CachesMatch,
         Regular, IdOf
    <2> QED
      BY <2>1, <2>2, <2>3, <2>4, <2>5 DEF ServerInv
  <1>2. CASE request[c].start # seen[c]
    <2>1. lock' = (IF lock = c THEN Bearer ELSE lock) /\ Finally(c)
      BY <1>0, <1>2 DEF Acquire
    <2> QED
      BY <1>0, <2>1, FinallyKeeps
  <1> QED BY <1>1, <1>2

LEMMA ExecutedKeeps ==
  ASSUME ServerInv, NEW c \in Conns, Executed(c) \/ ExecutionFails(c)
  PROVE  ServerInv'
  <1>0. /\ pc \in [Conns -> {"connecting", "receiving", "locking", "executing", "over"}]
        /\ pc[c] = "executing" /\ lock = c /\ lock' = Bearer
        /\ UNCHANGED <<reaper, expired>>
    BY DEF Executed, ExecutionFails, Executing, ServerInv, TypeOK, LockIsHeld
  <1>1. CASE Finally(c)
    BY <1>0, <1>1, FinallyKeeps
  <1>2. CASE ~Finally(c)
    <2>0. /\ pc' = [pc EXCEPT ![c] = "receiving"]
          /\ request' = [request EXCEPT ![c] = NoRequest]
          /\ intact' = [intact EXCEPT ![c] = TRUE]
          /\ seen' = [seen EXCEPT ![c] = seen[c] + Length(request[c])]
          /\ cached' = IF intact[c] THEN [cached EXCEPT ![c] = cached[c] + Length(request[c])]
                       ELSE cached
          /\ stale' = stale \ {c}
          /\ UNCHANGED <<wire, tables, live>>
      BY <1>2 DEF Executed, ExecutionFails, Goto
    <2> USE DEF tables, reaper
    <2>1. /\ seen \in [Conns -> Nat] /\ cached \in [Conns -> Nat]
          /\ intact \in [Conns -> BOOLEAN]
          /\ request \in [Conns -> [start : Nat, end : Nat]]
          /\ MaxCtx[c] \in Nat /\ seen[c] \in {0, request[c].start}
          /\ request[c].start < request[c].end /\ request[c].end <= MaxCtx[c]
      BY <1>0, ServerAssumption DEF ServerInv, TypeOK, RequestsFit
    <2>2. /\ Length(request[c]) \in Nat
          /\ seen[c] + Length(request[c]) <= MaxCtx[c]
      BY <2>1 DEF Length
    <2>3. TypeOK'
      <3>1. seen' \in [Conns -> Nat] /\ \A d \in Conns : seen'[d] <= MaxCtx[d]
        BY <2>0, <2>1, <2>2 DEF ServerInv, TypeOK
      <3>2. cached' \in [Conns -> Nat]
        BY <2>0, <2>1, <2>2
      <3>3. intact' \in [Conns -> BOOLEAN]
        BY <2>0, <2>1
      <3>4. request' \in [Conns -> [start : Nat, end : Nat]]
        BY <2>0, <2>1 DEF NoRequest
      <3> QED
        BY <1>0, <2>0, <3>1, <3>2, <3>3, <3>4 DEF ServerInv, TypeOK
    <2>4. RequestsFit'
      BY <1>0, <2>0, <2>1 DEF ServerInv, RequestsFit
    <2>5. LockIsHeld'
      BY <1>0, <2>0, ServerAssumption DEF ServerInv, LockIsHeld
    <2>6. HandlersOwnSessions'
      BY <1>0, <2>0 DEF ServerInv, HandlersOwnSessions, IdOf
    <2>7. TableNamesItsSessions' /\ RegularAreListed'
      BY <1>0, <2>0 DEF ServerInv, TableNamesItsSessions, RegularAreListed, Regular, IdOf
    <2>8. CachesMatch'
      <3> SUFFICES ASSUME NEW d \in Conns, live[d] # "closed"
                   PROVE  cached'[d] = seen'[d] /\ intact'[d]
        BY <2>0 DEF CachesMatch
      <3>1. cached[d] = seen[d] /\ intact[d]
        BY DEF ServerInv, CachesMatch
      <3> QED
        BY <2>0, <2>1, <3>1
    <2> QED
      BY <2>3, <2>4, <2>5, <2>6, <2>7, <2>8 DEF ServerInv
  <1> QED BY <1>1, <1>2

\* The only step that closes a session under its handler.
LEMMA ReapKeeps ==
  ASSUME ServerInv, Reap
  PROVE  ServerInv'
  <1> DEFINE gone == Idle
  <1>0. /\ pc' = pc /\ UNCHANGED <<wire, stale, request, lock, connections, expired>>
        /\ DOMAIN sessions' = {j \in DOMAIN sessions : sessions[j] \notin gone}
        /\ \A i \in DOMAIN sessions' : sessions'[i] = sessions[i]
        /\ reaping' = gone
        /\ reaped' = reaped \cup {IdOf(c) : c \in gone}
    BY DEF Reap
  <1>a. gone \subseteq Conns
    BY DEF Idle, ServerInv, TypeOK
  <1>b. /\ live \in [Conns -> {"none", "open", "closed"}]
        /\ seen \in [Conns -> Nat] /\ \A c \in Conns : seen[c] <= MaxCtx[c]
        /\ cached \in [Conns -> Nat] /\ \A c \in Conns : 0 <= MaxCtx[c]
    BY ServerAssumption DEF ServerInv, TypeOK
  <1>1. /\ live' = [c \in Conns |-> IF c \in gone THEN "closed" ELSE live[c]]
        /\ seen' = [c \in Conns |-> IF c \in gone THEN 0 ELSE seen[c]]
        /\ cached' = [c \in Conns |-> IF c \in gone THEN 0 ELSE cached[c]]
        /\ intact' \in [Conns -> BOOLEAN]
        /\ \A c \in Conns : c \notin gone => (intact'[c] <=> intact[c])
    BY DEF Reap, CloseSessions, Zero
  <1>2. TypeOK'
    <2>1. /\ live' \in [Conns -> {"none", "open", "closed"}]
          /\ seen' \in [Conns -> Nat] /\ \A c \in Conns : seen'[c] <= MaxCtx[c]
          /\ cached' \in [Conns -> Nat]
      BY <1>b, <1>1
    <2>2. reaping' \subseteq Conns /\ reaped' \subseteq Ids
      BY <1>0, <1>a, IdsAreIds DEF ServerInv, TypeOK
    <2> QED
      BY <1>0, <1>1, <2>1, <2>2 DEF ServerInv, TypeOK
  <1>3. RequestsFit' /\ LockIsHeld'
    BY <1>0, <1>1 DEF ServerInv, RequestsFit, LockIsHeld
  <1>4. HandlersOwnSessions'
    <2> SUFFICES ASSUME NEW c \in Conns
                 PROVE  /\ live'[c] = "open" => pc[c] \in {"receiving", "locking", "executing"}
                        /\ pc[c] \in {"locking", "executing"} => live'[c] # "none"
                        /\ live'[c] = "closed" /\ pc[c] # "over" => IdOf(c) \in reaped'
      BY <1>0 DEF HandlersOwnSessions, IdOf
    <2> QED
      BY <1>0, <1>1 DEF ServerInv, HandlersOwnSessions
  <1>5. TableNamesItsSessions'
    BY <1>0, SmallerTable DEF ServerInv
  <1>6. RegularAreListed'
    <2> SUFFICES ASSUME NEW c \in Conns, IdOf(c) \notin reaped', live'[c] = "open"
                 PROVE  IdOf(c) \in DOMAIN sessions' /\ sessions'[IdOf(c)] = c
      BY DEF RegularAreListed, Regular, IdOf
    <2>1. c \notin gone /\ live[c] = "open" /\ IdOf(c) \notin reaped
      BY <1>0, <1>1
    <2>2. IdOf(c) \in DOMAIN sessions /\ sessions[IdOf(c)] = c
      BY <2>1 DEF ServerInv, RegularAreListed, Regular
    <2> QED
      BY <1>0, <2>1, <2>2
  <1>7. CachesMatch'
    <2> SUFFICES ASSUME NEW c \in Conns, live'[c] # "closed"
                 PROVE  cached'[c] = seen'[c] /\ intact'[c]
      BY DEF CachesMatch
    <2>1. c \notin gone /\ live[c] # "closed"
      BY <1>1
    <2>2. cached[c] = seen[c] /\ intact[c]
      BY <2>1 DEF ServerInv, CachesMatch
    <2>3. intact'[c]
      BY <1>1, <2>1, <2>2
    <2> QED
      BY <1>1, <2>1, <2>2, <2>3
  <1> QED
    BY <1>2, <1>3, <1>4, <1>5, <1>6, <1>7 DEF ServerInv

\* The steps that touch neither a session nor the table of sessions.
LEMMA OthersKeep ==
  ASSUME ServerInv,
         (\E c \in Conns : ReapTell(c) \/ Disconnect(c)) \/ TimePasses \/ UNCHANGED vars
  PROVE  ServerInv'
  <1> USE DEF session, exec, tables, reaper, vars
  <1> DEFINE Quiet ==
        /\ UNCHANGED <<pc, live, seen, cached, request, intact, lock, sessions, reaped>>
        /\ wire' \in [Conns -> BOOLEAN] /\ reaping' \subseteq reaping
        /\ stale' \subseteq Conns /\ expired' \subseteq Sids
        /\ DOMAIN connections' \subseteq DOMAIN connections
        /\ \A i \in DOMAIN connections' : connections'[i] = connections[i]
  <1>0. /\ wire \in [Conns -> BOOLEAN] /\ stale \subseteq Conns /\ expired \subseteq Sids
        /\ \A i \in DOMAIN connections : connections[i] \in Conns
    BY DEF ServerInv, TypeOK
  <1>1. Quiet
    <2>1. ASSUME NEW c \in Conns, ReapTell(c) PROVE Quiet
      <3>1. CASE IdOf(c) \in DOMAIN connections
        <4>1. connections[IdOf(c)] \in Conns
          BY <1>0, <3>1
        <4>2. wire' = [wire EXCEPT ![connections[IdOf(c)]] = FALSE]
              /\ connections' = Without(connections, IdOf(c))
          BY <2>1, <3>1 DEF ReapTell
        <4>3. wire' \in [Conns -> BOOLEAN]
          BY <1>0, <4>1, <4>2
        <4>4. /\ DOMAIN connections' \subseteq DOMAIN connections
              /\ \A i \in DOMAIN connections' : connections'[i] = connections[i]
          BY <4>2 DEF Without
        <4> QED
          BY <1>0, <2>1, <4>3, <4>4 DEF ReapTell
      <3>2. CASE IdOf(c) \notin DOMAIN connections
        BY <1>0, <2>1, <3>2 DEF ReapTell
      <3> QED BY <3>1, <3>2
    <2>2. ASSUME NEW c \in Conns, Disconnect(c) PROVE Quiet
      BY <1>0, <2>2 DEF Disconnect
    <2>3. CASE TimePasses
      BY <1>0, <2>3 DEF TimePasses
    <2>4. CASE UNCHANGED vars
      BY <1>0, <2>4
    <2> QED BY <2>1, <2>2, <2>3, <2>4
  <1>2. TypeOK'
    BY <1>1 DEF ServerInv, TypeOK
  <1>3. RequestsFit' /\ LockIsHeld' /\ HandlersOwnSessions'
    BY <1>1 DEF ServerInv, RequestsFit, LockIsHeld, HandlersOwnSessions, IdOf
  <1>4. TableNamesItsSessions' /\ RegularAreListed' /\ CachesMatch'
    BY <1>1 DEF ServerInv, TableNamesItsSessions, RegularAreListed, CachesMatch, Regular, IdOf
  <1> QED
    BY <1>2, <1>3, <1>4 DEF ServerInv

-----------------------------------------------------------------------------
(***************************************************************************)
(* The theorems                                                            *)
(***************************************************************************)

LEMMA NextServerInv == ServerInv /\ [Next]_vars => ServerInv'
  <1> SUFFICES ASSUME ServerInv, [Next]_vars PROVE ServerInv'
    OBVIOUS
  <1>1. ASSUME NEW c \in Conns, Upgrade(c) \/ Message(c) PROVE ServerInv'
    BY <1>1, UpgradeKeeps, OpenKeeps, LeaveKeeps, TouchKeeps, ExecuteKeeps DEF Message
  <1>2. ASSUME NEW c \in Conns, ServerStep(c) PROVE ServerInv'
    BY <1>2, AcquireKeeps, ExecutedKeeps, OthersKeep, LeaveKeeps DEF ServerStep
  <1>3. ASSUME NEW c \in Conns, Disconnect(c) PROVE ServerInv'
    BY <1>3, OthersKeep
  <1>4. CASE Reap
    BY <1>4, ReapKeeps
  <1>5. CASE TimePasses \/ UNCHANGED vars
    BY <1>5, OthersKeep
  <1> QED
    BY <1>1, <1>2, <1>3, <1>4, <1>5 DEF Next

LEMMA ServerInvHolds == Spec => []ServerInv
  BY InitServerInv, NextServerInv, PTL DEF Spec

\* The open sessions of ids that were not reaped are in the table, so there are
\* no more of them than its entries.
LEMMA OpenFitTheTable ==
  ASSUME ServerInv
  PROVE  Cardinality({c \in Regular : live[c] = "open"}) <= MaxSessions
  <1> DEFINE open == {c \in Regular : live[c] = "open"}
             id == [c \in open |-> IdOf(c)]
  <1>1. IsFiniteSet(DOMAIN sessions) /\ Cardinality(DOMAIN sessions) \in Nat
    BY FS_CardinalityType DEF ServerInv, TableNamesItsSessions
  <1>2. \A c \in open : IdOf(c) \in DOMAIN sessions /\ sessions[IdOf(c)] = c
    BY DEF ServerInv, RegularAreListed
  <1>3. id \in Injection(open, DOMAIN sessions)
    <2>1. id \in [open -> DOMAIN sessions]
      BY <1>2
    <2>2. \A a, b \in open : id[a] = id[b] => a = b
      BY <1>2
    <2> QED
      BY <2>1, <2>2, Fun_IsInj
  <1>4. IsFiniteSet(open) /\ Cardinality(open) <= Cardinality(DOMAIN sessions)
    BY <1>1, <1>3, FS_Injection
  <1>5. Cardinality(open) \in Nat
    BY <1>4, FS_CardinalityType
  <1> QED
    BY <1>1, <1>4, <1>5, ServerAssumption DEF ServerInv, TableNamesItsSessions

\* The manager counts the sessions there are: at most max_sessions are open,
\* each listed under its id, for every choice of connections and tokens, with
\* sids that were reaped left aside (session.py, SessionManager).
THEOREM ServerCountsSessions == Spec => []SessionsAreCounted
  <1>1. ServerInv => SessionsAreCounted
    BY OpenFitTheTable DEF ServerInv, RegularAreListed, SessionsAreCounted
  <1> QED
    BY <1>1, ServerInvHolds, PTL

\* An open session that is between requests has in its cache exactly what it
\* says it has seen, whatever was refused, failed or reaped on the way
\* (session.py, Session.prefill and decode; model.py, PartialDecoder.run).
THEOREM ServerCacheFollowsSeen == Spec => []CacheFollowsSeen
  <1>1. ServerInv => CacheFollowsSeen
    BY DEF ServerInv, CachesMatch, CacheFollowsSeen
  <1> QED
    BY <1>1, ServerInvHolds, PTL

\* That "the same `sid` cannot be open twice" (ws.py:7) holds as
\* long as none of its sessions was reaped; run ServerSid shows why not after.
THEOREM RegularSidsOpenOnce ==
  Spec => [](\A c, d \in Regular :
               live[c] = "open" /\ live[d] = "open" /\ IdOf(c) = IdOf(d) => c = d)
  <1>1. ServerInv => (\A c, d \in Regular :
               live[c] = "open" /\ live[d] = "open" /\ IdOf(c) = IdOf(d) => c = d)
    BY DEF ServerInv, RegularAreListed
  <1> QED
    BY <1>1, ServerInvHolds, PTL

-----------------------------------------------------------------------------
(***************************************************************************)
(* Whose connection the reaper cuts                                        *)
(***************************************************************************)

\* The tables list connections that have had a session, the connections table
\* under their own ids, and every open one that has its id to itself; what is
\* being reaped is closed.
ConnectionsNameTheirs ==
  /\ \A c \in reaping : live[c] = "closed"
  /\ \A i \in DOMAIN sessions : live[sessions[i]] # "none"
  /\ \A c \in Conns : live[c] # "none" => pc[c] # "connecting"
  /\ \A i \in DOMAIN connections :
       IdOf(connections[i]) = i /\ live[connections[i]] # "none"
  /\ \A c \in Conns : Alone(c) /\ live[c] # "none" /\ wire[c] =>
       IdOf(c) \in DOMAIN connections /\ connections[IdOf(c)] = c

\* What a step that opens no session may do: close sessions, drop entries whose
\* connection is closed by it or has not its id to itself, close connections.
Winds ==
  /\ \A c \in Conns : live'[c] = "none" <=> live[c] = "none"
  /\ \A c \in reaping' : live'[c] = "closed"
  /\ \A c \in Conns : live[c] # "none" => pc'[c] # "connecting" /\ (wire'[c] => wire[c])
  /\ DOMAIN sessions' \subseteq DOMAIN sessions
  /\ \A i \in DOMAIN sessions' : sessions'[i] = sessions[i]
  /\ DOMAIN connections' \subseteq DOMAIN connections
  /\ \A i \in DOMAIN connections' : connections'[i] = connections[i]
  /\ \A c \in Conns :
       Alone(c) /\ live[c] # "none" /\ wire'[c] /\ IdOf(c) \in DOMAIN connections
         => IdOf(c) \in DOMAIN connections'

LEMMA WindsKeeps ==
  ASSUME TypeOK, ConnectionsNameTheirs, Winds
  PROVE  ConnectionsNameTheirs'
  <1>1. \A c \in Conns : Alone(c)' <=> Alone(c)
    BY DEF Alone, Winds, IdOf
  <1>2. \A i \in DOMAIN connections' :
          IdOf(connections'[i]) = i /\ live'[connections'[i]] # "none"
    BY DEF TypeOK, ConnectionsNameTheirs, Winds
  <1>3. \A c \in Conns : Alone(c)' /\ live'[c] # "none" /\ wire'[c] =>
          IdOf(c) \in DOMAIN connections' /\ connections'[IdOf(c)] = c
    BY <1>1 DEF ConnectionsNameTheirs, Winds
  <1>4. \A i \in DOMAIN sessions' : live'[sessions'[i]] # "none"
    BY DEF TypeOK, ConnectionsNameTheirs, Winds
  <1> QED
    BY <1>2, <1>3, <1>4 DEF ConnectionsNameTheirs, Winds, IdOf

\* The end of a handler clears the entry of its own session, whose socket it
\* closes, or one of a connection that shares the id.
LEMMA FinallyWinds ==
  ASSUME TypeOK, ConnectionsNameTheirs, NEW c \in Conns, Finally(c), UNCHANGED reaping
  PROVE  Winds
  <1>0. /\ pc' = [pc EXCEPT ![c] = "over"] /\ wire' = [wire EXCEPT ![c] = FALSE]
        /\ pc \in [Conns -> {"connecting", "receiving", "locking", "executing", "over"}]
        /\ wire \in [Conns -> BOOLEAN]
        /\ live \in [Conns -> {"none", "open", "closed"}]
        /\ reaping \subseteq Conns
    BY DEF Finally, Goto, TypeOK
  <1>1. CASE live[c] = "none"
    BY <1>0, <1>1 DEF Finally, tables, Winds, ConnectionsNameTheirs
  <1>2. CASE live[c] # "none"
    <2>1. /\ live' = [d \in Conns |-> IF d \in {c} THEN "closed" ELSE live[d]]
          /\ connections' = Without(connections, IdOf(c))
          /\ sessions' = Without(sessions, IdOf(c))
      BY <1>2 DEF Finally, CloseSessions
    <2>2. /\ DOMAIN connections' = DOMAIN connections \ {IdOf(c)}
          /\ \A i \in DOMAIN connections \ {IdOf(c)} : connections'[i] = connections[i]
          /\ DOMAIN sessions' \subseteq DOMAIN sessions
          /\ \A i \in DOMAIN sessions' : sessions'[i] = sessions[i]
      BY <2>1 DEF Without
    <2>3. \A d \in Conns : Alone(d) /\ IdOf(d) = IdOf(c) => d = c
      BY <1>2 DEF Alone
    <2> QED
      BY <1>0, <1>2, <2>1, <2>2, <2>3 DEF Winds, ConnectionsNameTheirs
  <1> QED BY <1>1, <1>2

LEMMA OpenNames ==
  ASSUME TypeOK, ConnectionsNameTheirs, NEW c \in Conns, Open(c)
  PROVE  ConnectionsNameTheirs'
  <1>0. /\ live \in [Conns -> {"none", "open", "closed"}]
        /\ live' = [live EXCEPT ![c] = "open"] /\ live[c] = "none" /\ pc[c] = "receiving"
        /\ UNCHANGED <<pc, wire, reaping>> /\ reaping \subseteq Conns
        /\ \A i \in DOMAIN connections : connections[i] \in Conns
    BY DEF Open, Receives, reaper, TypeOK
  <1>1. /\ DOMAIN connections' = DOMAIN connections \cup {IdOf(c)}
        /\ connections'[IdOf(c)] = c
        /\ \A i \in DOMAIN connections \ {IdOf(c)} : connections'[i] = connections[i]
    BY DEF Open, With
  <1>7. /\ DOMAIN sessions' = DOMAIN sessions \cup {IdOf(c)}
        /\ sessions'[IdOf(c)] = c
        /\ \A i \in DOMAIN sessions \ {IdOf(c)} : sessions'[i] = sessions[i]
    BY DEF Open, With
  <1>8. \A i \in DOMAIN sessions' : live'[sessions'[i]] # "none"
    BY <1>0, <1>7 DEF ConnectionsNameTheirs, TypeOK
  <1>2. \A d \in Conns \ {c} : Alone(d)' => IdOf(d) # IdOf(c) /\ Alone(d)
    BY <1>0 DEF Alone, IdOf
  <1>3. \A i \in DOMAIN connections' :
          IdOf(connections'[i]) = i /\ live'[connections'[i]] # "none"
    BY <1>0, <1>1 DEF ConnectionsNameTheirs
  <1>4. \A d \in Conns : Alone(d)' /\ live'[d] # "none" /\ wire'[d] =>
          IdOf(d) \in DOMAIN connections' /\ connections'[IdOf(d)] = d
    BY <1>0, <1>1, <1>2 DEF ConnectionsNameTheirs
  <1>5. \A d \in reaping' : live'[d] = "closed"
    BY <1>0 DEF ConnectionsNameTheirs
  <1>6. \A d \in Conns : live'[d] # "none" => pc'[d] # "connecting"
    BY <1>0 DEF ConnectionsNameTheirs
  <1> QED
    BY <1>3, <1>4, <1>5, <1>6, <1>8 DEF ConnectionsNameTheirs, IdOf

\* The entry under the id of a reaped session is its own connection's, unless
\* the id has had another session.
LEMMA TellWinds ==
  ASSUME TypeOK, ConnectionsNameTheirs, NEW c \in Conns, ReapTell(c)
  PROVE  /\ Winds
         /\ \A d \in Conns : wire'[d] # wire[d] => IdOf(d) = IdOf(c)
         /\ Alone(c) => ~wire'[c] /\ \A d \in Conns \ {c} : wire'[d] = wire[d]
  <1>0. /\ wire \in [Conns -> BOOLEAN] /\ c \in reaping /\ live[c] = "closed"
        /\ reaping' = reaping \ {c} /\ UNCHANGED <<pc, live, sessions>>
        /\ \A i \in DOMAIN connections : connections[i] \in Conns
    BY DEF ReapTell, session, TypeOK, ConnectionsNameTheirs
  <1>1. CASE IdOf(c) \in DOMAIN connections
    <2> DEFINE listed == connections[IdOf(c)]
    <2>1. /\ wire' = [wire EXCEPT ![listed] = FALSE]
          /\ connections' = Without(connections, IdOf(c))
      BY <1>1 DEF ReapTell
    <2>2. /\ DOMAIN connections' = DOMAIN connections \ {IdOf(c)}
          /\ \A i \in DOMAIN connections \ {IdOf(c)} : connections'[i] = connections[i]
      BY <2>1 DEF Without
    <2>3. listed \in Conns /\ IdOf(listed) = IdOf(c) /\ live[listed] # "none"
      BY <1>0, <1>1 DEF ConnectionsNameTheirs
    <2>4. \A d \in Conns : Alone(d) /\ IdOf(d) = IdOf(c) => d = c /\ d = listed
      BY <1>0, <2>3 DEF Alone
    <2> QED
      BY <1>0, <2>1, <2>2, <2>3, <2>4 DEF Winds, ConnectionsNameTheirs
  <1>2. CASE IdOf(c) \notin DOMAIN connections
    <2>1. UNCHANGED <<wire, connections>>
      BY <1>2 DEF ReapTell
    <2> QED
      BY <1>0, <1>2, <2>1 DEF Winds, ConnectionsNameTheirs
  <1> QED BY <1>1, <1>2

LEMMA RestWinds ==
  ASSUME ServerInv, ConnectionsNameTheirs,
         \/ \E c \in Conns : \/ Upgrade(c) \/ RefuseOpen(c) \/ Touch(c) \/ Leave(c)
                             \/ (\E r \in Requests(c) : Execute(c, r))
                             \/ Acquire(c) \/ Executed(c) \/ ExecutionFails(c)
                             \/ Disconnect(c)
         \/ Reap \/ TimePasses \/ UNCHANGED vars
  PROVE  Winds /\ \A c \in reaping : c \in reaping' \/ Reap
  <1> USE DEF session, exec, tables, reaper
  <1>0. /\ TypeOK
        /\ pc \in [Conns -> {"connecting", "receiving", "locking", "executing", "over"}]
        /\ wire \in [Conns -> BOOLEAN]
        /\ live \in [Conns -> {"none", "open", "closed"}]
        /\ reaping \subseteq Conns
    BY DEF ServerInv, TypeOK
  <1>1. ASSUME NEW c \in Conns, Upgrade(c) PROVE Winds /\ UNCHANGED reaping
    BY <1>0, <1>1 DEF Upgrade, Goto, Winds, ConnectionsNameTheirs
  <1>2. ASSUME NEW c \in Conns, Finally(c), UNCHANGED reaping PROVE Winds
    BY <1>0, <1>2, FinallyWinds
  <1>3. ASSUME NEW c \in Conns,
               \/ RefuseOpen(c) \/ Touch(c) \/ Leave(c) \/ Disconnect(c)
               \/ \E r \in Requests(c) : Execute(c, r)
        PROVE  Winds /\ UNCHANGED reaping
    <2>1. UNCHANGED reaping
      BY <1>3 DEF RefuseOpen, Touch, Leave, Disconnect, Execute
    <2>2. \/ Finally(c)
          \/ /\ UNCHANGED <<live, sessions, connections, reaping>>
             /\ \A d \in Conns : wire'[d] => wire[d]
             /\ \A d \in Conns : pc'[d] = "connecting" => pc[d] = "connecting"
      BY <1>0, <1>3 DEF RefuseOpen, Touch, Leave, Disconnect, Execute, Goto
    <2> QED
      BY <1>0, <1>2, <2>1, <2>2 DEF Winds, ConnectionsNameTheirs
  <1>4. ASSUME NEW c \in Conns, Acquire(c) \/ Executed(c) \/ ExecutionFails(c)
        PROVE  Winds /\ UNCHANGED reaping
    <2>1. UNCHANGED reaping
      BY <1>4 DEF Acquire, Executed, ExecutionFails
    <2>2. \/ Finally(c)
          \/ /\ UNCHANGED <<live, sessions, connections, reaping, wire>>
             /\ \A d \in Conns : pc'[d] = "connecting" => pc[d] = "connecting"
      BY <1>0, <1>4 DEF Acquire, Executed, ExecutionFails, Goto
    <2> QED
      BY <1>0, <1>2, <2>1, <2>2 DEF Winds, ConnectionsNameTheirs
  <1>5. CASE Reap
    <2>1. Idle \subseteq Conns /\ \A d \in Idle : live[d] # "none"
      BY <1>0 DEF Idle, TypeOK, ConnectionsNameTheirs
    <2>2. /\ live' = [d \in Conns |-> IF d \in Idle THEN "closed" ELSE live[d]]
          /\ reaping' = Idle /\ UNCHANGED <<pc, wire, connections>>
          /\ DOMAIN sessions' \subseteq DOMAIN sessions
          /\ \A i \in DOMAIN sessions' : sessions'[i] = sessions[i]
      BY <1>5 DEF Reap, CloseSessions
    <2> QED
      BY <1>0, <1>5, <2>1, <2>2 DEF Winds, ConnectionsNameTheirs
  <1>6. CASE TimePasses \/ UNCHANGED vars
    BY <1>0, <1>6 DEF TimePasses, vars, Winds, ConnectionsNameTheirs
  <1> QED
    BY <1>1, <1>3, <1>4, <1>5, <1>6

\* When the reaper is through with a session it has closed, the session's own
\* socket is closed and nobody else's was touched, unless another connection has
\* had a session under the same id; what was cut then has that id too (ws.py,
\* _reap_loop and the handler's finally).
THEOREM ReaperCutsOwnConnection == Spec => ReaperCutsItsOwn
  <1> DEFINE Told ==
        \A c \in reaping \ reaping' :
          /\ \A d \in Conns : wire'[d] # wire[d] => IdOf(d) = IdOf(c)
          /\ Alone(c) => ~wire'[c] /\ \A d \in Conns \ {c} : wire'[d] = wire[d]
  <1>1. Init => ConnectionsNameTheirs
    <2> SUFFICES ASSUME Init PROVE ConnectionsNameTheirs
      OBVIOUS
    <2>1. DOMAIN sessions = {} /\ DOMAIN connections = {} /\ reaping = {}
      BY DEF Init
    <2> QED
      BY <2>1 DEF Init, ConnectionsNameTheirs
  <1>2. ServerInv /\ ConnectionsNameTheirs /\ [Next]_vars
          => ConnectionsNameTheirs' /\ [Told]_vars
    <2> SUFFICES ASSUME ServerInv, ConnectionsNameTheirs, [Next]_vars
                 PROVE  ConnectionsNameTheirs' /\ Told
      OBVIOUS
    <2>0. TypeOK
      BY DEF ServerInv
    <2>1. ASSUME NEW c \in Conns, Open(c) PROVE ConnectionsNameTheirs' /\ Told
      BY <2>0, <2>1, OpenNames DEF Open, reaper
    <2>2. ASSUME NEW c \in Conns, ReapTell(c) PROVE ConnectionsNameTheirs' /\ Told
      <3>1. reaping' = reaping \ {c}
        BY <2>2 DEF ReapTell
      <3>2. /\ Winds
            /\ \A d \in Conns : wire'[d] # wire[d] => IdOf(d) = IdOf(c)
            /\ Alone(c) => ~wire'[c] /\ \A d \in Conns \ {c} : wire'[d] = wire[d]
        BY <2>0, <2>2, TellWinds
      <3>3. \A d \in reaping \ reaping' : d = c
        BY <3>1
      <3> QED
        BY <2>0, <3>2, <3>3, WindsKeeps
    <2>3. ASSUME \/ \E c \in Conns : \/ Upgrade(c) \/ RefuseOpen(c) \/ Touch(c) \/ Leave(c)
                                     \/ (\E r \in Requests(c) : Execute(c, r))
                                     \/ Acquire(c) \/ Executed(c) \/ ExecutionFails(c)
                                     \/ Disconnect(c)
                 \/ Reap \/ TimePasses \/ UNCHANGED vars
          PROVE  ConnectionsNameTheirs' /\ Told
      <3>1. Winds /\ \A c \in reaping : c \in reaping' \/ Reap
        BY <2>3, RestWinds
      <3>2. Reap => reaping = {}
        BY DEF Reap
      <3>3. Told
        BY <3>1, <3>2
      <3> QED
        BY <2>0, <3>1, <3>3, WindsKeeps
    <2> QED
      BY <2>1, <2>2, <2>3 DEF Next, Message, ServerStep
  <1> QED
    BY <1>1, <1>2, ServerInvHolds, PTL DEF Spec, ReaperCutsItsOwn
=============================================================================
