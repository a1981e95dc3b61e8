---------------------------- MODULE ControlPlane ----------------------------
(***************************************************************************)
(* packages/worker/src: API keys, usage metering, rate limits and session  *)
(* tokens, over a key-value store without transactions.                    *)
(*                                                                         *)
(* Each request is a process whose steps are the store's gets and puts; the*)
(* requests interleave between them, and any get or put may throw. A put   *)
(* that throws may have taken effect. The store itself (Workers KV) is     *)
(* external and "eventually consistent" (metering.ts): the last put of a   *)
(* name is its value, and until it has reached every location a get may    *)
(* return an earlier one. A request's gets do not go behind one another: a *)
(* record it has found it finds again.                                     *)
(*                                                                         *)
(* A key, its hash and its id are one name; a record keeps its owner and   *)
(* whether it is revoked; a usage bucket counts the reports put into it.   *)
(***************************************************************************)
EXTENDS Integers, FiniteSets

CONSTANTS
  KeyIds,            \* ids a key may get
  FirstKey,          \* the key that exists at the start, its own owner
  NoKey,             \* "the request carries no bearer"
  Requests,          \* 1..n: requests, in the order they arrive
  Ops,               \* operations the requests may ask for
  Limit,             \* every rate limit (10, 60 and 600 in the code)
  WriteAttempts,     \* WRITE_ATTEMPTS, metering.ts
  MaxFaults          \* bound: gets and puts that throw, puts that arrive late

ASSUME ControlAssumption ==
  /\ FirstKey \in KeyIds /\ NoKey \notin KeyIds
  /\ IsFiniteSet(Requests)
  /\ Ops \subseteq {"open", "owned", "list", "revoke", "session", "report"}
  /\ Limit \in Nat

VARIABLES
  kv,                \* name -> the value put last, as <<value>>, or <<>> when absent
  old,               \* name -> earlier values, which some location still returns
  req,               \* the requests' progress
  faults,            \* gets and puts that threw, puts that arrived late
  tally              \* history: who was told what, and what the properties count

cpVars == <<kv, old, req, faults, tally>>

-----------------------------------------------------------------------------
(* Names in the store ("KV layout", keys.ts) and what is kept under them.  *)

Record(id)  == <<"key", id>>       \* key:<hash>, with keyid:<id> leading to it
IdEntry(id) == <<"keyid", id>>
Owner(o)    == <<"owner", o>>      \* ids of the owner's keys
Counter(op) == <<"rl", op>>        \* rl:keys:..., rl:split:..., rl:...
Bucket(id)  == <<"usage", id>>     \* usage:<id>:<hour>

Names == {"key", "keyid", "owner", "usage"} \X KeyIds
           \cup {"rl"} \X {"open", "session", "report"}

Or(value, default) == IF value = <<>> THEN default ELSE value[1]

\* What a get may return.
Gets(name) == {kv[name]} \cup old[name]

\* lookupKeyById: two gets; the first names the record, and an id's entry never
\* changes once written, so only the second is a step that others can precede.
LookupKeyById(id) == Gets(Record(id)) \cup (IF <<>> \in Gets(IdEntry(id)) THEN {<<>>} ELSE {})

\* An owner does not change: every record of a key has the same.
OwnerOf(id) == Or(kv[Record(id)], {}).owner

Idle == [op |-> "none", key |-> NoKey, id |-> NoKey, at |-> "idle", seen |-> <<>>,
         tries |-> 0, status |-> 0, out |-> {}, gone |-> {}, made |-> {}]

CPInit ==
  /\ kv = [n \in Names |->
             CASE n = Record(FirstKey) -> <<[owner |-> FirstKey, revoked |-> FALSE]>>
               [] n = IdEntry(FirstKey) -> <<FirstKey>>
               [] n = Owner(FirstKey) -> <<{FirstKey}>>
               [] OTHER -> <<>>]
  /\ old = [n \in Names |-> {}]
  /\ req = [r \in Requests |-> Idle]
  /\ faults = 0
  /\ tally = [raced |-> {}, accepted |-> [id \in KeyIds |-> 0],
              phantom |-> [n \in Names |-> 0], rows |-> 0,
              granted |-> [op \in {"open", "session", "report"} |-> 0],
              gone |-> {}, made |-> {FirstKey}]

-----------------------------------------------------------------------------
(* Steps of a request.                                                     *)

Goto(r, at)       == req' = [req EXCEPT ![r].at = at]
Saw(r, value, at) == req' = [req EXCEPT ![r].at = at, ![r].seen = value]
Read(r, name, at) == \E value \in Gets(name) : Saw(r, value, at)
Answer(r, status) == req' = [req EXCEPT ![r].at = "done", ![r].status = status,
                                        ![r].seen = <<>>, ![r].tries = 0]

\* A put reaches the last location that returned an earlier value.
Arrive(name) ==
  /\ \E value \in old[name] : old' = [old EXCEPT ![name] = @ \ {value}]
  /\ UNCHANGED <<kv, req, faults, tally>>

\* The keys that were handed out, and those that were revoked, everywhere.
MadeEverywhere ==
  {id \in tally.made : \A n \in {Record(id), IdEntry(id), Owner(OwnerOf(id))} : old[n] = {}}
GoneEverywhere == {id \in tally.gone : old[Record(id)] = {}}

\* route: the handler the method and path select. Every handler but the open
\* key endpoint looks at the bearer first; a report may come without one. The
\* bearer is a key somebody was handed, or an unknown one.
Start(r, op, key, id) ==
  /\ req[r].at = "idle"
  /\ \A q \in Requests : q < r => req[q].at # "idle"
  /\ op \in Ops
  /\ op = "open" => key = NoKey
  /\ key \in {NoKey} \cup tally.made \cup {k \in KeyIds : kv[Record(k)] = <<>>}
  /\ op # "revoke" => id = NoKey
  /\ req' = [req EXCEPT ![r] =
       [Idle EXCEPT !.op = op, !.key = key, !.id = id,
                    !.at = IF op = "open" THEN "limit" ELSE "auth",
                    !.gone = GoneEverywhere,
                    !.made = MadeEverywhere \cap (IF op = "list" THEN KeyIds ELSE {key, id})]]
  /\ UNCHANGED <<kv, old, faults, tally>>

\* Where a request goes once its key is accepted.
Authorized(op) ==
  CASE op = "owned" -> "keyPut"
    [] op \in {"session", "report"} -> "limit"
    [] op = "revoke" -> "find"
    [] op = "list" -> "ownerKeys"

\* Seeded fault: the record's revoked date is not looked at.
AuthenticateAnyRecord(r) ==
  /\ req[r].at = "auth"
  /\ IF req[r].key # NoKey /\ kv[Record(req[r].key)] # <<>>
     THEN Goto(r, Authorized(req[r].op))
     ELSE IF req[r].key = NoKey /\ req[r].op \in {"report", "session"}
     THEN Goto(r, "limit") ELSE Answer(r, 401)
  /\ UNCHANGED <<kv, old, faults, tally>>

\* authenticateKey, keyError, requireKey. Without a key a report is taken
\* unmetered and a session needs an allowed origin (either outcome); the other
\* handlers answer 401.
Authenticate(r) ==
  /\ req[r].at = "auth"
  /\ LET key == req[r].key
         op  == req[r].op
     IN  IF key = NoKey
         THEN \/ op \in {"report", "session"} /\ Goto(r, "limit")
              \/ op = "session" /\ Answer(r, 403)
              \/ op \notin {"report", "session"} /\ Answer(r, 401)
         ELSE \E record \in Gets(Record(key)) :
                CASE record = <<>> -> Answer(r, 401)
                  [] record # <<>> /\ record[1].revoked -> Answer(r, 403)
                  [] OTHER -> Goto(r, Authorized(op))
  /\ UNCHANGED <<kv, old, faults, tally>>

\* overLimit, overKeyLimit: the get, and the answer 429.
CheckLimit(r) ==
  /\ req[r].at = "limit"
  /\ \E count \in Gets(Counter(req[r].op)) :
       IF Or(count, 0) >= Limit THEN Answer(r, 429) ELSE Saw(r, count, "limitPut")
  /\ UNCHANGED <<kv, old, faults, tally>>

\* createKey: the owner's list is read after the two puts that name the key.
ReadOwnerList(r) ==
  /\ req[r].at = "ownerGet"
  /\ Read(r, Owner(IF req[r].op = "open" THEN req[r].id ELSE OwnerOf(req[r].id)), "ownerPut")
  /\ UNCHANGED <<kv, old, faults, tally>>

\* revokeOwnedKey: only the owner's own keys.
FindTarget(r) ==
  /\ req[r].at = "find"
  /\ \E target \in LookupKeyById(req[r].id) :
       IF target = <<>> \/ Or(target, {}).owner # OwnerOf(req[r].key)
       THEN Answer(r, 404)
       ELSE Goto(r, "revoke")
  /\ UNCHANGED <<kv, old, faults, tally>>

\* revokeKey: the record is read again; a revoked one is left as it is.
ReadTarget(r) ==
  /\ req[r].at = "revoke"
  /\ \E record \in Gets(Record(req[r].id)) \ {<<>>} :
       IF record[1].revoked
       THEN Answer(r, 200) /\ tally' = [tally EXCEPT !.gone = @ \cup {req[r].id}]
       ELSE Saw(r, record, "revokePut") /\ UNCHANGED tally
  /\ UNCHANGED <<kv, old, faults>>

\* listKeys and usage ("list"): the owner's list, with the caller's own key in
\* any case; then those with a record, or with buckets.
ReadOwnerKeys(r) ==
  /\ req[r].at = "ownerKeys"
  /\ \E ids \in Gets(Owner(OwnerOf(req[r].key))), found \in SUBSET KeyIds :
       /\ found \subseteq Or(ids, {}) \cup {req[r].key}
       /\ \A id \in Or(ids, {}) \cup {req[r].key} :
            IF id \in found THEN LookupKeyById(id) # {<<>>} ELSE <<>> \in LookupKeyById(id)
       /\ req' = [req EXCEPT ![r].at = "done", ![r].status = 200, ![r].out = found]
  /\ UNCHANGED <<kv, old, faults, tally>>

\* updateBucket: every attempt reads the bucket again.
ReadBucket(r) ==
  /\ req[r].at = "usage"
  /\ Read(r, Bucket(req[r].key), "usagePut")
  /\ UNCHANGED <<kv, old, faults, tally>>

-----------------------------------------------------------------------------
(* Puts: what is written where, and what follows when the put returns.     *)

Puts == {"limitPut", "keyPut", "idPut", "ownerPut", "revokePut", "usagePut"}

\* A fresh random id, which no one has guessed; all unused ids are alike.
Unused(id) ==
  kv[Record(id)] = <<>> /\ \A q \in Requests : id \notin {req[q].id, req[q].key}

FreshId == CHOOSE id \in KeyIds : Unused(id)

HasFreshId == \E id \in KeyIds : Unused(id)

\* The request's own key's owner, or the new id itself.
NewOwner(r, id) == IF req[r].op = "open" THEN id ELSE OwnerOf(req[r].key)

NewId(r) == IF req[r].at = "keyPut" THEN FreshId ELSE req[r].id

\* The name and the value the request's next put writes.
PutOf(r) ==
  LET me == req[r]
      id == NewId(r)
  IN  CASE me.at = "limitPut"  -> [name |-> Counter(me.op), value |-> Or(me.seen, 0) + 1]
        [] me.at = "keyPut"    -> [name  |-> Record(id),
                                   value |-> [owner |-> NewOwner(r, id), revoked |-> FALSE]]
        [] me.at = "idPut"     -> [name |-> IdEntry(id), value |-> id]
        [] me.at = "ownerPut"  -> [name  |-> Owner(OwnerOf(id)),
                                   value |-> Or(me.seen, {}) \cup {id}]
        [] me.at = "revokePut" -> [name  |-> Record(id),
                                   value |-> [me.seen[1] EXCEPT !.revoked = TRUE]]
        [] me.at = "usagePut"  -> [name |-> Bucket(me.key), value |-> Or(me.seen, 0) + 1]

\* The put overwrites something the request has not seen: an update is lost.
Overwrites(r) ==
  req[r].at \in {"limitPut", "ownerPut", "usagePut"} /\ kv[PutOf(r).name] # req[r].seen

Written(r) ==
  /\ req[r].at = "keyPut" => HasFreshId
  /\ kv' = [kv EXCEPT ![PutOf(r).name] = <<PutOf(r).value>>]

\* Some locations go on returning what was there.
Lags(r) == old' = [old EXCEPT ![PutOf(r).name] = @ \cup {kv[PutOf(r).name]}]

\* A put that returns is seen everywhere at once, or late.
Stored(r) ==
  /\ Written(r)
  /\ \/ old' = [old EXCEPT ![PutOf(r).name] = {}] /\ UNCHANGED faults
     \/ Lags(r) /\ faults < MaxFaults /\ faults' = faults + 1

Raced(r) == IF Overwrites(r) THEN {PutOf(r).name} ELSE {}

\* Under the limit: the key is created, the session's token is minted, or the
\* report's row is written (writeDataPoint) and its key metered.
PutLimit(r) ==
  /\ req[r].at = "limitPut" /\ Stored(r)
  /\ CASE req[r].op = "open" -> Goto(r, "keyPut")
       [] req[r].op = "session" -> Answer(r, 200)
       [] req[r].op = "report" -> IF req[r].key = NoKey THEN Answer(r, 202)
                                  ELSE Goto(r, "usage")
  /\ tally' = [tally EXCEPT !.granted[req[r].op] = @ + 1, !.raced = @ \cup Raced(r),
                            !.rows = @ + (IF req[r].op = "report" THEN 1 ELSE 0)]

\* Seeded fault: the key is handed out before the owner's list has it.
PutNewKeyUnlisted(r) ==
  \/ /\ req[r].at = "keyPut" /\ Stored(r)
     /\ req' = [req EXCEPT ![r].at = "idPut", ![r].id = FreshId]
     /\ UNCHANGED tally
  \/ /\ req[r].at = "idPut" /\ Stored(r)
     /\ Answer(r, 201)
     /\ tally' = [tally EXCEPT !.made = @ \cup {req[r].id}]

\* createKey: the record, the id's entry, the owner's list, and then 201.
PutNewKey(r) ==
  \/ /\ req[r].at = "keyPut" /\ Stored(r)
     /\ req' = [req EXCEPT ![r].at = "idPut", ![r].id = FreshId]
     /\ UNCHANGED tally
  \/ /\ req[r].at = "idPut" /\ Stored(r)
     /\ Goto(r, "ownerGet") /\ UNCHANGED tally
  \/ /\ req[r].at = "ownerPut" /\ Stored(r)
     /\ Answer(r, 201)
     /\ tally' = [tally EXCEPT !.raced = @ \cup Raced(r), !.made = @ \cup {req[r].id}]

PutRevoked(r) ==
  /\ req[r].at = "revokePut" /\ Stored(r)
  /\ Answer(r, 200)
  /\ tally' = [tally EXCEPT !.gone = @ \cup {req[r].id}]

\* recordSession, recordLoad: the bucket is written, the report is accepted.
PutBucket(r) ==
  /\ req[r].at = "usagePut" /\ Stored(r)
  /\ Answer(r, 202)
  /\ tally' = [tally EXCEPT !.accepted[req[r].key] = @ + 1, !.raced = @ \cup Raced(r)]

\* Seeded fault: the last failed attempt is swallowed and the report accepted.
SwallowFailedWrite(r) ==
  /\ req[r].at \in {"usage", "usagePut"}
  /\ faults < MaxFaults /\ faults' = faults + 1
  /\ IF req[r].tries + 1 < WriteAttempts
     THEN req' = [req EXCEPT ![r].at = "usage", ![r].tries = @ + 1] /\ UNCHANGED tally
     ELSE Answer(r, 202) /\ tally' = [tally EXCEPT !.accepted[req[r].key] = @ + 1]
  /\ UNCHANGED <<kv, old>>

\* A get or put throws. In updateBucket the next attempt starts, until the last
\* one's error is thrown; elsewhere the error reaches fetch, which answers 500.
\* A put that threw may have been stored, and may be seen at any later time.
Throws(r) ==
  /\ req[r].at \notin {"idle", "done"}
  /\ faults < MaxFaults /\ faults' = faults + 1
  /\ IF req[r].at \in {"usage", "usagePut"} /\ req[r].tries + 1 < WriteAttempts
     THEN req' = [req EXCEPT ![r].at = "usage", ![r].tries = @ + 1]
     ELSE Answer(r, 500)
  /\ \/ UNCHANGED <<kv, old, tally>>
     \/ /\ req[r].at \in Puts /\ Written(r) /\ Lags(r)
        /\ tally' = [tally EXCEPT !.phantom[PutOf(r).name] = @ + 1, !.raced = @ \cup Raced(r)]

-----------------------------------------------------------------------------
Step(r) ==
  \/ \E op \in Ops, key \in KeyIds \cup {NoKey}, id \in KeyIds \cup {NoKey} :
       Start(r, op, key, id) /\ (op = "revoke" => id # NoKey)
  \/ Authenticate(r) \/ CheckLimit(r) \/ ReadOwnerList(r)
  \/ FindTarget(r) \/ ReadTarget(r) \/ ReadOwnerKeys(r) \/ ReadBucket(r)
  \/ PutLimit(r) \/ PutNewKey(r) \/ PutRevoked(r) \/ PutBucket(r)
  \/ Throws(r)

CPNext == (\E r \in Requests : Step(r)) \/ \E name \in Names : Arrive(name)

CPSpec == CPInit /\ [][CPNext]_cpVars

-----------------------------------------------------------------------------
\* A counter counts what it stands for as long as no put overwrote one its
\* request had not seen ("the last write wins on a race", metering.ts): the
\* bucket of a key holds its accepted reports and the puts that only seemed to
\* fail, "never a silent miss" (telemetry.ts); and then no more than Limit
\* requests pass a limit. Every accepted report left its row, whatever raced
\* ("Analytics Engine keeps every raw row").
CountersCount ==
  /\ \A id \in KeyIds :
       Bucket(id) \notin tally.raced =>
         Or(kv[Bucket(id)], 0) = tally.accepted[id] + tally.phantom[Bucket(id)]
  /\ \A op \in DOMAIN tally.granted :
       Counter(op) \notin tally.raced => tally.granted[op] <= Limit
  /\ \A id \in KeyIds : tally.accepted[id] <= tally.rows

\* Once a key's revocation was answered and has reached every location, no
\* request that arrives later is served with it ("the caller's own key included:
\* the next session mint is refused", dashboard-api.ts; sooner than that, a
\* location may still accept it). And no request that read the key before it was
\* revoked, from however old a copy, takes the revocation back.
RevokedIsRefused ==
  /\ \A r \in Requests :
       req[r].key \in req[r].gone => req[r].at = "auth" \/ req[r].status \in {403, 500}
  /\ \A id \in tally.gone : Or(kv[Record(id)], [revoked |-> FALSE]).revoked

\* A key handed out (201) stays in the store under its two names. Where it has
\* arrived it is not unknown, as a bearer or to the owner who revokes it, and the
\* owner's list, and so the dashboard's keys and usage, names it unless a put of
\* that list overwrote one its request had not seen.
KeysAreListed ==
  /\ \A id \in tally.made : kv[IdEntry(id)] # <<>> /\ kv[Record(id)] # <<>>
  /\ \A r \in Requests :
       LET me    == req[r]
           mates == {id \in me.made : OwnerOf(id) = OwnerOf(me.key)}
       IN  me.key \in me.made =>
             /\ me.status # 401
             /\ me.id \in mates => me.status # 404
             /\ me.status = 200 /\ me.op = "list" =>
                  /\ me.key \in me.out
                  /\ Owner(OwnerOf(me.key)) \notin tally.raced => mates \subseteq me.out

\* A key is known, listed and refused as its owner was told: both.
KeysAreSound == RevokedIsRefused /\ KeysAreListed

=============================================================================
