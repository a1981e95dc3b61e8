--------------------------- MODULE FetchLoopProofs ---------------------------
(***************************************************************************)
(* Proofs about FetchLoop for any order, any pool of workers, any retry    *)
(* budget and any kind of store.                                           *)
(*                                                                         *)
(* ExactlyOnceVerified is not inductive: that a chunk is handed over once  *)
(* rests on which worker holds it, and that none is missing at the end     *)
(* rests on the loop condition of every worker. LoopInv adds those facts.  *)
(***************************************************************************)
EXTENDS FetchLoop, TLAPS

\* What a worker holds: a chunk of the order while it is busy, and some bytes
\* whenever the next step may hand them over.
Holding ==
  \A w \in Workers :
    /\ Busy(w) => item[w] \in Chunks
    /\ pc[w] \in {"cacheCheck", "check", "put", "frameCheck"} => buf[w] \in Bytes

\* The types, with the facts that keep them: the attempt counter in range and
\* a worker's chunk and bytes defined when they are used.
TypeInv == TypeOK /\ RetriesRemain /\ Holding

LEMMA InitTypeInv == Init => TypeInv
  <1> SUFFICES ASSUME Init PROVE TypeInv
    OBVIOUS
  <1> USE FetchAssumption DEF Init, Waits, FrameWaits, Bytes, Chunks
  <1>1. handed \in [Chunks -> Seq(Bytes)]
    OBVIOUS
  <1>2. cached \in [Chunks -> Bytes \cup {"absent"}]
    OBVIOUS
  <1>3. aborted \in BOOLEAN
    OBVIOUS
  <1>4. /\ nextIndex \in 1..(NumChunks + 1)
        /\ pc \in [Workers -> Waits \cup FrameWaits]
        /\ item \in [Workers -> 0..NumChunks]
        /\ attempt \in [Workers -> 1..(Retries + 1)]
        /\ buf \in [Workers -> Bytes \cup {"none"}]
        /\ source \in [Workers -> {"network", "cache"}]
        /\ RetriesRemain
    BY DEF RetriesRemain
  <1> QED
    BY <1>1, <1>2, <1>3, <1>4 DEF TypeInv, TypeOK, Holding, Busy

-----------------------------------------------------------------------------
(***************************************************************************)
(* The shared pieces of the actions                                        *)
(***************************************************************************)

\* Worker w goes to one of the waits in P, the others stay where they are.
Moves(w, P) == \E p \in P : pc' = [pc EXCEPT ![w] = p]

\* The part of the types that the shared pieces of the actions touch.
SignalType == failure \in {"none", "error", "aborted"} /\ aborted \in BOOLEAN

LEMMA ThrowMoves ==
  ASSUME NEW w \in Workers, SignalType, Throw(w)
  PROVE  Moves(w, {"stopped"}) /\ SignalType'
  BY DEF SignalType, Throw, Goto, Moves

LEMMA RetryOrThrowMoves ==
  ASSUME NEW w \in Workers, NEW wait, SignalType, TypeOK, RetryOrThrow(w, wait)
  PROVE  /\ SignalType'
         /\ \/ Moves(w, {"stopped"})
            \/ Moves(w, {wait}) /\ attempt[w] <= Retries
  <1>1. CASE aborted \/ attempt[w] > Retries
    BY <1>1, ThrowMoves DEF RetryOrThrow
  <1>2. CASE ~(aborted \/ attempt[w] > Retries)
    BY <1>2, FetchAssumption DEF RetryOrThrow, Goto, Moves, SignalType, TypeOK
  <1> QED BY <1>1, <1>2

LEMMA StartRequestMoves ==
  ASSUME NEW w \in Workers, NEW wait, SignalType, StartRequest(w, wait)
  PROVE  /\ SignalType'
         /\ \/ Moves(w, {"stopped"}) /\ aborted
            \/ Moves(w, {wait}) /\ ~aborted
  <1>1. CASE aborted
    BY <1>1, ThrowMoves DEF StartRequest
  <1>2. CASE ~aborted
    BY <1>2 DEF StartRequest, Goto, Moves, SignalType
  <1> QED BY <1>1, <1>2

LEMMA FinishMoves ==
  ASSUME NEW w \in Workers, Finish(w), TypeInv, Busy(w), buf[w] \in Bytes
  PROVE  Moves(w, {"idle"}) /\ handed' \in [Chunks -> Seq(Bytes)]
  BY DEF Finish, Goto, Moves, TypeInv, TypeOK, Holding

\* A step that moves one worker and keeps what that worker needs keeps the
\* control part of the invariant.
LEMMA ControlKept ==
  ASSUME TypeInv, NEW w \in Workers, NEW p \in Waits \cup FrameWaits,
         pc' = [pc EXCEPT ![w] = p],
         \A v \in Workers \ {w} :
           item'[v] = item[v] /\ attempt'[v] = attempt[v] /\ buf'[v] = buf[v],
         p \notin {"idle", "stopped"} => item'[w] \in Chunks,
         p \in {"backoff", "frameBackoff"} => attempt'[w] <= Retries,
         p \in {"cacheCheck", "check", "put", "frameCheck"} => buf'[w] \in Bytes
  PROVE  /\ pc' \in [Workers -> Waits \cup FrameWaits]
         /\ RetriesRemain'
         /\ Holding'
  BY DEF TypeInv, TypeOK, RetriesRemain, Holding, Busy

-----------------------------------------------------------------------------
(***************************************************************************)
(* Type correctness                                                        *)
(***************************************************************************)

LEMMA NextTypeInv == TypeInv /\ [Next]_vars => TypeInv'
  <1> SUFFICES ASSUME TypeInv, [Next]_vars PROVE TypeInv'
    OBVIOUS
  <1>0. SignalType /\ TypeOK /\ Holding
    BY DEF TypeInv, TypeOK, SignalType
  <1>b. badReplies \in [Chunks -> Nat]
    BY DEF TypeInv, TypeOK
  <1>c. buf \in [Workers -> Bytes \cup {"none"}]
    BY DEF TypeInv, TypeOK
  <1>1. ASSUME NEW w \in Workers, Take(w) PROVE TypeInv'
    <2>1. PICK p \in {"request", "frameFetch", "cacheGet"} : pc' = [pc EXCEPT ![w] = p]
      BY <1>1 DEF Take, Goto, TypeInv, TypeOK
    <2>2. /\ item' \in [Workers -> 0..NumChunks] /\ item'[w] \in Chunks
          /\ nextIndex' \in 1..(NumChunks + 1)
          /\ attempt' \in [Workers -> 1..(Retries + 1)]
          /\ buf' \in [Workers -> Bytes \cup {"none"}]
          /\ source' \in [Workers -> {"network", "cache"}]
      BY <1>1, FetchAssumption DEF Take, LoopGoesOn, TypeInv, TypeOK, Chunks
    <2>3. evictedOnce' \in [Workers -> BOOLEAN]
      BY <1>1 DEF Take, TypeInv, TypeOK
    <2>4. pc' \in [Workers -> Waits \cup FrameWaits] /\ RetriesRemain' /\ Holding'
      BY <1>1, <2>1, <2>2, ControlKept DEF Take, TypeInv, TypeOK, Waits, FrameWaits
    <2> QED
      BY <1>1, <2>2, <2>3, <2>4 DEF Take, TypeInv, TypeOK, sharedVars, historyVars
  <1>2. ASSUME NEW w \in Workers, Stop(w) PROVE TypeInv'
    <2>1. Moves(w, {"stopped"})
      BY <1>2 DEF Stop, Goto, Moves
    <2>2. pc' \in [Workers -> Waits \cup FrameWaits] /\ RetriesRemain' /\ Holding'
      BY <1>2, <1>0, <2>1, ControlKept DEF Stop, loopVarsButPc, Moves,
         Waits, FrameWaits, Holding, Busy
    <2> QED
      BY <1>2, <2>1, <2>2 DEF Stop, loopVarsButPc, sharedVars, historyVars,
         TypeInv, TypeOK
  <1>3. ASSUME NEW w \in Workers, CacheMiss(w) PROVE TypeInv'
    <2>1. SignalType' /\ Moves(w, {"stopped", "request"})
      BY <1>3, <1>0, StartRequestMoves DEF CacheMiss, Moves
    <2>2. pc' \in [Workers -> Waits \cup FrameWaits] /\ RetriesRemain' /\ Holding'
      BY <1>3, <1>0, <2>1, ControlKept DEF CacheMiss, loopVarsButPc, Moves,
         Waits, FrameWaits, Holding, Busy
    <2> QED
      BY <1>3, <2>1, <2>2 DEF CacheMiss, loopVarsButPc, sharedVars, historyVars,
         TypeInv, TypeOK, SignalType
  <1>4. ASSUME NEW w \in Workers, CacheHit(w) PROVE TypeInv'
    <2>1. Moves(w, {"cacheCheck"})
      BY <1>4 DEF CacheHit, Goto, Moves
    <2>2. /\ buf' \in [Workers -> Bytes \cup {"none"}] /\ buf'[w] \in Bytes
          /\ \A v \in Workers \ {w} : buf'[v] = buf[v]
      BY <1>4 DEF CacheHit, TypeInv, TypeOK, Holding, Busy, Bytes
    <2>3. source' \in [Workers -> {"network", "cache"}]
      BY <1>4 DEF CacheHit, TypeInv, TypeOK, Holding, Busy, Bytes
    <2>4. pc' \in [Workers -> Waits \cup FrameWaits] /\ RetriesRemain' /\ Holding'
      BY <1>4, <1>0, <2>1, <2>2, ControlKept DEF CacheHit, loopVarsButPc, Moves,
         Waits, FrameWaits, Holding, Busy
    <2> QED
      BY <1>4, <2>1, <2>2, <2>3, <2>4 DEF CacheHit, loopVarsButPc, sharedVars, historyVars,
         TypeInv, TypeOK
  <1>5. ASSUME NEW w \in Workers, CacheVerified(w) PROVE TypeInv'
    <2>1. Moves(w, {"idle"}) /\ handed' \in [Chunks -> Seq(Bytes)]
      BY <1>5, FinishMoves DEF CacheVerified, Busy, Bytes, TypeInv, Holding
    <2>2. pc' \in [Workers -> Waits \cup FrameWaits] /\ RetriesRemain' /\ Holding'
      BY <1>5, <1>0, <2>1, ControlKept DEF CacheVerified, loopVarsButPc, Moves,
         Waits, FrameWaits, Holding, Busy
    <2> QED
      BY <1>5, <2>1, <2>2 DEF CacheVerified, loopVarsButPc, sharedVars, historyVars,
         TypeInv, TypeOK
  <1>6. ASSUME NEW w \in Workers, CacheCorrupt(w) PROVE TypeInv'
    <2>1. Moves(w, {"cacheEvict"})
      BY <1>6 DEF CacheCorrupt, Goto, Moves
    <2>2. pc' \in [Workers -> Waits \cup FrameWaits] /\ RetriesRemain' /\ Holding'
      BY <1>6, <1>0, <2>1, ControlKept DEF CacheCorrupt, loopVarsButPc, Moves,
         Waits, FrameWaits, Holding, Busy
    <2> QED
      BY <1>6, <2>1, <2>2 DEF CacheCorrupt, loopVarsButPc, sharedVars, historyVars,
         TypeInv, TypeOK
  <1>7. ASSUME NEW w \in Workers, CacheEvicted(w) PROVE TypeInv'
    <2>1. SignalType' /\ Moves(w, {"stopped", "request"})
      BY <1>7, <1>0, StartRequestMoves DEF CacheEvicted, Moves
    <2>2. cached' \in [Chunks -> Bytes \cup {"absent"}]
      BY <1>7 DEF CacheEvicted, TypeInv, TypeOK, Holding, Busy, Bytes
    <2>3. source' \in [Workers -> {"network", "cache"}]
      BY <1>7 DEF CacheEvicted, TypeInv, TypeOK, Holding, Busy, Bytes
    <2>4. pc' \in [Workers -> Waits \cup FrameWaits] /\ RetriesRemain' /\ Holding'
      BY <1>7, <1>0, <2>1, ControlKept DEF CacheEvicted, loopVarsButPc, Moves,
         Waits, FrameWaits, Holding, Busy
    <2> QED
      BY <1>7, <2>1, <2>2, <2>3, <2>4 DEF CacheEvicted, loopVarsButPc, sharedVars, historyVars,
         TypeInv, TypeOK, SignalType
  <1>8. ASSUME NEW w \in Workers, ReplyBody(w) PROVE TypeInv'
    <2>1. Moves(w, {"check"})
      BY <1>8 DEF ReplyBody, Goto, Moves
    <2>2. /\ buf' \in [Workers -> Bytes \cup {"none"}] /\ buf'[w] \in Bytes
          /\ \A v \in Workers \ {w} : buf'[v] = buf[v]
      BY <1>8 DEF ReplyBody, TypeInv, TypeOK, Holding, Busy, Bytes
    <2>3. pc' \in [Workers -> Waits \cup FrameWaits] /\ RetriesRemain' /\ Holding'
      BY <1>8, <1>0, <2>1, <2>2, ControlKept DEF ReplyBody, loopVarsButPc, Moves,
         Waits, FrameWaits, Holding, Busy
    <2> QED
      BY <1>8, <2>1, <2>2, <2>3 DEF ReplyBody, loopVarsButPc, sharedVars, historyVars,
         TypeInv, TypeOK
  <1>9. ASSUME NEW w \in Workers, ReplyBad(w) PROVE TypeInv'
    <2>1. /\ SignalType'
          /\ \/ Moves(w, {"stopped"})
             \/ Moves(w, {"backoff"}) /\ attempt[w] <= Retries
      BY <1>9, <1>0, RetryOrThrowMoves DEF ReplyBad
    <2>2. badReplies' \in [Chunks -> Nat]
      BY <1>9, <1>0, <1>b DEF ReplyBad, Holding, Busy
    <2>3. pc' \in [Workers -> Waits \cup FrameWaits] /\ RetriesRemain' /\ Holding'
      BY <1>9, <1>0, <2>1, ControlKept DEF ReplyBad, loopVarsButPc, Moves,
         Waits, FrameWaits, Holding, Busy
    <2> QED
      BY <1>9, <2>1, <2>2, <2>3 DEF ReplyBad, loopVarsButPc, sharedVars, historyVars,
         TypeInv, TypeOK, SignalType
  <1>10. ASSUME NEW w \in Workers, ReplyFatal(w) PROVE TypeInv'
    <2>1. SignalType' /\ Moves(w, {"stopped"})
      BY <1>10, <1>0, ThrowMoves DEF ReplyFatal
    <2>2. pc' \in [Workers -> Waits \cup FrameWaits] /\ RetriesRemain' /\ Holding'
      BY <1>10, <1>0, <2>1, ControlKept DEF ReplyFatal, loopVarsButPc, Moves,
         Waits, FrameWaits, Holding, Busy
    <2> QED
      BY <1>10, <2>1, <2>2 DEF ReplyFatal, loopVarsButPc, sharedVars, historyVars,
         TypeInv, TypeOK, SignalType
  <1>11. ASSUME NEW w \in Workers, RequestCancelled(w) PROVE TypeInv'
    <2>1. SignalType' /\ Moves(w, {"stopped"})
      BY <1>11, <1>0, ThrowMoves DEF RequestCancelled
    <2>2. cached' \in [Chunks -> Bytes \cup {"absent"}]
      BY <1>11 DEF RequestCancelled, TypeInv, TypeOK, Holding, Busy, Bytes
    <2>3. pc' \in [Workers -> Waits \cup FrameWaits] /\ RetriesRemain' /\ Holding'
      BY <1>11, <1>0, <2>1, ControlKept DEF RequestCancelled, loopVarsButPc, Moves,
         Waits, FrameWaits, Holding, Busy
    <2> QED
      BY <1>11, <2>1, <2>2, <2>3 DEF RequestCancelled, loopVarsButPc, sharedVars, historyVars,
         TypeInv, TypeOK, SignalType
  <1>12. ASSUME NEW w \in Workers, Verified(w) PROVE TypeInv'
    <2>1. Busy(w) /\ buf[w] \in Bytes
      BY <1>12 DEF Verified, Busy, Bytes
    <2>2. Moves(w, {"put", "idle"}) /\ handed' \in [Chunks -> Seq(Bytes)]
      <3>1. CASE storeOn
        BY <1>12, <3>1 DEF Verified, Goto, Moves, TypeInv, TypeOK
      <3>2. CASE ~storeOn
        BY <1>12, <2>1, <3>2, FinishMoves DEF Verified, Moves
      <3> QED BY <3>1, <3>2
    <2>3. pc' \in [Workers -> Waits \cup FrameWaits] /\ RetriesRemain' /\ Holding'
      BY <1>12, <2>1, <2>2, ControlKept DEF Verified, loopVarsButPc, Moves, Waits,
         TypeInv, TypeOK, Holding
    <2> QED
      BY <1>12, <2>2, <2>3 DEF Verified, loopVarsButPc, sharedVars, historyVars,
         TypeInv, TypeOK
  <1>13. ASSUME NEW w \in Workers, VerifyFailed(w) PROVE TypeInv'
    <2>1. /\ SignalType'
          /\ \/ Moves(w, {"stopped"})
             \/ Moves(w, {"backoff"}) /\ attempt[w] <= Retries
      BY <1>13, <1>0, RetryOrThrowMoves DEF VerifyFailed
    <2>2. badReplies' \in [Chunks -> Nat]
      BY <1>13, <1>0, <1>b DEF VerifyFailed, Holding, Busy
    <2>3. pc' \in [Workers -> Waits \cup FrameWaits] /\ RetriesRemain' /\ Holding'
      BY <1>13, <1>0, <2>1, ControlKept DEF VerifyFailed, loopVarsButPc, Moves,
         Waits, FrameWaits, Holding, Busy
    <2> QED
      BY <1>13, <2>1, <2>2, <2>3 DEF VerifyFailed, loopVarsButPc, sharedVars, historyVars,
         TypeInv, TypeOK, SignalType
  <1>14. ASSUME NEW w \in Workers, BackoffOver(w) PROVE TypeInv'
    <2>1. /\ SignalType'
          /\ Moves(w, {"stopped", "request", "frameFetch"})
      BY <1>14, <1>0, StartRequestMoves DEF BackoffOver, Moves
    <2>2. /\ attempt' \in [Workers -> 1..(Retries + 1)]
          /\ \A v \in Workers \ {w} : attempt'[v] = attempt[v]
      BY <1>14, FetchAssumption DEF BackoffOver, TypeInv, TypeOK, RetriesRemain
    <2>3. pc' \in [Workers -> Waits \cup FrameWaits] /\ RetriesRemain' /\ Holding'
      BY <1>14, <2>1, <2>2, ControlKept DEF BackoffOver, Moves, Waits, FrameWaits,
         TypeInv, TypeOK, Holding, Busy
    <2> QED
      BY <1>14, <2>1, <2>2, <2>3 DEF BackoffOver, historyVars, TypeInv, TypeOK,
         SignalType
  <1>15. ASSUME NEW w \in Workers, PutStored(w) PROVE TypeInv'
    <2>1. Moves(w, {"idle"}) /\ handed' \in [Chunks -> Seq(Bytes)]
      BY <1>15, FinishMoves DEF PutStored, Busy, Bytes, TypeInv, Holding
    <2>2. cached' \in [Chunks -> Bytes \cup {"absent"}]
      BY <1>15 DEF PutStored, TypeInv, TypeOK, Holding, Busy, Bytes
    <2>3. pc' \in [Workers -> Waits \cup FrameWaits] /\ RetriesRemain' /\ Holding'
      BY <1>15, <1>0, <2>1, ControlKept DEF PutStored, loopVarsButPc, Moves,
         Waits, FrameWaits, Holding, Busy
    <2> QED
      BY <1>15, <2>1, <2>2, <2>3 DEF PutStored, loopVarsButPc, sharedVars, historyVars,
         TypeInv, TypeOK
  <1>16. ASSUME NEW w \in Workers, PutFailed(w) PROVE TypeInv'
    <2>1. Moves(w, {"idle"}) /\ handed' \in [Chunks -> Seq(Bytes)]
      BY <1>16, FinishMoves DEF PutFailed, Busy, Bytes, TypeInv, Holding
    <2>2. cached' \in [Chunks -> Bytes \cup {"absent"}]
      BY <1>16 DEF PutFailed, TypeInv, TypeOK, Holding, Busy, Bytes
    <2>3. pc' \in [Workers -> Waits \cup FrameWaits] /\ RetriesRemain' /\ Holding'
      BY <1>16, <1>0, <2>1, ControlKept DEF PutFailed, loopVarsButPc, Moves,
         Waits, FrameWaits, Holding, Busy
    <2> QED
      BY <1>16, <2>1, <2>2, <2>3 DEF PutFailed, loopVarsButPc, sharedVars, historyVars,
         TypeInv, TypeOK, DisableCache
  <1>17. ASSUME NEW w \in Workers, FrameHit(w) PROVE TypeInv'
    <2>1. Moves(w, {"frameCheck"})
      BY <1>17 DEF FrameHit, Goto, Moves
    <2>2. /\ buf' \in [Workers -> Bytes \cup {"none"}] /\ buf'[w] \in Bytes
          /\ \A v \in Workers \ {w} : buf'[v] = buf[v]
      BY <1>17 DEF FrameHit, TypeInv, TypeOK, Holding, Busy, Bytes
    <2>3. source' \in [Workers -> {"network", "cache"}]
      BY <1>17 DEF FrameHit, TypeInv, TypeOK, Holding, Busy, Bytes
    <2>4. pc' \in [Workers -> Waits \cup FrameWaits] /\ RetriesRemain' /\ Holding'
      BY <1>17, <1>0, <2>1, <2>2, ControlKept DEF FrameHit, loopVarsButPc, Moves,
         Waits, FrameWaits, Holding, Busy
    <2> QED
      BY <1>17, <2>1, <2>2, <2>3, <2>4 DEF FrameHit, loopVarsButPc, sharedVars, historyVars,
         TypeInv, TypeOK
  <1>18. ASSUME NEW w \in Workers, FrameFetched(w) PROVE TypeInv'
    <2>1. Moves(w, {"frameCheck"})
      BY <1>18 DEF FrameFetched, Goto, Moves
    <2>2. /\ buf' \in [Workers -> Bytes \cup {"none"}] /\ buf'[w] \in Bytes
          /\ \A v \in Workers \ {w} : buf'[v] = buf[v]
      BY <1>18 DEF FrameFetched, TypeInv, TypeOK, Holding, Busy, Bytes
    <2>3. source' \in [Workers -> {"network", "cache"}]
      BY <1>18 DEF FrameFetched, TypeInv, TypeOK, Holding, Busy, Bytes
    <2>4. cached' \in [Chunks -> Bytes \cup {"absent"}]
      BY <1>18 DEF FrameFetched, TypeInv, TypeOK, Holding, Busy, Bytes
    <2>5. pc' \in [Workers -> Waits \cup FrameWaits] /\ RetriesRemain' /\ Holding'
      BY <1>18, <1>0, <2>1, <2>2, ControlKept DEF FrameFetched, loopVarsButPc, Moves,
         Waits, FrameWaits, Holding, Busy
    <2> QED
      BY <1>18, <2>1, <2>2, <2>3, <2>4, <2>5 DEF FrameFetched, loopVarsButPc, sharedVars, historyVars,
         TypeInv, TypeOK, DisableCache
  <1>19. ASSUME NEW w \in Workers, FrameBad(w) PROVE TypeInv'
    <2>1. /\ SignalType'
          /\ \/ Moves(w, {"stopped"})
             \/ Moves(w, {"frameBackoff"}) /\ attempt[w] <= Retries
      BY <1>19, <1>0, RetryOrThrowMoves DEF FrameBad
    <2>2. badReplies' \in [Chunks -> Nat]
      BY <1>19, <1>0, <1>b DEF FrameBad, Holding, Busy
    <2>3. pc' \in [Workers -> Waits \cup FrameWaits] /\ RetriesRemain' /\ Holding'
      BY <1>19, <1>0, <2>1, ControlKept DEF FrameBad, loopVarsButPc, Moves,
         Waits, FrameWaits, Holding, Busy
    <2> QED
      BY <1>19, <2>1, <2>2, <2>3 DEF FrameBad, loopVarsButPc, sharedVars, historyVars,
         TypeInv, TypeOK, SignalType
  <1>20. ASSUME NEW w \in Workers, FrameFinal(w) PROVE TypeInv'
    <2>1. SignalType' /\ Moves(w, {"stopped"})
      BY <1>20, <1>0, ThrowMoves DEF FrameFinal
    <2>2. pc' \in [Workers -> Waits \cup FrameWaits] /\ RetriesRemain' /\ Holding'
      BY <1>20, <1>0, <2>1, ControlKept DEF FrameFinal, loopVarsButPc, Moves,
         Waits, FrameWaits, Holding, Busy
    <2> QED
      BY <1>20, <2>1, <2>2 DEF FrameFinal, loopVarsButPc, sharedVars, historyVars,
         TypeInv, TypeOK, SignalType
  <1>20a. ASSUME NEW w \in Workers, FrameCallFails(w) PROVE TypeInv'
    <2>1. SignalType' /\ Moves(w, {"stopped"})
      BY <1>20a, <1>0, ThrowMoves DEF FrameCallFails
    <2>2. pc' \in [Workers -> Waits \cup FrameWaits] /\ RetriesRemain' /\ Holding'
      BY <1>20a, <1>0, <2>1, ControlKept DEF FrameCallFails, loopVarsButPc, Moves,
         Waits, FrameWaits, Holding, Busy
    <2>3. cached' \in [Chunks -> Bytes \cup {"absent"}]
      BY <1>20a DEF FrameCallFails, TypeInv, TypeOK, Bytes
    <2> QED
      BY <1>20a, <2>1, <2>2, <2>3 DEF FrameCallFails, loopVarsButPc, sharedVars, historyVars,
         TypeInv, TypeOK, SignalType
  <1>21. ASSUME NEW w \in Workers, FrameVerified(w) PROVE TypeInv'
    <2>1. Moves(w, {"idle"}) /\ handed' \in [Chunks -> Seq(Bytes)]
      BY <1>21, FinishMoves DEF FrameVerified, Busy, Bytes, TypeInv, Holding
    <2>2. pc' \in [Workers -> Waits \cup FrameWaits] /\ RetriesRemain' /\ Holding'
      BY <1>21, <1>0, <2>1, ControlKept DEF FrameVerified, loopVarsButPc, Moves,
         Waits, FrameWaits, Holding, Busy
    <2> QED
      BY <1>21, <2>1, <2>2 DEF FrameVerified, loopVarsButPc, sharedVars, historyVars,
         TypeInv, TypeOK
  <1>22. ASSUME NEW w \in Workers, FrameCorrupt(w) PROVE TypeInv'
    <2>1. Moves(w, {"frameEvict"})
      BY <1>22 DEF FrameCorrupt, Goto, Moves
    <2>2. evictedOnce' \in [Workers -> BOOLEAN]
      BY <1>22 DEF FrameCorrupt, TypeInv, TypeOK, Holding, Busy, Bytes
    <2>3. pc' \in [Workers -> Waits \cup FrameWaits] /\ RetriesRemain' /\ Holding'
      BY <1>22, <1>0, <2>1, ControlKept DEF FrameCorrupt, loopVarsButPc, Moves,
         Waits, FrameWaits, Holding, Busy
    <2> QED
      BY <1>22, <2>1, <2>2, <2>3 DEF FrameCorrupt, loopVarsButPc, sharedVars, historyVars,
         TypeInv, TypeOK
  <1>23. ASSUME NEW w \in Workers, FrameCorruptAgain(w) PROVE TypeInv'
    <2>1. /\ SignalType'
          /\ \/ Moves(w, {"stopped"})
             \/ Moves(w, {"frameBackoff"}) /\ attempt[w] <= Retries
      BY <1>23, <1>0, RetryOrThrowMoves DEF FrameCorruptAgain
    <2>2. badReplies' \in [Chunks -> Nat]
      BY <1>23, <1>0, <1>b DEF FrameCorruptAgain, Holding, Busy
    <2>3. pc' \in [Workers -> Waits \cup FrameWaits] /\ RetriesRemain' /\ Holding'
      BY <1>23, <1>0, <2>1, ControlKept DEF FrameCorruptAgain, loopVarsButPc, Moves,
         Waits, FrameWaits, Holding, Busy
    <2> QED
      BY <1>23, <2>1, <2>2, <2>3 DEF FrameCorruptAgain, loopVarsButPc, sharedVars, historyVars,
         TypeInv, TypeOK, SignalType
  <1>24. ASSUME NEW w \in Workers, FrameEvicted(w) PROVE TypeInv'
    <2>1. /\ SignalType'
          /\ \/ Moves(w, {"stopped"})
             \/ Moves(w, {"frameBackoff"}) /\ attempt[w] <= Retries
      BY <1>24, <1>0, RetryOrThrowMoves DEF FrameEvicted
    <2>2. cached' \in [Chunks -> Bytes \cup {"absent"}]
      BY <1>24 DEF FrameEvicted, TypeInv, TypeOK, Holding, Busy, Bytes
    <2>3. pc' \in [Workers -> Waits \cup FrameWaits] /\ RetriesRemain' /\ Holding'
      BY <1>24, <1>0, <2>1, ControlKept DEF FrameEvicted, loopVarsButPc, Moves,
         Waits, FrameWaits, Holding, Busy
    <2> QED
      BY <1>24, <2>1, <2>2, <2>3 DEF FrameEvicted, loopVarsButPc, sharedVars, historyVars,
         TypeInv, TypeOK, SignalType
  <1>25. ASSUME NEW w \in Workers, FrameEvictFailed(w) PROVE TypeInv'
    <2>1. SignalType' /\ Moves(w, {"stopped"})
      BY <1>25, <1>0, ThrowMoves DEF FrameEvictFailed
    <2>2. pc' \in [Workers -> Waits \cup FrameWaits] /\ RetriesRemain' /\ Holding'
      BY <1>25, <1>0, <2>1, ControlKept DEF FrameEvictFailed, loopVarsButPc, Moves,
         Waits, FrameWaits, Holding, Busy
    <2>3. cached' \in [Chunks -> Bytes \cup {"absent"}]
      BY <1>25 DEF FrameEvictFailed, TypeInv, TypeOK, Bytes
    <2> QED
      BY <1>25, <2>1, <2>2, <2>3 DEF FrameEvictFailed, loopVarsButPc, sharedVars, historyVars,
         TypeInv, TypeOK, SignalType
  <1>26. CASE OuterAbort
    BY <1>26 DEF OuterAbort, loopVars, historyVars, TypeInv, TypeOK, RetriesRemain, Holding, Busy
  <1>27. CASE Settle
    BY <1>27 DEF Settle, loopVars, historyVars, TypeInv, TypeOK, RetriesRemain, Holding, Busy
  <1>28. CASE UNCHANGED vars
    BY <1>28 DEF vars, TypeInv, TypeOK, RetriesRemain, Holding, Busy
  <1> QED
    BY <1>1, <1>2, <1>3, <1>4, <1>5, <1>6, <1>7, <1>8, <1>9, <1>10, <1>11,
       <1>12, <1>13, <1>14, <1>15, <1>16, <1>17, <1>18, <1>19, <1>20, <1>20a, <1>21, <1>22, <1>23,
       <1>24, <1>25, <1>26, <1>27, <1>28
       DEF Next, LocalStep, RemoteStep, Settled

\* Every variable keeps its type.
THEOREM TypeCorrect == Spec => []TypeOK
  <1>1. TypeInv => TypeOK
    BY DEF TypeInv
  <1> QED
    BY <1>1, InitTypeInv, NextTypeInv, PTL DEF Spec
-----------------------------------------------------------------------------
(***************************************************************************)
(* Every step of a worker is of one of five kinds                          *)
(***************************************************************************)

\* What the steps of a busy worker leave alone.
Rest(w) ==
  /\ UNCHANGED <<nextIndex, item, outerAborted, outcome>>
  /\ \A v \in Workers \ {w} : buf'[v] = buf[v]

\* The worker goes on with its chunk.
Works(w) ==
  /\ Busy(w)
  /\ \E p \in (Waits \cup FrameWaits) \ {"idle", "stopped"} :
       /\ pc' = [pc EXCEPT ![w] = p]
       /\ p = "put" => buf'[w] = "good"
  /\ Rest(w)
  /\ UNCHANGED <<handed, failure, aborted>>

\* The worker gives up with an error.
Quits(w) == Busy(w) /\ Throw(w) /\ Rest(w) /\ UNCHANGED handed

\* The worker is done with its chunk.
Finishes(w) ==
  Busy(w) /\ buf[w] = "good" /\ Finish(w) /\ Rest(w)
  /\ UNCHANGED <<failure, aborted>>

LEMMA GotoKind ==
  ASSUME NEW w \in Workers,
         NEW p \in (Waits \cup FrameWaits) \ {"idle", "stopped", "put"},
         Busy(w), Goto(w, p), Rest(w), UNCHANGED <<handed, failure, aborted>>
  PROVE  Works(w)
  BY DEF Works, Goto

LEMMA StartRequestKind ==
  ASSUME NEW w \in Workers, NEW wait \in {"request", "frameFetch"}, Busy(w),
         StartRequest(w, wait), Rest(w), UNCHANGED handed
  PROVE  Works(w) \/ Quits(w)
  BY DEF StartRequest, Works, Quits, Goto, Waits, FrameWaits

LEMMA RetryOrThrowKind ==
  ASSUME NEW w \in Workers, NEW wait \in {"backoff", "frameBackoff"}, Busy(w),
         RetryOrThrow(w, wait), Rest(w), UNCHANGED handed
  PROVE  Works(w) \/ Quits(w)
  BY DEF RetryOrThrow, Works, Quits, Goto, Waits, FrameWaits

LEMMA StepKinds ==
  ASSUME TypeInv, StoresVerified, NEW w \in Workers, LocalStep(w) \/ RemoteStep(w)
  PROVE  Take(w) \/ Stop(w) \/ Works(w) \/ Quits(w) \/ Finishes(w)
  <1> DEFINE Goal == Take(w) \/ Stop(w) \/ Works(w) \/ Quits(w) \/ Finishes(w)
  <1>0. buf \in [Workers -> Bytes \cup {"none"}]
    BY DEF TypeInv, TypeOK
  <1> USE DEF loopVarsButPc, sharedVars, historyVars, Busy, Rest
  <1>1. CASE CacheMiss(w)
    BY <1>1, StartRequestKind DEF CacheMiss
  <1>2. CASE CacheHit(w)
    BY <1>0, <1>2, GotoKind DEF CacheHit, Waits
  <1>3. CASE CacheVerified(w)
    BY <1>3 DEF CacheVerified, Finishes
  <1>4. CASE CacheCorrupt(w)
    BY <1>4, GotoKind DEF CacheCorrupt, Waits
  <1>5. CASE CacheEvicted(w)
    BY <1>5, StartRequestKind DEF CacheEvicted
  <1>6. CASE RequestCancelled(w)
    BY <1>6 DEF RequestCancelled, Quits
  <1>7. CASE Verified(w)
    <2>1. CASE storeOn
      BY <1>7, <2>1 DEF Verified, Works, Goto, Waits
    <2>2. CASE ~storeOn
      BY <1>7, <2>2 DEF Verified, Finishes
    <2> QED BY <2>1, <2>2
  <1>8. CASE VerifyFailed(w)
    BY <1>8, RetryOrThrowKind DEF VerifyFailed
  <1>9. CASE BackoffOver(w)
    <2>1. CASE pc[w] = "backoff"
      BY <1>9, <2>1, StartRequestKind DEF BackoffOver
    <2>2. CASE pc[w] = "frameBackoff"
      BY <1>9, <2>2, StartRequestKind DEF BackoffOver
    <2> QED BY <1>9, <2>1, <2>2 DEF BackoffOver
  <1>10. CASE PutStored(w)
    BY <1>10 DEF PutStored, Finishes, StoresVerified
  <1>11. CASE PutFailed(w)
    BY <1>11 DEF PutFailed, Finishes, StoresVerified
  <1>12. CASE FrameVerified(w)
    BY <1>12 DEF FrameVerified, Finishes
  <1>13. CASE FrameCorrupt(w)
    BY <1>13, GotoKind DEF FrameCorrupt, FrameWaits
  <1>14. CASE FrameCorruptAgain(w)
    BY <1>14, RetryOrThrowKind DEF FrameCorruptAgain
  <1>15. CASE FrameEvicted(w)
    BY <1>15, RetryOrThrowKind DEF FrameEvicted
  <1>16. CASE FrameEvictFailed(w)
    BY <1>16 DEF FrameEvictFailed, Quits
  <1>17. CASE ReplyBody(w)
    BY <1>0, <1>17, GotoKind DEF ReplyBody, Waits
  <1>18. CASE ReplyBad(w)
    BY <1>18, RetryOrThrowKind DEF ReplyBad
  <1>19. CASE ReplyFatal(w)
    BY <1>19 DEF ReplyFatal, Quits
  <1>20. CASE FrameHit(w)
    BY <1>0, <1>20, GotoKind DEF FrameHit, FrameWaits
  <1>21. CASE FrameFetched(w)
    BY <1>0, <1>21, GotoKind DEF FrameFetched, FrameWaits
  <1>22. CASE FrameBad(w)
    BY <1>22, RetryOrThrowKind DEF FrameBad
  <1>23. CASE FrameFinal(w)
    BY <1>23 DEF FrameFinal, Quits
  <1>24. CASE FrameCallFails(w)
    BY <1>24 DEF FrameCallFails, Quits
  <1> QED
    BY <1>1, <1>2, <1>3, <1>4, <1>5, <1>6, <1>7, <1>8, <1>9, <1>10, <1>11, <1>12,
       <1>13, <1>14, <1>15, <1>16, <1>17, <1>18, <1>19, <1>20, <1>21, <1>22, <1>23,
       <1>24 DEF LocalStep, RemoteStep

-----------------------------------------------------------------------------
(***************************************************************************)
(* LoopInv is inductive                                                    *)
(***************************************************************************)

LEMMA WorksKeeps ==
  ASSUME LoopInv, TypeInv', NEW w \in Workers, Works(w)
  PROVE  LoopInv'
  <1> PICK p \in (Waits \cup FrameWaits) \ {"idle", "stopped"} :
        pc' = [pc EXCEPT ![w] = p] /\ (p = "put" => buf'[w] = "good")
    BY DEF Works
  <1>0. pc \in [Workers -> Waits \cup FrameWaits]
    BY DEF LoopInv, TypeOK
  <1>1. \A v \in Workers : Busy(v)' <=> Busy(v)
    BY <1>0 DEF Works, Busy
  <1>2. InFlightAlone' /\ NoneLost' /\ HandedOnce'
    BY <1>1 DEF LoopInv, Works, Rest, InFlightAlone, NoneLost, HandedOnce, Closed
  <1>3. SignalsAgree' /\ StopsAtEnd'
    BY <1>0 DEF LoopInv, Works, Rest, SignalsAgree, StopsAtEnd, Closed
  <1>4. StoresVerified'
    BY <1>0 DEF LoopInv, Works, Rest, StoresVerified
  <1>5. SettledQuietly'
    BY <1>0 DEF LoopInv, Works, Rest, SettledQuietly, Busy, Closed
  <1> QED
    BY <1>2, <1>3, <1>4, <1>5 DEF LoopInv, TypeInv

LEMMA QuitsKeeps ==
  ASSUME LoopInv, TypeInv', NEW w \in Workers, Quits(w)
  PROVE  LoopInv'
  <1>0. pc \in [Workers -> Waits \cup FrameWaits]
    BY DEF LoopInv, TypeOK
  <1>1. pc' = [pc EXCEPT ![w] = "stopped"] /\ aborted' = TRUE /\ failure' # "none"
    BY DEF Quits, Throw, Goto
  <1>2. \A v \in Workers : Busy(v)' => Busy(v)
    BY <1>0, <1>1 DEF Busy
  <1>3. InFlightAlone' /\ HandedOnce'
    BY <1>2 DEF LoopInv, Quits, Rest, InFlightAlone, HandedOnce
  <1>4. NoneLost' /\ StopsAtEnd' /\ SignalsAgree'
    BY <1>1 DEF NoneLost, StopsAtEnd, SignalsAgree, Closed
  <1>5. StoresVerified'
    BY <1>0, <1>1 DEF LoopInv, Quits, Rest, StoresVerified
  <1>6. SettledQuietly'
    BY <1>0, <1>1 DEF LoopInv, Quits, Rest, SettledQuietly, Busy
  <1> QED
    BY <1>3, <1>4, <1>5, <1>6 DEF LoopInv, TypeInv

\* The only step that hands a chunk over.
LEMMA FinishesKeeps ==
  ASSUME LoopInv, TypeInv', NEW w \in Workers, Finishes(w)
  PROVE  LoopInv'
  <1>0. /\ pc \in [Workers -> Waits \cup FrameWaits]
        /\ handed \in [Chunks -> Seq(Bytes)]
        /\ nextIndex \in Nat
    BY FetchAssumption DEF LoopInv, TypeOK
  <1>1. pc' = [pc EXCEPT ![w] = "idle"]
    BY DEF Finishes, Finish, Goto
  <1>2. /\ Busy(w) /\ ~Busy(w)'
        /\ \A v \in Workers \ {w} : Busy(v)' <=> Busy(v)
    BY <1>0, <1>1 DEF Finishes, Busy
  <1>a. /\ item[w] \in 1..(nextIndex - 1) /\ handed[item[w]] = <<>>
        /\ \A v \in Workers \ {w} : Busy(v) => item[v] # item[w]
    BY <1>2 DEF LoopInv, InFlightAlone
  <1>3. item[w] \in Chunks /\ item[w] < nextIndex
    BY <1>a, FetchAssumption DEF LoopInv, TypeOK, Chunks
  <1>4. handed' = IF Closed THEN handed
                  ELSE [handed EXCEPT ![item[w]] = <<"good">>]
    BY <1>0, <1>a, <1>3 DEF Finishes, Finish
  <1>5. InFlightAlone'
    <2> SUFFICES ASSUME NEW v \in Workers, Busy(v)'
                 PROVE  /\ item[v] \in 1..(nextIndex - 1)
                        /\ handed'[item[v]] = <<>>
                        /\ \A u \in Workers : Busy(u)' /\ item[u] = item[v] => u = v
      BY DEF InFlightAlone, Finishes, Rest
    <2>1. v # w /\ Busy(v)
      BY <1>2
    <2>2. /\ item[v] \in 1..(nextIndex - 1) /\ handed[item[v]] = <<>>
          /\ \A u \in Workers : Busy(u) /\ item[u] = item[v] => u = v
      BY <2>1 DEF LoopInv, InFlightAlone
    <2>3. item[v] # item[w] /\ item[v] \in Chunks
      BY <1>a, <1>3, <2>1, <2>2, <1>0, FetchAssumption DEF LoopInv, TypeOK, Chunks
    <2>4. handed'[item[v]] = <<>>
      BY <1>0, <1>4, <2>2, <2>3
    <2> QED
      BY <1>2, <2>2, <2>4
  <1>6. HandedOnce'
    BY <1>0, <1>3, <1>4 DEF LoopInv, HandedOnce, Finishes, Rest, Chunks
  <1>7. NoneLost'
    <2> SUFFICES ASSUME ~Closed, NEW c \in 1..(nextIndex - 1)
                 PROVE  \/ handed'[c] = <<"good">>
                        \/ \E v \in Workers : Busy(v)' /\ item[v] = c
      BY DEF NoneLost, Finishes, Rest, Closed
    <2>1. c \in Chunks
      BY FetchAssumption DEF LoopInv, TypeOK, Chunks
    <2>2. \/ handed[c] = <<"good">>
          \/ \E v \in Workers : Busy(v) /\ item[v] = c
      BY DEF LoopInv, NoneLost
    <2>3. CASE c = item[w]
      BY <1>0, <1>4, <2>1, <2>3
    <2>4. CASE c # item[w]
      BY <1>0, <1>2, <1>4, <2>1, <2>2, <2>4
    <2> QED BY <2>3, <2>4
  <1>8. SignalsAgree' /\ StopsAtEnd'
    BY <1>0, <1>1 DEF LoopInv, Finishes, Rest, SignalsAgree, StopsAtEnd, Closed
  <1>9. StoresVerified'
    BY <1>0, <1>1 DEF LoopInv, Finishes, Rest, StoresVerified
  <1>10. SettledQuietly'
    BY <1>0, <1>1 DEF LoopInv, Finishes, Rest, SettledQuietly, Busy, Closed
  <1> QED
    BY <1>5, <1>6, <1>7, <1>8, <1>9, <1>10 DEF LoopInv, TypeInv

LEMMA TakeKeeps ==
  ASSUME LoopInv, TypeInv', NEW w \in Workers, Take(w)
  PROVE  LoopInv'
  <1> USE FetchAssumption
  <1>0. /\ pc \in [Workers -> Waits \cup FrameWaits]
        /\ item \in [Workers -> 0..NumChunks]
        /\ nextIndex \in Chunks /\ nextIndex' = nextIndex + 1
        /\ buf \in [Workers -> Bytes \cup {"none"}]
        /\ item' = [item EXCEPT ![w] = nextIndex]
        /\ UNCHANGED <<handed, failure, aborted, outerAborted, outcome>>
        /\ ~Closed
    BY DEF LoopInv, TypeOK, Take, LoopGoesOn, Chunks, sharedVars, Closed
  <1>1. PICK p \in {"request", "frameFetch", "cacheGet"} : pc' = [pc EXCEPT ![w] = p]
    BY DEF Take, Goto, LoopInv, TypeOK
  <1>2. /\ ~Busy(w) /\ Busy(w)' /\ pc[w] = "idle"
        /\ \A v \in Workers \ {w} : /\ Busy(v)' <=> Busy(v)
                                    /\ item'[v] = item[v]
        /\ item'[w] = nextIndex
    BY <1>0, <1>1 DEF Take, Busy
  <1>3. handed[nextIndex] = <<>>
    BY <1>0 DEF LoopInv, HandedOnce, Chunks
  <1>4. \A v \in Workers \ {w} : Busy(v) =>
          /\ item[v] \in 1..(nextIndex - 1)
          /\ handed[item[v]] = <<>>
          /\ \A u \in Workers : Busy(u) /\ item[u] = item[v] => u = v
    BY DEF LoopInv, InFlightAlone
  <1>5. InFlightAlone'
    BY <1>0, <1>2, <1>3, <1>4 DEF InFlightAlone, Chunks
  <1>6. HandedOnce'
    BY <1>0 DEF LoopInv, HandedOnce, Chunks
  <1>7. NoneLost'
    <2> SUFFICES ASSUME NEW c \in 1..nextIndex
                 PROVE  \/ handed[c] = <<"good">>
                        \/ \E v \in Workers : Busy(v)' /\ item'[v] = c
      BY <1>0 DEF NoneLost, Chunks
    <2>1. CASE c = nextIndex
      BY <1>2, <2>1
    <2>2. CASE c # nextIndex
      BY <1>0, <1>2, <2>2 DEF LoopInv, NoneLost, Chunks
    <2> QED BY <2>1, <2>2
  <1>8. StopsAtEnd'
    BY <1>0, <1>1 DEF LoopInv, StopsAtEnd, Chunks
  <1>9. StoresVerified' /\ SignalsAgree'
    BY <1>0, <1>1 DEF LoopInv, Take, StoresVerified, SignalsAgree
  <1>10. SettledQuietly'
    BY <1>0, <1>2 DEF LoopInv, SettledQuietly, Closed
  <1> QED
    BY <1>5, <1>6, <1>7, <1>8, <1>9, <1>10 DEF LoopInv, TypeInv

LEMMA StopKeeps ==
  ASSUME LoopInv, TypeInv', NEW w \in Workers, Stop(w)
  PROVE  LoopInv'
  <1>0. /\ pc \in [Workers -> Waits \cup FrameWaits] /\ pc[w] = "idle"
        /\ pc' = [pc EXCEPT ![w] = "stopped"]
        /\ nextIndex \in 1..(NumChunks + 1)
        /\ UNCHANGED <<nextIndex, item, buf, handed, failure, aborted,
                       outerAborted, outcome>>
    BY DEF LoopInv, TypeOK, Stop, Goto, sharedVars
  <1>1. \A v \in Workers : Busy(v)' <=> Busy(v)
    BY <1>0 DEF Busy
  <1>2. InFlightAlone' /\ HandedOnce' /\ NoneLost'
    BY <1>0, <1>1 DEF LoopInv, InFlightAlone, HandedOnce, NoneLost, Closed
  <1>3. StopsAtEnd'
    BY <1>0, FetchAssumption DEF LoopInv, Stop, LoopGoesOn, StopsAtEnd, Closed
  <1>4. StoresVerified' /\ SignalsAgree'
    BY <1>0 DEF LoopInv, StoresVerified, SignalsAgree
  <1>5. SettledQuietly'
    BY <1>0 DEF LoopInv, SettledQuietly, Closed
  <1> QED
    BY <1>2, <1>3, <1>4, <1>5 DEF LoopInv, TypeInv

LEMMA InitLoopInv == Init => LoopInv
  <1> SUFFICES ASSUME Init PROVE LoopInv
    OBVIOUS
  <1>1. TypeOK /\ RetriesRemain
    BY InitTypeInv DEF TypeInv
  <1>2. InFlightAlone /\ HandedOnce /\ StoresVerified /\ SettledQuietly
    BY DEF Init, InFlightAlone, HandedOnce, StoresVerified, SettledQuietly, Busy, Chunks
  <1>3. NoneLost /\ StopsAtEnd
    BY DEF Init, NoneLost, StopsAtEnd
  <1>4. SignalsAgree
    BY DEF Init, SignalsAgree
  <1> QED BY <1>1, <1>2, <1>3, <1>4 DEF LoopInv

LEMMA NextLoopInv == LoopInv /\ TypeInv /\ TypeInv' /\ [Next]_vars => LoopInv'
  <1> SUFFICES ASSUME LoopInv, TypeInv, TypeInv', [Next]_vars PROVE LoopInv'
    OBVIOUS
  <1>0. StoresVerified
    BY DEF LoopInv
  <1>1. ASSUME NEW w \in Workers, LocalStep(w) \/ RemoteStep(w) PROVE LoopInv'
    BY <1>0, <1>1, StepKinds, TakeKeeps, StopKeeps, WorksKeeps, QuitsKeeps, FinishesKeeps
  <1>2. CASE OuterAbort
    <2> USE <1>2 DEF OuterAbort, loopVars
    <2>1. InFlightAlone' /\ HandedOnce' /\ StoresVerified'
      BY DEF LoopInv, InFlightAlone, HandedOnce, StoresVerified, Busy
    <2>2. NoneLost' /\ StopsAtEnd' /\ SignalsAgree'
      BY DEF NoneLost, StopsAtEnd, SignalsAgree, Closed
    <2>3. SettledQuietly'
      BY DEF LoopInv, SettledQuietly
    <2> QED BY <2>1, <2>2, <2>3 DEF LoopInv, TypeInv
  <1>3. CASE Settle
    <2> USE <1>3 DEF Settle, loopVars
    <2>1. InFlightAlone' /\ HandedOnce' /\ StoresVerified' /\ NoneLost' /\ StopsAtEnd'
      BY DEF LoopInv, InFlightAlone, HandedOnce, StoresVerified, NoneLost, StopsAtEnd,
         Busy, Closed
    <2>2. SignalsAgree'
      BY DEF LoopInv, SignalsAgree
    <2>3. SettledQuietly'
      BY DEF LoopInv, TypeOK, SettledQuietly, SignalsAgree, Closed
    <2> QED BY <2>1, <2>2, <2>3 DEF LoopInv, TypeInv
  <1>4. CASE UNCHANGED vars
    <2> USE <1>4 DEF vars
    <2>1. InFlightAlone' /\ HandedOnce' /\ StoresVerified' /\ NoneLost' /\ StopsAtEnd'
      BY DEF LoopInv, InFlightAlone, HandedOnce, StoresVerified, NoneLost, StopsAtEnd,
         Busy, Closed
    <2>2. SignalsAgree' /\ SettledQuietly'
      BY DEF LoopInv, SignalsAgree, SettledQuietly, Closed
    <2> QED BY <2>1, <2>2 DEF LoopInv, TypeInv
  <1> QED
    BY <1>1, <1>2, <1>3, <1>4 DEF Next, Settled

\* When nothing is closed and every worker has stopped, everything taken was
\* handed over, and everything was taken.
LEMMA DoneMeansAll ==
  ASSUME LoopInv, ~Closed, \A w \in Workers : pc[w] = "stopped"
  PROVE  \A c \in Chunks : handed[c] = <<"good">>
  <1>1. nextIndex = NumChunks + 1
    BY FetchAssumption DEF LoopInv, StopsAtEnd
  <1>2. \A w \in Workers : ~Busy(w)
    BY DEF Busy
  <1> QED
    BY <1>1, <1>2, FetchAssumption DEF LoopInv, NoneLost, Chunks

LEMMA InvariantHolds == Spec => [](LoopInv /\ TypeInv)
  <1>1. Init => LoopInv /\ TypeInv
    BY InitLoopInv, InitTypeInv
  <1>2. (LoopInv /\ TypeInv) /\ [Next]_vars => (LoopInv /\ TypeInv)'
    BY NextLoopInv, NextTypeInv
  <1> QED
    BY <1>1, <1>2, PTL DEF Spec

\* A chunk is handed over at most once and only verified, and a load that
\* ends well has handed over all of them (fetcher.ts, fetchChunks).
THEOREM DeliveredExactlyOnce == Spec => []ExactlyOnceVerified
  <1>1. LoopInv => ExactlyOnceVerified
    BY DoneMeansAll DEF LoopInv, HandedOnce, SettledQuietly, ExactlyOnceVerified
  <1> QED
    BY <1>1, InvariantHolds, PTL

-----------------------------------------------------------------------------
(***************************************************************************)
(* The loop implements the abstract delivery                               *)
(***************************************************************************)

LEMMA InitImplements == Init => Delivery!DeliveryInit
  BY DEF Init, Delivery!DeliveryInit, Closed

LEMMA NextImplements ==
  LoopInv /\ TypeInv /\ LoopInv' /\ [Next]_vars => [Delivery!DeliveryNext]_(Delivery!deliveryVars)
  <1> SUFFICES ASSUME LoopInv, TypeInv, LoopInv', [Next]_vars
               PROVE  Delivery!DeliveryNext \/ UNCHANGED <<handed, Closed, outcome>>
    BY DEF Delivery!deliveryVars
  <1> DEFINE Goal == Delivery!DeliveryNext \/ UNCHANGED <<handed, Closed, outcome>>
  <1>0. StoresVerified /\ SettledQuietly /\ SignalsAgree /\ InFlightAlone
    BY DEF LoopInv
  <1>1. ASSUME NEW w \in Workers, Take(w) \/ Stop(w) \/ Works(w) PROVE Goal
    BY <1>1 DEF Take, Stop, Works, Rest, sharedVars, Closed
  <1>2. ASSUME NEW w \in Workers, Quits(w) PROVE Goal
    <2>1. outcome = "running" /\ UNCHANGED <<handed, outcome>> /\ Closed'
      BY <1>0, <1>2, FetchAssumption DEF Quits, Rest, Throw, SettledQuietly, Busy, Closed,
         TypeInv, TypeOK
    <2>2. CASE Closed
      BY <2>1, <2>2 DEF Closed
    <2>3. CASE ~Closed
      BY <2>1, <2>3 DEF Delivery!DeliveryNext, Delivery!Close
    <2> QED BY <2>2, <2>3
  <1>3. ASSUME NEW w \in Workers, Finishes(w) PROVE Goal
    <2>1. outcome = "running" /\ UNCHANGED <<failure, aborted, outcome>>
      BY <1>0, <1>3 DEF Finishes, Rest, SettledQuietly, Busy, TypeInv, TypeOK
    <2>2. CASE Closed
      BY <1>3, <2>1, <2>2 DEF Finishes, Finish, Closed
    <2>3. CASE ~Closed
      <3>1. handed[item[w]] = <<>> /\ item[w] \in Chunks
        BY <1>0, <1>3 DEF Finishes, InFlightAlone, TypeInv, Holding
      <3>2. handed' = [handed EXCEPT ![item[w]] = <<"good">>]
        BY <1>3, <2>3, <3>1 DEF Finishes, Finish, TypeInv, TypeOK
      <3>3. Delivery!Deliver(item[w])
        BY <2>1, <2>3, <3>1, <3>2 DEF Delivery!Deliver, Closed
      <3> QED BY <3>1, <3>3 DEF Delivery!DeliveryNext
    <2> QED BY <2>2, <2>3
  <1>4. CASE OuterAbort
    <2>1. CASE Closed
      BY <1>4, <2>1 DEF OuterAbort, Closed, loopVars
    <2>2. CASE ~Closed
      BY <1>4, <2>2 DEF OuterAbort, Closed, Delivery!DeliveryNext, Delivery!Close
    <2> QED BY <2>1, <2>2
  <1>5. CASE Settle
    <2>1. outcome = "running" /\ UNCHANGED <<handed, Closed>>
      BY <1>5 DEF Settle, Closed
    <2>2. CASE Closed
      BY <1>5, <1>0, <2>1, <2>2 DEF Settle, Closed, SignalsAgree, Delivery!DeliveryNext,
         Delivery!Settle, TypeInv, TypeOK
    <2>3. CASE ~Closed
      <3>1. outcome' = "done"
        BY <1>5, <1>0, <2>3 DEF Settle, Closed, SignalsAgree, TypeInv, TypeOK
      <3>2. \A c \in Chunks : handed[c] = <<"good">>
        BY <1>5, <2>3, DoneMeansAll DEF Settle
      <3> QED
        BY <2>1, <2>3, <3>1, <3>2 DEF Delivery!DeliveryNext, Delivery!Settle
    <2> QED BY <2>2, <2>3
  <1>6. CASE UNCHANGED vars
    BY <1>6 DEF vars, Closed
  <1> QED
    BY <1>0, <1>1, <1>2, <1>3, <1>4, <1>5, <1>6, StepKinds DEF Next, Settled

\* The worker pool with its caches, retries and cancellation is one delivery
\* in the sense of VerifiedDelivery.
THEOREM LoopImplementsDelivery == Spec => ImplementsDelivery
  <1>1. Init => Delivery!DeliveryInit
    BY InitImplements
  <1>2. LoopInv /\ TypeInv /\ LoopInv' /\ [Next]_vars
          => [Delivery!DeliveryNext]_(Delivery!deliveryVars)
    BY NextImplements
  <1> QED
    BY <1>1, <1>2, InvariantHolds, PTL
       DEF Spec, ImplementsDelivery, Delivery!DeliverySpec

-----------------------------------------------------------------------------
(***************************************************************************)
(* What a settled load says about what happened: it fails only for a       *)
(* reason, it leaves the store good, it reports an abort.                  *)
(*                                                                         *)
(* None of the three is inductive. Each worker keeps an account of its     *)
(* chunk: every attempt after the first was paid for by a bad reply (on    *)
(* the frame's path: by a bad reply, or by the one eviction), and the      *)
(* bytes it took from a cache, or saw the frame store, are the ones under  *)
(* the chunk's URL. The account of a worker is about its own chunk, and no *)
(* two workers have the same one.                                          *)
(***************************************************************************)

\* Attempt n without a frame follows n - 1 bad replies, and in a backoff the
\* attempt that is over had its own.
NetworkPaid(w) ==
  kind # "cross-site" =>
    attempt[w] <= badReplies[item[w]] + (IF pc[w] = "backoff" THEN 0 ELSE 1)

\* Through the frame and without any bad reply yet: there was one attempt, or
\* one eviction; a corrupt body that is still stored is the one being evicted,
\* or has just been fetched.
FramePaid(w) ==
  pc[w] \in FrameWaits =>
    /\ kind = "cross-site"
    /\ badReplies[item[w]] = 0 =>
         /\ ~evictedOnce[w] => attempt[w] = 1 /\ pc[w] # "frameBackoff"
         /\ pc[w] = "frameEvict" => attempt[w] = 1 /\ evictedOnce[w]
         /\ evictedOnce[w] /\ cached[item[w]] = "corrupt" =>
              \/ pc[w] = "frameEvict"
              \/ pc[w] = "frameCheck" /\ source[w] = "network"
         /\ evictedOnce[w] /\ pc[w] = "frameCheck" /\ buf[w] = "corrupt"
              => source[w] = "network"

\* The bytes that need no `put` are the stored ones.
HeldIsCached(w) ==
  ~putFailed /\ pc[w] \in {"cacheCheck", "frameCheck"} => buf[w] = cached[item[w]]

Account(w) == Busy(w) => NetworkPaid(w) /\ FramePaid(w) /\ HeldIsCached(w)

\* Only a write that failed turns the store off.
StoreStays == ~putFailed => (storeOn <=> kind # "none")

HandedIsCached ==
  ~putFailed /\ kind # "none" => \A c \in Chunks : handed[c] # <<>> => cached[c] = "good"

FailedForGood == outcome = "failed" => failure # "none"

-----------------------------------------------------------------------------
(***************************************************************************)
(* A worker touches its own chunk only                                     *)
(***************************************************************************)

Apart(w) ==
  /\ \A v \in Workers \ {w} :
       /\ pc'[v] = pc[v] /\ item'[v] = item[v] /\ attempt'[v] = attempt[v]
       /\ buf'[v] = buf[v] /\ source'[v] = source[v] /\ evictedOnce'[v] = evictedOnce[v]
  /\ \A c \in Chunks :
       /\ badReplies'[c] >= badReplies[c]
       /\ ~(Busy(w) /\ c = item[w]) =>
            cached'[c] = cached[c] /\ badReplies'[c] = badReplies[c] /\ handed'[c] = handed[c]
  /\ kind' = kind
  /\ putFailed => putFailed'
  /\ finalReply => finalReply'
  /\ frameFailed => frameFailed'

LEMMA StepIsApart ==
  ASSUME TypeInv, NEW w \in Workers, LocalStep(w) \/ RemoteStep(w)
  PROVE  Apart(w)
  <1> USE DEF loopVarsButPc, sharedVars, historyVars, Goto, Busy
  <1>0. /\ pc \in [Workers -> Waits \cup FrameWaits]
        /\ attempt \in [Workers -> 1..(Retries + 1)]
        /\ buf \in [Workers -> Bytes \cup {"none"}]
        /\ item \in [Workers -> 0..NumChunks]
        /\ source \in [Workers -> {"network", "cache"}]
        /\ evictedOnce \in [Workers -> BOOLEAN]
        /\ cached \in [Chunks -> Bytes \cup {"absent"}]
        /\ handed \in [Chunks -> Seq(Bytes)]
        /\ badReplies \in [Chunks -> Nat]
    BY DEF TypeInv, TypeOK
  <1>1. CASE Take(w) \/ Stop(w)
    BY <1>0, <1>1 DEF Take, Stop, Apart
  <1>2. CASE CacheMiss(w) \/ CacheHit(w) \/ CacheCorrupt(w) \/ CacheEvicted(w)
    BY <1>0, <1>2 DEF CacheMiss, CacheHit, CacheCorrupt, CacheEvicted, StartRequest,
       Throw, Apart
  <1>3. CASE CacheVerified(w) \/ Verified(w) \/ PutStored(w) \/ PutFailed(w)
             \/ FrameVerified(w)
    BY <1>0, <1>3 DEF CacheVerified, Verified, PutStored, PutFailed, FrameVerified,
       Finish, Apart
  <1>4. CASE RequestCancelled(w) \/ BackoffOver(w) \/ VerifyFailed(w)
    BY <1>0, <1>4 DEF RequestCancelled, BackoffOver, VerifyFailed, StartRequest,
       RetryOrThrow, Throw, Apart
  <1>5. CASE FrameCorrupt(w) \/ FrameCorruptAgain(w) \/ FrameEvicted(w)
             \/ FrameEvictFailed(w)
    BY <1>0, <1>5 DEF FrameCorrupt, FrameCorruptAgain, FrameEvicted, FrameEvictFailed,
       RetryOrThrow, Throw, Apart
  <1>6. CASE ReplyBody(w) \/ ReplyBad(w) \/ ReplyFatal(w)
    BY <1>0, <1>6 DEF ReplyBody, ReplyBad, ReplyFatal, RetryOrThrow, Throw, Apart
  <1>7. CASE FrameHit(w) \/ FrameFetched(w) \/ FrameBad(w) \/ FrameFinal(w)
             \/ FrameCallFails(w)
    BY <1>0, <1>7 DEF FrameHit, FrameFetched, FrameBad, FrameFinal, FrameCallFails,
       RetryOrThrow, Throw, Apart
  <1> QED
    BY <1>1, <1>2, <1>3, <1>4, <1>5, <1>6, <1>7 DEF LocalStep, RemoteStep

LEMMA OthersKeepAccount ==
  ASSUME TypeInv, InFlightAlone, NEW w \in Workers, Apart(w),
         NEW v \in Workers \ {w}, Account(v)
  PROVE  Account(v)'
  <1> SUFFICES ASSUME Busy(v)' PROVE Account(v)'
    BY DEF Account
  <1>1. Busy(v) /\ item[v] \in Chunks
    BY DEF Apart, Busy, TypeInv, Holding
  <1>2. ~(Busy(w) /\ item[v] = item[w])
    BY <1>1 DEF InFlightAlone
  <1>3. cached'[item[v]] = cached[item[v]] /\ badReplies'[item[v]] = badReplies[item[v]]
    BY <1>1, <1>2 DEF Apart
  <1> QED
    BY <1>1, <1>3 DEF Apart, Account, NetworkPaid, FramePaid, HeldIsCached

-----------------------------------------------------------------------------
(***************************************************************************)
(* Each step keeps the account of the worker that takes it                 *)
(***************************************************************************)

LEMMA OwnAccountKept ==
  ASSUME TypeInv, TypeInv', LoopInv, StoreStays, NEW w \in Workers, Account(w),
         LocalStep(w) \/ RemoteStep(w)
  PROVE  Account(w)'
  <1> USE DEF loopVarsButPc, sharedVars, historyVars, Goto, Busy, Account
  <1>0. /\ pc \in [Workers -> Waits \cup FrameWaits]
        /\ attempt \in [Workers -> 1..(Retries + 1)]
        /\ buf \in [Workers -> Bytes \cup {"none"}]
        /\ item \in [Workers -> 0..NumChunks]
        /\ source \in [Workers -> {"network", "cache"}]
        /\ evictedOnce \in [Workers -> BOOLEAN]
        /\ cached \in [Chunks -> Bytes \cup {"absent"}]
        /\ badReplies \in [Chunks -> Nat]
        /\ Busy(w) => item[w] \in Chunks
        /\ Retries \in Nat
    BY FetchAssumption DEF TypeInv, TypeOK, Holding
  \* A worker that has come to rest has no account.
  <1>a. ASSUME pc' = [pc EXCEPT ![w] = "idle"] \/ pc' = [pc EXCEPT ![w] = "stopped"]
        PROVE  Account(w)'
    BY <1>0, <1>a
  <1>b. ASSUME Throw(w) PROVE Account(w)'
    BY <1>a, <1>b DEF Throw
  <1>c. ASSUME Finish(w) PROVE Account(w)'
    BY <1>a, <1>c DEF Finish
  <1>1. CASE Take(w)
    <2>1. item'[w] = nextIndex /\ attempt'[w] = 1 /\ evictedOnce'[w] = FALSE
          /\ item'[w] \in Chunks /\ UNCHANGED <<badReplies, kind, cached, putFailed>>
      BY <1>0, <1>1, FetchAssumption DEF Take, LoopGoesOn, Chunks, TypeInv, TypeOK
    <2>2. pc'[w] \in {"request", "frameFetch", "cacheGet"}
          /\ (pc'[w] = "frameFetch" => kind = "cross-site")
      <3>1. storeOn \in BOOLEAN
        BY DEF TypeInv, TypeOK
      <3>2. CASE ~storeOn
        BY <1>0, <1>1, <3>2 DEF Take
      <3>3. CASE storeOn /\ kind = "cross-site"
        BY <1>0, <1>1, <3>3 DEF Take
      <3>4. CASE storeOn /\ kind # "cross-site"
        BY <1>0, <1>1, <3>4 DEF Take
      <3> QED BY <3>1, <3>2, <3>3, <3>4
    <2>3. NetworkPaid(w)' /\ HeldIsCached(w)'
      BY <1>0, <2>1, <2>2 DEF NetworkPaid, HeldIsCached
    <2>4. FramePaid(w)'
      BY <1>0, <2>1, <2>2 DEF FramePaid, FrameWaits
    <2> QED BY <2>3, <2>4
  <1>2. CASE Stop(w)
    BY <1>2, <1>a DEF Stop
  <1>3. CASE CacheMiss(w) \/ CacheHit(w) \/ CacheCorrupt(w) \/ CacheEvicted(w)
    <2>1. Throw(w) \/ pc'[w] \in {"request", "cacheCheck", "cacheEvict"}
      BY <1>0, <1>3 DEF CacheMiss, CacheHit, CacheCorrupt, CacheEvicted, StartRequest
    <2>2. NetworkPaid(w)' \/ Throw(w)
      BY <1>0, <1>3, <2>1 DEF CacheMiss, CacheHit, CacheCorrupt, CacheEvicted, NetworkPaid
    <2>3. (FramePaid(w)' /\ HeldIsCached(w)') \/ Throw(w)
      BY <1>0, <1>3, <2>1 DEF CacheMiss, CacheHit, CacheCorrupt, CacheEvicted, StartRequest,
         FramePaid, HeldIsCached, FrameWaits
    <2> QED BY <1>b, <2>2, <2>3
  <1>4. CASE CacheVerified(w) \/ PutStored(w) \/ PutFailed(w) \/ FrameVerified(w)
    BY <1>4, <1>c DEF CacheVerified, PutStored, PutFailed, FrameVerified
  <1>5. CASE RequestCancelled(w) \/ ReplyFatal(w) \/ FrameFinal(w) \/ FrameCallFails(w)
             \/ FrameEvictFailed(w)
    BY <1>5, <1>b DEF RequestCancelled, ReplyFatal, FrameFinal, FrameCallFails,
       FrameEvictFailed
  <1>6. CASE Verified(w) \/ ReplyBody(w)
    <2>1. Finish(w) \/ pc'[w] \in {"put", "check"}
      BY <1>0, <1>6 DEF Verified, ReplyBody, TypeInv, TypeOK
    <2>2. Finish(w) \/ (NetworkPaid(w)' /\ FramePaid(w)' /\ HeldIsCached(w)')
      BY <1>0, <1>6, <2>1 DEF Verified, ReplyBody, NetworkPaid, FramePaid, HeldIsCached,
         FrameWaits
    <2> QED BY <1>c, <2>2
  <1>7. CASE ReplyBad(w) \/ VerifyFailed(w)
    <2>1. Throw(w) \/ pc'[w] = "backoff"
      BY <1>0, <1>7 DEF ReplyBad, VerifyFailed, RetryOrThrow
    <2>2. Throw(w) \/ (NetworkPaid(w)' /\ FramePaid(w)' /\ HeldIsCached(w)')
      BY <1>0, <1>7, <2>1 DEF ReplyBad, VerifyFailed, NetworkPaid, FramePaid, HeldIsCached,
         FrameWaits
    <2> QED BY <1>b, <2>2
  <1>8. CASE BackoffOver(w)
    <2>1. \/ Throw(w)
          \/ /\ attempt'[w] = attempt[w] + 1
             /\ pc'[w] = IF pc[w] = "backoff" THEN "request" ELSE "frameFetch"
      BY <1>0, <1>8 DEF BackoffOver, StartRequest
    <2>2. UNCHANGED <<item, buf, source, evictedOnce, kind, badReplies, cached, putFailed>>
          /\ pc[w] \in {"backoff", "frameBackoff"}
      BY <1>8 DEF BackoffOver
    <2>3. Throw(w) \/ NetworkPaid(w)'
      BY <1>0, <2>1, <2>2 DEF NetworkPaid, FramePaid, FrameWaits
    <2>4. Throw(w) \/ (FramePaid(w)' /\ HeldIsCached(w)')
      BY <1>0, <2>1, <2>2 DEF FramePaid, HeldIsCached, FrameWaits
    <2> QED BY <1>b, <2>3, <2>4
  <1>9. CASE FrameHit(w)
    BY <1>0, <1>9 DEF FrameHit, NetworkPaid, FramePaid, HeldIsCached, FrameWaits
  <1>10. CASE FrameFetched(w)
    BY <1>0, <1>10 DEF FrameFetched, NetworkPaid, FramePaid, HeldIsCached, FrameWaits
  <1>11. CASE FrameBad(w)
    <2>1. Throw(w) \/ pc'[w] = "frameBackoff"
      BY <1>0, <1>11 DEF FrameBad, RetryOrThrow
    <2> QED
      BY <1>0, <1>11, <1>b, <2>1 DEF FrameBad, NetworkPaid, FramePaid, HeldIsCached, FrameWaits
  <1>12. CASE FrameCorrupt(w)
    BY <1>0, <1>12 DEF FrameCorrupt, NetworkPaid, FramePaid, HeldIsCached, FrameWaits
  <1>13. CASE FrameCorruptAgain(w)
    <2>1. Throw(w) \/ pc'[w] = "frameBackoff"
      BY <1>0, <1>13 DEF FrameCorruptAgain, RetryOrThrow
    <2>2. badReplies'[item[w]] > 0
      BY <1>0, <1>13 DEF FrameCorruptAgain, FramePaid, FrameWaits
    <2> QED
      BY <1>0, <1>13, <1>b, <2>1, <2>2 DEF FrameCorruptAgain, NetworkPaid, FramePaid,
         HeldIsCached, FrameWaits
  <1>14. CASE FrameEvicted(w)
    <2>1. Throw(w) \/ pc'[w] = "frameBackoff"
      BY <1>0, <1>14 DEF FrameEvicted, RetryOrThrow
    <2> QED
      BY <1>0, <1>14, <1>b, <2>1 DEF FrameEvicted, NetworkPaid, FramePaid,
         HeldIsCached, FrameWaits
  <1> QED
    BY <1>1, <1>2, <1>3, <1>4, <1>5, <1>6, <1>7, <1>8, <1>9, <1>10, <1>11, <1>12,
       <1>13, <1>14 DEF LocalStep, RemoteStep

-----------------------------------------------------------------------------
(***************************************************************************)
(* The three claims, step by step                                          *)
(***************************************************************************)

\* What a load may be given for FailureIsEarned to hold: with no retry at all
\* the eviction of one stale body by the frame leaves no attempt to refetch it.
RefetchIsAllowed == Retries = 0 => "cross-site" \notin StoreKinds

OutcomeInv ==
  /\ \A w \in Workers : Account(w)
  /\ StoreStays
  /\ HandedIsCached
  /\ FailedForGood

\* The first error of a load whose signal is still down is the CDN's doing, or
\* that of a call on the frame which failed by itself.
LEMMA ErrorIsBlamed ==
  ASSUME RefetchIsAllowed, TypeInv, NEW w \in Workers, Account(w),
         LocalStep(w) \/ RemoteStep(w), ~aborted, Throw(w)
  PROVE  \/ finalReply'
         \/ kind' = "cross-site" /\ frameFailed'
         \/ /\ Busy(w) /\ item[w] \in Chunks
            /\ badReplies'[item[w]] > (IF kind' = "cross-site" THEN 0 ELSE Retries)
  <1> USE DEF loopVarsButPc, sharedVars, historyVars, Goto, Busy
  <1>0. /\ pc \in [Workers -> Waits \cup FrameWaits]
        /\ attempt \in [Workers -> 1..(Retries + 1)]
        /\ badReplies \in [Chunks -> Nat]
        /\ evictedOnce \in [Workers -> BOOLEAN]
        /\ source \in [Workers -> {"network", "cache"}]
        /\ Busy(w) => item[w] \in Chunks
        /\ pc[w] = "backoff" \/ pc[w] = "frameBackoff" => attempt[w] <= Retries
        /\ Retries \in Nat
        /\ kind \in StoreKinds
    BY FetchAssumption DEF TypeInv, TypeOK, Holding, RetriesRemain
  <1>1. pc'[w] = "stopped"
    BY <1>0 DEF Throw
  <1>t. failure' # "none" /\ aborted'
    BY DEF Throw
  <1>2. ~Take(w) /\ ~Stop(w)
    BY <1>t DEF Take, Stop, LoopGoesOn, TypeInv, TypeOK
  <1>3. CASE CacheMiss(w) \/ CacheHit(w) \/ CacheVerified(w) \/ CacheCorrupt(w) \/ CacheEvicted(w)
    BY <1>0, <1>1, <1>3 DEF CacheMiss, CacheHit, CacheVerified, CacheCorrupt, CacheEvicted,
       StartRequest, Finish
  <1>4. CASE RequestCancelled(w) \/ Verified(w) \/ PutStored(w) \/ PutFailed(w)
             \/ BackoffOver(w) \/ ReplyBody(w)
    BY <1>0, <1>1, <1>4 DEF RequestCancelled, Verified, PutStored, PutFailed, BackoffOver,
       ReplyBody, StartRequest, Finish
  <1>5. CASE ReplyFatal(w) \/ FrameFinal(w)
    BY <1>5 DEF ReplyFatal, FrameFinal
  <1>5a. CASE FrameCallFails(w) \/ FrameEvictFailed(w)
    BY <1>0, <1>5a DEF FrameCallFails, FrameEvictFailed, Account, FramePaid, FrameWaits
  <1>6. CASE ReplyBad(w) \/ VerifyFailed(w)
    <2>1. attempt[w] > Retries
      BY <1>0, <1>1, <1>6 DEF ReplyBad, VerifyFailed, RetryOrThrow
    <2> QED
      BY <1>0, <1>6, <2>1 DEF ReplyBad, VerifyFailed, Account, NetworkPaid
  <1>7. CASE FrameHit(w) \/ FrameFetched(w) \/ FrameVerified(w) \/ FrameCorrupt(w)
    BY <1>0, <1>1, <1>7 DEF FrameHit, FrameFetched, FrameVerified, FrameCorrupt, Finish
  <1>8. CASE FrameBad(w)
    BY <1>0, <1>8 DEF FrameBad, Account, FramePaid, FrameWaits
  <1>9. CASE FrameCorruptAgain(w)
    BY <1>0, <1>9 DEF FrameCorruptAgain, Account, FramePaid, FrameWaits
  <1>10. CASE FrameEvicted(w)
    <2>1. attempt[w] > Retries /\ kind = "cross-site" /\ Retries # 0
      BY <1>0, <1>1, <1>10 DEF FrameEvicted, RetryOrThrow, Account, FramePaid, FrameWaits,
         RefetchIsAllowed
    <2> QED
      BY <1>0, <1>10, <2>1 DEF FrameEvicted, Account, FramePaid, FrameWaits
  <1> QED
    BY <1>2, <1>3, <1>4, <1>5, <1>5a, <1>6, <1>7, <1>8, <1>9, <1>10 DEF LocalStep, RemoteStep

LEMMA FailureKept ==
  ASSUME RefetchIsAllowed, TypeInv, TypeInv', LoopInv, OutcomeInv, FailureIsEarned,
         [Next]_vars
  PROVE  FailureIsEarned'
  <1> SUFFICES ASSUME failure' = "error" PROVE FailureIsEarned'
    BY DEF FailureIsEarned
  <1>0. badReplies \in [Chunks -> Nat] /\ SignalsAgree /\ badReplies' \in [Chunks -> Nat]
    BY DEF TypeInv, TypeOK, LoopInv
  <1>1. ASSUME NEW w \in Workers, LocalStep(w) \/ RemoteStep(w) PROVE FailureIsEarned'
    <2>1. Apart(w)
      BY <1>1, StepIsApart
    <2>2. CASE failure = "error"
      <3>1. /\ finalReply => finalReply'
            /\ frameFailed => frameFailed'
            /\ kind' = kind
        BY <2>1 DEF Apart
      <3>2. ASSUME NEW c \in Chunks,
                   badReplies[c] > (IF kind = "cross-site" THEN 0 ELSE Retries)
            PROVE  badReplies'[c] > (IF kind' = "cross-site" THEN 0 ELSE Retries)
        BY <1>0, <2>1, <3>2, FetchAssumption DEF Apart
      <3> QED BY <2>2, <3>1, <3>2 DEF FailureIsEarned
    <2>3. CASE failure # "error"
      <3>1. Throw(w)
        BY <1>0, <1>1, <2>3, StepKinds DEF LoopInv, Take, Stop, Works, Quits, Finishes,
           sharedVars
      <3>2. ~aborted
        BY <1>0, <2>3, <3>1 DEF Throw, SignalsAgree
      <3> QED
        BY <1>1, <3>1, <3>2, ErrorIsBlamed DEF OutcomeInv, FailureIsEarned
    <2> QED BY <2>2, <2>3
  <1>2. CASE OuterAbort \/ Settle \/ UNCHANGED vars
    BY <1>2 DEF OuterAbort, Settle, vars, loopVars, historyVars, FailureIsEarned
  <1> QED
    BY <1>1, <1>2 DEF Next, Settled

LEMMA StoreKept ==
  ASSUME TypeInv, StoreStays, [Next]_vars
  PROVE  StoreStays'
  <1> USE DEF loopVarsButPc, loopVars, sharedVars, historyVars, StoreStays
  <1>1. ASSUME NEW w \in Workers, PutFailed(w) \/ FrameFetched(w) PROVE StoreStays'
    BY <1>1 DEF PutFailed, FrameFetched
  <1>2. ASSUME NEW w \in Workers, LocalStep(w) \/ RemoteStep(w),
               ~PutFailed(w), ~FrameFetched(w)
        PROVE  UNCHANGED <<putFailed, storeOn, kind>>
    BY <1>2 DEF LocalStep, RemoteStep, Take, Stop, CacheMiss, CacheHit, CacheVerified,
       CacheCorrupt, CacheEvicted, RequestCancelled, Verified, VerifyFailed, BackoffOver,
       PutStored, FrameVerified, FrameCorrupt, FrameCorruptAgain, FrameEvicted,
       FrameEvictFailed, ReplyBody, ReplyBad, ReplyFatal, FrameHit, FrameBad, FrameFinal,
       FrameCallFails
  <1>3. CASE OuterAbort \/ Settle \/ UNCHANGED vars
    BY <1>3 DEF OuterAbort, Settle, vars
  <1> QED
    BY <1>1, <1>2, <1>3 DEF Next, Settled

\* The chunk a step hands over is in the store by then.
LEMMA HandedKept ==
  ASSUME TypeInv, TypeInv', LoopInv, OutcomeInv, [Next]_vars
  PROVE  HandedIsCached'
  <1> SUFFICES ASSUME ~putFailed', kind' # "none", NEW c \in Chunks, handed'[c] # <<>>
               PROVE  cached'[c] = "good"
    BY DEF HandedIsCached
  <1>0. /\ InFlightAlone /\ StoresVerified /\ HandedIsCached /\ StoreStays
        /\ pc \in [Workers -> Waits \cup FrameWaits]
        /\ cached \in [Chunks -> Bytes \cup {"absent"}]
    BY DEF LoopInv, OutcomeInv, TypeInv, TypeOK
  <1>1. ASSUME NEW w \in Workers, LocalStep(w) \/ RemoteStep(w) PROVE cached'[c] = "good"
    <2>1. Apart(w) /\ ~putFailed /\ kind # "none"
      BY <1>1, StepIsApart DEF Apart
    <2>2. CASE ~(Busy(w) /\ c = item[w])
      BY <1>0, <2>1, <2>2 DEF Apart, HandedIsCached
    <2>3. CASE Busy(w) /\ c = item[w]
      <3>1. handed[c] = <<>>
        BY <1>0, <2>3 DEF InFlightAlone
      <3>2. Finishes(w)
        BY <1>0, <1>1, <2>3, <3>1, StepKinds DEF Take, Stop, Works, Quits, Busy
      <3>3. Account(w) /\ buf[w] = "good" /\ pc' = [pc EXCEPT ![w] = "idle"]
        BY <3>2 DEF OutcomeInv, Finishes, Finish, Goto
      <3>4. pc'[w] = "idle"
        BY <1>0, <3>3
      <3>5. CASE CacheVerified(w) \/ FrameVerified(w)
        BY <2>1, <2>3, <3>3, <3>5 DEF CacheVerified, FrameVerified, Account, HeldIsCached
      <3>6. CASE Verified(w)
        <4>1. storeOn
          BY <1>0, <2>1 DEF StoreStays
        <4> QED
          BY <1>0, <3>4, <3>6, <4>1 DEF Verified, Goto
      <3>7. CASE PutStored(w)
        BY <1>0, <2>3, <3>3, <3>7 DEF PutStored
      <3>8. ~PutFailed(w)
        BY DEF PutFailed
      <3>9. UNCHANGED <<failure, aborted>> /\ ~aborted
        BY <3>1, <3>2, <2>3 DEF Finishes, Finish, Closed
      <3>10. ~(\/ CacheMiss(w) \/ CacheHit(w) \/ CacheCorrupt(w) \/ CacheEvicted(w)
               \/ BackoffOver(w) \/ ReplyBody(w) \/ FrameHit(w) \/ FrameFetched(w)
               \/ FrameCorrupt(w))
        BY <1>0, <3>4, <3>9 DEF CacheMiss, CacheHit, CacheCorrupt, CacheEvicted, BackoffOver,
           ReplyBody, FrameHit, FrameFetched, FrameCorrupt, StartRequest, Goto
      <3>11. ~(\/ RequestCancelled(w) \/ VerifyFailed(w) \/ ReplyBad(w) \/ ReplyFatal(w)
               \/ FrameBad(w) \/ FrameFinal(w) \/ FrameCallFails(w) \/ FrameCorruptAgain(w)
               \/ FrameEvicted(w) \/ FrameEvictFailed(w))
        BY <1>0, <3>4, <3>9 DEF RequestCancelled, VerifyFailed, ReplyBad, ReplyFatal, FrameBad,
           FrameFinal, FrameCallFails, FrameCorruptAgain, FrameEvicted, FrameEvictFailed, RetryOrThrow,
           Throw, Goto
      <3>12. ~Take(w) /\ ~Stop(w)
        BY <2>3 DEF Take, Stop, Busy
      <3> QED
        BY <1>1, <3>5, <3>6, <3>7, <3>8, <3>10, <3>11, <3>12 DEF LocalStep, RemoteStep
    <2> QED BY <2>2, <2>3
  <1>2. CASE OuterAbort \/ Settle \/ UNCHANGED vars
    BY <1>0, <1>2 DEF OuterAbort, Settle, vars, historyVars, HandedIsCached
  <1> QED
    BY <1>1, <1>2 DEF Next, Settled

LEMMA FailedKept ==
  ASSUME TypeInv, LoopInv, FailedForGood, [Next]_vars
  PROVE  FailedForGood'
  <1>1. ASSUME NEW w \in Workers, LocalStep(w) \/ RemoteStep(w) PROVE FailedForGood'
    BY <1>1, StepKinds DEF LoopInv, FailedForGood, Take, Stop, Works, Quits, Finishes,
       Rest, Throw, sharedVars
  <1>2. CASE OuterAbort
    BY <1>2 DEF OuterAbort, FailedForGood
  <1>3. CASE Settle
    BY <1>3 DEF Settle, FailedForGood, TypeInv, TypeOK
  <1>4. CASE UNCHANGED vars
    BY <1>4 DEF vars, FailedForGood
  <1> QED
    BY <1>1, <1>2, <1>3, <1>4 DEF Next, Settled

LEMMA InitOutcomeInv == Init => OutcomeInv /\ FailureIsEarned
  BY DEF Init, OutcomeInv, Account, Busy, StoreStays, HandedIsCached, FailedForGood,
     FailureIsEarned

LEMMA NextOutcomeInv ==
  LoopInv /\ TypeInv /\ TypeInv' /\ OutcomeInv /\ [Next]_vars => OutcomeInv'
  <1> SUFFICES ASSUME LoopInv, TypeInv, TypeInv', OutcomeInv, [Next]_vars
               PROVE  OutcomeInv'
    OBVIOUS
  <1>1. ASSUME NEW v \in Workers PROVE Account(v)'
    <2>1. ASSUME NEW w \in Workers, LocalStep(w) \/ RemoteStep(w) PROVE Account(v)'
      <3>1. CASE v = w
        BY <2>1, <3>1, OwnAccountKept DEF OutcomeInv
      <3>2. CASE v # w
        BY <2>1, <3>2, StepIsApart, OthersKeepAccount DEF OutcomeInv, LoopInv
      <3> QED BY <3>1, <3>2
    <2>2. CASE OuterAbort \/ Settle \/ UNCHANGED vars
      BY <2>2 DEF OuterAbort, Settle, vars, loopVars, historyVars, OutcomeInv, Account, Busy,
         NetworkPaid, FramePaid, HeldIsCached
    <2> QED
      BY <2>1, <2>2 DEF Next, Settled
  <1>2. StoreStays' /\ HandedIsCached' /\ FailedForGood'
    BY StoreKept, HandedKept, FailedKept DEF OutcomeInv
  <1> QED
    BY <1>1, <1>2 DEF OutcomeInv

LEMMA OutcomeInvHolds == Spec => [](LoopInv /\ TypeInv /\ OutcomeInv)
  <1>1. Init => OutcomeInv
    BY InitOutcomeInv
  <1>2. LoopInv /\ TypeInv /\ TypeInv' /\ OutcomeInv /\ [Next]_vars => OutcomeInv'
    BY NextOutcomeInv
  <1> QED
    BY <1>1, <1>2, InvariantHolds, PTL DEF Spec

\* What fails a load, for every retry budget and any number of workers: the
\* CDN, by a final reply or because every attempt of a chunk was paid for with a
\* bad reply, and, only where the store is the frame, a call on it that failed
\* by itself (fetcher.ts, withRetry and the two paths of `one`). The hypothesis
\* leaves out a budget of no retries with a frame store: there the one eviction
\* that fetcher.ts allows is itself the last attempt.
THEOREM FailuresAreEarned ==
  ASSUME RefetchIsAllowed
  PROVE  Spec => []FailureIsEarned
  <1>1. Init => FailureIsEarned
    BY InitOutcomeInv
  <1>2. FailureIsEarned /\ LoopInv /\ TypeInv /\ OutcomeInv /\ TypeInv' /\ [Next]_vars
          => FailureIsEarned'
    BY FailureKept
  <1> QED
    BY <1>1, <1>2, OutcomeInvHolds, PTL DEF Spec

\* A completed load whose writes succeeded has a verified body stored under
\* every chunk, whatever the store held before (fetcher.ts: the cache is read,
\* checked, evicted and written by `one`).
THEOREM CachesAreHealed == Spec => []CacheIsHealed
  <1>1. LoopInv /\ OutcomeInv => CacheIsHealed
    <2> SUFFICES ASSUME LoopInv, OutcomeInv, outcome = "done", kind # "none", ~putFailed,
                        NEW c \in Chunks
                 PROVE  cached[c] = "good"
      BY DEF CacheIsHealed
    <2>1. handed[c] = <<"good">>
      BY DoneMeansAll DEF LoopInv, SettledQuietly
    <2> QED
      BY <2>1 DEF OutcomeInv, HandedIsCached
  <1> QED
    BY <1>1, OutcomeInvHolds, PTL

\* An abort by the caller, in a load where nothing had failed, is what the load
\* reports, whatever the cancelled requests do (fetcher.ts, the worker's catch
\* and the end of fetchChunks).
THEOREM AbortsAreReported == Spec => AbortIsReported
  <1>1. LoopInv /\ TypeInv /\ OutcomeInv /\ [Next]_vars
          => [outerAborted /\ failure = "none"
                => failure' # "error" /\ outcome' \notin {"done", "failed"}]_vars
    <2> SUFFICES ASSUME LoopInv, TypeInv, OutcomeInv, [Next]_vars,
                        outerAborted, failure = "none"
                 PROVE  failure' # "error" /\ outcome' \notin {"done", "failed"}
      OBVIOUS
    <2>1. aborted /\ outcome \notin {"done", "failed"}
      BY DEF LoopInv, SignalsAgree, SettledQuietly, Closed, OutcomeInv, FailedForGood
    <2>2. ASSUME NEW w \in Workers, LocalStep(w) \/ RemoteStep(w)
          PROVE  failure' # "error" /\ outcome' = outcome
      BY <2>2, StepKinds DEF LoopInv, Take, Stop, Works, Quits, Finishes, Rest, Throw,
         sharedVars
    <2>3. CASE OuterAbort \/ UNCHANGED vars
      BY <2>1, <2>3 DEF OuterAbort, vars
    <2>4. CASE Settle
      BY <2>1, <2>4 DEF Settle, TypeInv, TypeOK
    <2> QED
      BY <2>1, <2>2, <2>3, <2>4 DEF Next, Settled
  <1> QED
    BY <1>1, OutcomeInvHolds, PTL DEF Spec, AbortIsReported
=============================================================================
