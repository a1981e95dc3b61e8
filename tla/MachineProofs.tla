---------------------------- MODULE MachineProofs ----------------------------
(***************************************************************************)
(* Proofs about the machines of Bench, for any number of requests, calls   *)
(* and runs in any order: what a worker answers from memory (EdgeCache),   *)
(* its keys and counters (ControlPlane), the runtimes and the device a     *)
(* page's runs share (SharedRuns), its chunk store (SharedStore) and the   *)
(* calls on its cache frame (FrameChannel).                                *)
(***************************************************************************)
EXTENDS FrameChannel, SharedState, ControlPlane, EdgeCache, FiniteSetTheorems,
        SequenceTheorems, TLAPS

(***************************************************************************)
(* EdgeCache                                                               *)
(***************************************************************************)

VersionOrNot == Versions \cup {NoVersion}
ReaderStates == {"idle", "notFound", "unchanged", "got", "answered", "found", "fetching",
                 "served", "planned", "tokenless", "querying", "counted"}
Buckets == [chunks : SUBSET UNION {ChunksOf[v] : v \in Versions}, hashed : SUBSET Versions,
            latest : VersionOrNot]
Plans == [at : Nat, born : Nat]
Entries == [shape : BOOLEAN, rows : BOOLEAN, born : Nat, put : Nat]
Memos == [sha : [Versions -> VersionOrNot], plan : {<<>>} \cup {<<p>> : p \in Plans},
          stats : {<<>>} \cup {<<e>> : e \in Entries}]
ReaderRecords == [at : ReaderStates, asked : Nat, body : VersionOrNot, sha : VersionOrNot,
                  born : Nat, rows : BOOLEAN, kept : BOOLEAN]

EdgeTypes ==
  /\ clock \in Nat
  /\ bucket \in Buckets
  /\ upload \in [Versions -> {"chunks", "hashed", "done"}]
  /\ memo \in Memos
  /\ reader \in [Readers -> ReaderRecords]

\* A manifest gets its name in the store after its chunks, and is the latest
\* after that; nothing is ever taken out.
UploadKept ==
  /\ \A v \in bucket.hashed : ChunksOf[v] \subseteq bucket.chunks
  /\ bucket.latest \in bucket.hashed \cup {NoVersion}
  /\ \A v \in Versions : upload[v] = "hashed" => v \in bucket.hashed

\* What is remembered is true of what it is remembered for: a hash of its
\* version, a plan no older than its date, statistics with rows.
MemoKept ==
  /\ \A v \in Versions : memo.sha[v] \in {v, NoVersion}
  /\ memo.plan # <<>> => memo.plan[1].at <= memo.plan[1].born
  /\ memo.stats # <<>> /\ memo.stats[1].shape => memo.stats[1].rows

\* A request's record is true of the time and of the manifests in the store.
RecordKept(x, now, hashed) ==
  /\ x.at \in {"got", "unchanged", "answered"} => x.body \in hashed
  /\ x.sha \in {NoVersion, x.body}
  /\ x.at = "fetching" => x.asked <= now
  /\ x.at = "served" => x.asked <= x.born
  /\ x.at = "planned" => x.asked - x.born <= PlanCache
  /\ x.at = "counted" /\ x.kept => x.rows

ReadersKept == \A r \in Readers : RecordKept(reader[r], clock, bucket.hashed)

EdgeInv == EdgeTypes /\ UploadKept /\ MemoKept /\ ReadersKept

\* One request's record changes, and the rest stay as they were.
LEMMA EdgeMove ==
  ASSUME EdgeInv, NEW r \in Readers, NEW x \in ReaderRecords,
         reader' = [reader EXCEPT ![r] = x], clock' = clock, bucket' = bucket,
         RecordKept(x, clock, bucket.hashed)
  PROVE  reader' \in [Readers -> ReaderRecords] /\ ReadersKept'
  BY DEF EdgeInv, EdgeTypes, ReadersKept

\* Time passes or manifests are added, and no request's record changes.
LEMMA EdgeStay ==
  ASSUME EdgeInv, reader' = reader, clock' \in Nat, clock' >= clock,
         bucket'.hashed \in SUBSET Versions, bucket.hashed \subseteq bucket'.hashed
  PROVE  ReadersKept'
<1> SUFFICES ASSUME NEW r \in Readers PROVE RecordKept(reader[r], clock', bucket'.hashed)
  BY DEF ReadersKept
<1>1. RecordKept(reader[r], clock, bucket.hashed) /\ reader[r] \in ReaderRecords /\ clock \in Nat
  BY DEF EdgeInv, EdgeTypes, ReadersKept
<1> QED BY <1>1 DEF RecordKept, ReaderRecords

LEMMA EdgeInitInv ==
  ASSUME EdgeAssumption, ECInit
  PROVE  EdgeInv
<1>1. Waiting \in ReaderRecords /\ RecordKept(Waiting, 0, {})
  BY EdgeAssumption DEF Waiting, ReaderRecords, ReaderStates, RecordKept, VersionOrNot
<1>2. OldEntry \in Entries
  BY DEF OldEntry, Entries
<1>3. [v \in Versions |-> NoVersion] \in [Versions -> VersionOrNot]
  BY DEF VersionOrNot
<1>4. memo \in Memos
  BY <1>2, <1>3 DEF ECInit, Memos
<1>5. EdgeTypes
  BY <1>1, <1>4 DEF ECInit, EdgeTypes, Buckets, VersionOrNot
<1>6. UploadKept
  BY DEF ECInit, UploadKept
<1>7. MemoKept
  BY DEF ECInit, MemoKept, OldEntry
<1> QED BY <1>1, <1>5, <1>6, <1>7 DEF ECInit, EdgeInv, ReadersKept

LEMMA UploadStepKeeps ==
  ASSUME EdgeInv, NEW v \in Versions,
         PutChunk(v) \/ PutHashed(v) \/ PutLatest(v) \/ Rerun(v)
  PROVE  EdgeInv'
<1> USE DEF EdgeInv
<1>t. EdgeTypes /\ UploadKept /\ MemoKept
  OBVIOUS
<1>0. bucket \in Buckets /\ upload \in [Versions -> {"chunks", "hashed", "done"}]
      /\ memo' = memo /\ reader' = reader /\ clock' = clock /\ clock \in Nat
  BY DEF EdgeTypes, PutChunk, PutHashed, PutLatest, Rerun
<1>1. /\ bucket' \in Buckets /\ upload' \in [Versions -> {"chunks", "hashed", "done"}]
      /\ bucket.hashed \subseteq bucket'.hashed
      /\ UploadKept'
  <2>1. CASE PutChunk(v)
    <3>1. PICK c \in ChunksOf[v] \ bucket.chunks :
            bucket' = [bucket EXCEPT !.chunks = @ \cup {c}]
      BY <2>1 DEF PutChunk
    <3>2. c \in UNION {ChunksOf[w] : w \in Versions}
      BY <3>1
    <3>3. bucket' \in Buckets
      BY <1>0, <3>1, <3>2 DEF Buckets
    <3> QED BY <1>t, <1>0, <2>1, <3>1, <3>3 DEF PutChunk, UploadKept, Buckets
  <2>2. CASE PutHashed(v)
    <3>1. bucket' \in Buckets
      BY <1>0, <2>2 DEF PutHashed, Buckets
    <3> QED BY <1>t, <1>0, <2>2, <3>1 DEF PutHashed, UploadKept, Buckets
  <2>3. CASE PutLatest(v)
    <3>1. bucket' \in Buckets
      BY <1>0, <2>3 DEF PutLatest, Buckets, VersionOrNot
    <3> QED BY <1>t, <1>0, <2>3, <3>1 DEF PutLatest, UploadKept, Buckets
  <2>4. CASE Rerun(v)
    BY <1>t, <1>0, <2>4 DEF Rerun, UploadKept
  <2> QED BY <2>1, <2>2, <2>3, <2>4
<1>2. MemoKept'
  BY <1>t, <1>0 DEF MemoKept
<1>3. ReadersKept'
  BY <1>0, <1>1, EdgeStay DEF Buckets
<1> QED BY <1>t, <1>0, <1>1, <1>2, <1>3 DEF EdgeTypes

LEMMA TickKeeps ==
  ASSUME EdgeInv, Tick
  PROVE  EdgeInv'
<1>1. EdgeTypes /\ clock' = clock + 1 /\ bucket' = bucket /\ upload' = upload /\ memo' = memo
      /\ reader' = reader
  BY DEF EdgeInv, Tick
<1>2. ReadersKept'
  BY <1>1, EdgeStay DEF EdgeTypes, Buckets
<1> QED BY <1>1, <1>2 DEF EdgeInv, EdgeTypes, UploadKept, MemoKept

\* What a request's action must show: its record, and what is remembered.
LEMMA RequestKeeps ==
  ASSUME EdgeInv, NEW r \in Readers, NEW x \in ReaderRecords,
         reader' = [reader EXCEPT ![r] = x],
         clock' = clock, bucket' = bucket, upload' = upload,
         RecordKept(x, clock, bucket.hashed), memo' \in Memos, MemoKept'
  PROVE  EdgeInv'
<1>1. reader' \in [Readers -> ReaderRecords] /\ ReadersKept'
  BY EdgeMove
<1> QED BY <1>1 DEF EdgeInv, EdgeTypes, UploadKept

LEMMA GetLatestKeeps ==
  ASSUME EdgeAssumption, EdgeInv, NEW r \in Readers, NEW known, GetLatest(r, known)
  PROVE  EdgeInv'
<1>1. EdgeTypes /\ UploadKept /\ MemoKept /\ bucket \in Buckets
  BY DEF EdgeInv, EdgeTypes
<1>2. PICK x : x = [Waiting EXCEPT !.at = CASE bucket.latest = NoVersion -> "notFound"
                                [] bucket.latest \in {known} \ {NoVersion} -> "unchanged"
                                [] OTHER -> "got",
                       !.body = bucket.latest]
  OBVIOUS
<1>3. reader' = [reader EXCEPT ![r] = x] /\ clock' = clock /\ bucket' = bucket
      /\ upload' = upload /\ memo' = memo
  BY <1>2 DEF GetLatest
<1>4. x \in ReaderRecords /\ RecordKept(x, clock, bucket.hashed)
  <2>1. PICK stage : stage = CASE bucket.latest = NoVersion -> "notFound"
                          [] bucket.latest \in {known} \ {NoVersion} -> "unchanged"
                          [] OTHER -> "got"
    OBVIOUS
  <2>a. stage \in {"notFound", "unchanged", "got"} /\ (stage # "notFound" => bucket.latest # NoVersion)
    <3>1. CASE bucket.latest = NoVersion
      BY <2>1, <3>1
    <3>2. CASE bucket.latest # NoVersion /\ bucket.latest = known
      BY <2>1, <3>2
    <3>3. CASE bucket.latest # NoVersion /\ bucket.latest # known
      BY <2>1, <3>3
    <3> QED BY <3>1, <3>2, <3>3
  <2>b. x = [at |-> stage, asked |-> 0, body |-> bucket.latest, sha |-> NoVersion,
             born |-> 0, rows |-> FALSE, kept |-> FALSE]
    BY <1>2, <2>1 DEF Waiting
  <2>2. bucket.latest \in VersionOrNot /\ (stage # "notFound" => bucket.latest \in bucket.hashed)
    BY <1>1, <2>a DEF UploadKept, Buckets
  <2>3. x \in ReaderRecords
    BY <2>a, <2>b, <2>2 DEF ReaderRecords, ReaderStates, VersionOrNot
  <2>4. x.at \in {"notFound", "unchanged", "got"} /\ x.sha = NoVersion
        /\ (x.at # "notFound" => x.body \in bucket.hashed)
    BY <2>a, <2>b, <2>2
  <2> QED BY <2>3, <2>4 DEF RecordKept
<1>5. memo' \in Memos /\ MemoKept'
  BY <1>1, <1>3 DEF EdgeTypes, MemoKept
<1> QED BY <1>3, <1>4, <1>5, RequestKeeps

LEMMA AnswerHashKeeps ==
  ASSUME EdgeAssumption, EdgeInv, NEW r \in Readers, AnswerHash(r)
  PROVE  EdgeInv'
<1>1. EdgeTypes /\ UploadKept /\ MemoKept /\ bucket \in Buckets /\ memo \in Memos
      /\ reader[r] \in ReaderRecords /\ RecordKept(reader[r], clock, bucket.hashed)
  BY DEF EdgeInv, EdgeTypes, ReadersKept
<1>2. PICK v : v = reader[r].body
  OBVIOUS
<1>3. v \in bucket.hashed /\ v \in Versions
  BY <1>1, <1>2 DEF AnswerHash, RecordKept, Buckets
<1>4. PICK sha :
        /\ \E known \in {memo.sha[v], NoVersion} :
             sha = IF known = NoVersion /\ reader[r].at = "got" THEN v ELSE known
        /\ reader' = [reader EXCEPT ![r].sha = sha, ![r].at = "answered"]
        /\ memo' = [memo EXCEPT !.sha[v] = sha] \/ memo' = memo
  BY <1>2 DEF AnswerHash
<1>5. sha \in {v, NoVersion}
  BY <1>1, <1>3, <1>4 DEF MemoKept
<1>6. PICK x : x = [reader[r] EXCEPT !.sha = sha, !.at = "answered"]
  OBVIOUS
<1>7. reader' = [reader EXCEPT ![r] = x] /\ clock' = clock /\ bucket' = bucket /\ upload' = upload
  BY <1>1, <1>2, <1>4, <1>6 DEF AnswerHash, ReaderRecords
<1>8. x \in ReaderRecords /\ RecordKept(x, clock, bucket.hashed)
  BY <1>1, <1>2, <1>3, <1>5, <1>6 DEF ReaderRecords, ReaderStates, RecordKept, VersionOrNot
<1>9. memo' \in Memos /\ MemoKept'
  <2>1. CASE memo' = [memo EXCEPT !.sha[v] = sha]
    <3>1. memo.sha \in [Versions -> VersionOrNot]
          /\ memo.plan \in {<<>>} \cup {<<p>> : p \in Plans}
          /\ memo.stats \in {<<>>} \cup {<<e>> : e \in Entries}
      BY <1>1 DEF Memos
    <3>2. memo'.sha = [memo.sha EXCEPT ![v] = sha]
          /\ memo'.plan = memo.plan /\ memo'.stats = memo.stats
      BY <1>1, <2>1 DEF Memos
    <3>3. sha \in VersionOrNot
      BY <1>3, <1>5 DEF VersionOrNot
    <3>4. [memo.sha EXCEPT ![v] = sha] \in [Versions -> VersionOrNot]
      BY <3>1, <3>3
    <3>5. memo' \in Memos
      BY <1>1, <2>1, <3>1, <3>4 DEF Memos
    <3>6. \A w \in Versions : memo'.sha[w] \in {w, NoVersion}
      BY <1>1, <1>5, <3>1, <3>2 DEF MemoKept
    <3> QED BY <1>1, <3>2, <3>5, <3>6 DEF MemoKept
  <2>2. CASE memo' = memo
    BY <1>1, <2>2 DEF MemoKept
  <2> QED BY <1>4, <2>1, <2>2
<1> QED BY <1>7, <1>8, <1>9, RequestKeeps

LEMMA GetHashedKeeps ==
  ASSUME EdgeAssumption, EdgeInv, NEW r \in Readers, GetHashed(r)
  PROVE  EdgeInv'
<1>1. EdgeTypes /\ MemoKept /\ reader[r] \in ReaderRecords
      /\ RecordKept(reader[r], clock, bucket.hashed)
  BY DEF EdgeInv, EdgeTypes, ReadersKept
<1>2. reader[r].sha \in bucket.hashed
  BY <1>1 DEF GetHashed, RecordKept
<1>3. PICK x : x = [reader[r] EXCEPT !.at = "found"]
  OBVIOUS
<1>4. reader' = [reader EXCEPT ![r] = x] /\ clock' = clock /\ bucket' = bucket
      /\ upload' = upload /\ memo' = memo
  BY <1>1, <1>2, <1>3 DEF GetHashed, ReaderRecords
<1>5. x \in ReaderRecords /\ RecordKept(x, clock, bucket.hashed)
  BY <1>1, <1>3 DEF ReaderRecords, ReaderStates, RecordKept
<1>6. memo' \in Memos /\ MemoKept'
  BY <1>1, <1>4 DEF EdgeTypes, MemoKept
<1> QED BY <1>4, <1>5, <1>6, RequestKeeps

LEMMA AskPlanKeeps ==
  ASSUME EdgeAssumption, EdgeInv, NEW r \in Readers, AskPlan(r)
  PROVE  EdgeInv'
<1>1. EdgeTypes /\ MemoKept /\ memo \in Memos /\ clock \in Nat
  BY DEF EdgeInv, EdgeTypes
<1>2. reader' \in {[reader EXCEPT ![r] = x] : x \in {[Waiting EXCEPT !.at = "planned",
                     !.asked = clock, !.born = memo.plan[1].born],
                   [Waiting EXCEPT !.at = "fetching", !.asked = clock]}}
      /\ clock' = clock /\ bucket' = bucket /\ upload' = upload /\ memo' = memo
  BY DEF AskPlan
<1>3. memo' \in Memos /\ MemoKept'
  BY <1>1, <1>2 DEF MemoKept
<1>4. CASE memo.plan # <<>> /\ clock - memo.plan[1].at <= PlanCache
  <2>1. PICK x : x = [Waiting EXCEPT !.at = "planned", !.asked = clock,
                                     !.born = memo.plan[1].born]
    OBVIOUS
  <2>2. reader' = [reader EXCEPT ![r] = x]
    BY <1>4, <2>1 DEF AskPlan
  <2>3. memo.plan[1] \in Plans
    BY <1>1, <1>4 DEF Memos
  <2>4. memo.plan[1].at \in Nat /\ memo.plan[1].born \in Nat
        /\ memo.plan[1].at <= memo.plan[1].born
    BY <1>1, <1>4, <2>3 DEF MemoKept, Plans
  <2>5. x = [at |-> "planned", asked |-> clock, body |-> NoVersion, sha |-> NoVersion,
             born |-> memo.plan[1].born, rows |-> FALSE, kept |-> FALSE]
    BY <2>1 DEF Waiting
  <2>6. clock - memo.plan[1].born <= PlanCache
    BY <1>1, <1>4, <2>4, EdgeAssumption DEF EdgeAssumption
  <2>7. x \in ReaderRecords /\ RecordKept(x, clock, bucket.hashed)
    BY <1>1, <2>4, <2>5, <2>6 DEF ReaderRecords, ReaderStates, RecordKept, VersionOrNot
  <2> QED BY <1>2, <1>3, <2>2, <2>7, RequestKeeps
<1>5. CASE ~(memo.plan # <<>> /\ clock - memo.plan[1].at <= PlanCache)
  <2>1. PICK x : x = [Waiting EXCEPT !.at = "fetching", !.asked = clock]
    OBVIOUS
  <2>2. reader' = [reader EXCEPT ![r] = x]
    BY <1>5, <2>1 DEF AskPlan
  <2>3. x = [at |-> "fetching", asked |-> clock, body |-> NoVersion, sha |-> NoVersion,
             born |-> 0, rows |-> FALSE, kept |-> FALSE]
    BY <2>1 DEF Waiting
  <2>4. x \in ReaderRecords /\ RecordKept(x, clock, bucket.hashed)
    BY <1>1, <2>3 DEF ReaderRecords, ReaderStates, RecordKept, VersionOrNot
  <2> QED BY <1>2, <1>3, <2>2, <2>4, RequestKeeps
<1> QED BY <1>4, <1>5

LEMMA ServePlanKeeps ==
  ASSUME EdgeInv, NEW r \in Readers, ServePlan(r)
  PROVE  EdgeInv'
<1>1. EdgeTypes /\ MemoKept /\ reader[r] \in ReaderRecords /\ clock \in Nat
      /\ RecordKept(reader[r], clock, bucket.hashed)
  BY DEF EdgeInv, EdgeTypes, ReadersKept
<1>2. PICK x : x = [reader[r] EXCEPT !.at = "served", !.born = clock]
  OBVIOUS
<1>3. reader' = [reader EXCEPT ![r] = x] /\ clock' = clock /\ bucket' = bucket
      /\ upload' = upload /\ memo' = memo
  BY <1>1, <1>2 DEF ServePlan, ReaderRecords
<1>4. x \in ReaderRecords /\ RecordKept(x, clock, bucket.hashed)
  BY <1>1, <1>2 DEF ServePlan, ReaderRecords, ReaderStates, RecordKept
<1>5. memo' \in Memos /\ MemoKept'
  BY <1>1, <1>3 DEF EdgeTypes, MemoKept
<1> QED BY <1>3, <1>4, <1>5, RequestKeeps

\* The plan kept is dated when its request came in, so it is no older than that.
LEMMA KeepPlanKeeps ==
  ASSUME EdgeAssumption, EdgeInv, NEW r \in Readers, KeepPlan(r)
  PROVE  EdgeInv'
<1>1. EdgeTypes /\ MemoKept /\ memo \in Memos /\ reader[r] \in ReaderRecords /\ clock \in Nat
      /\ RecordKept(reader[r], clock, bucket.hashed) /\ reader[r].at \in {"served", "fetching"}
  BY DEF EdgeInv, EdgeTypes, ReadersKept, KeepPlan
<1>2. PICK born : born = IF reader[r].at = "served" THEN reader[r].born ELSE clock
  OBVIOUS
<1>3. born \in Nat /\ reader[r].asked \in Nat /\ reader[r].asked <= born
  BY <1>1, <1>2 DEF ReaderRecords, RecordKept
<1>4. PICK x : x = [reader[r] EXCEPT !.at = "planned", !.born = born]
  OBVIOUS
<1>5. PICK p : p = [at |-> reader[r].asked, born |-> born]
  OBVIOUS
<1>6. reader' = [reader EXCEPT ![r] = x] /\ clock' = clock /\ bucket' = bucket
      /\ upload' = upload /\ memo' = [memo EXCEPT !.plan = <<p>>]
  BY <1>1, <1>2, <1>4, <1>5 DEF KeepPlan, ReaderRecords
<1>7. x \in ReaderRecords /\ RecordKept(x, clock, bucket.hashed)
  <2>1. x \in ReaderRecords
    BY <1>1, <1>3, <1>4 DEF ReaderRecords, ReaderStates
  <2>2. x.at = "planned" /\ x.born = born /\ x.asked = reader[r].asked
        /\ x.sha = reader[r].sha /\ x.body = reader[r].body
    BY <1>1, <1>4 DEF ReaderRecords
  <2>3. x.asked - x.born <= PlanCache
    BY <1>3, <2>2, EdgeAssumption DEF EdgeAssumption
  <2> QED BY <1>1, <2>1, <2>2, <2>3 DEF RecordKept
<1>8. p \in Plans /\ p.at <= p.born
  BY <1>3, <1>5 DEF Plans
<1>9. memo' \in Memos
  BY <1>1, <1>6, <1>8 DEF Memos
<1>10. memo'.sha = memo.sha /\ memo'.stats = memo.stats /\ memo'.plan = <<p>>
  BY <1>1, <1>6 DEF Memos
<1>11. MemoKept'
  BY <1>1, <1>8, <1>10 DEF MemoKept
<1> QED BY <1>6, <1>7, <1>9, <1>11, RequestKeeps

LEMMA AskStatsKeeps ==
  ASSUME EdgeAssumption, EdgeInv, NEW r \in Readers, AskStats(r)
  PROVE  EdgeInv'
<1>1. EdgeTypes /\ MemoKept /\ memo \in Memos /\ clock \in Nat
  BY DEF EdgeInv, EdgeTypes
<1>2. clock' = clock /\ bucket' = bucket /\ upload' = upload /\ memo' = memo
  BY DEF AskStats
<1>3. memo' \in Memos /\ MemoKept'
  BY <1>1, <1>2 DEF MemoKept
<1>4. CASE /\ memo.stats # <<>> /\ memo.stats[1].shape
           /\ reader' = [reader EXCEPT ![r] =
                [Waiting EXCEPT !.at = "counted", !.asked = clock, !.kept = TRUE,
                                !.rows = memo.stats[1].rows, !.born = memo.stats[1].born]]
  <2>1. PICK x : x = [Waiting EXCEPT !.at = "counted", !.asked = clock, !.kept = TRUE,
                            !.rows = memo.stats[1].rows, !.born = memo.stats[1].born]
    OBVIOUS
  <2>2. reader' = [reader EXCEPT ![r] = x]
    BY <1>4, <2>1
  <2>3. memo.stats[1] \in Entries
    BY <1>1, <1>4 DEF Memos
  <2>4. memo.stats[1].rows = TRUE /\ memo.stats[1].born \in Nat
    BY <1>1, <1>4, <2>3 DEF MemoKept, Entries
  <2>5. x = [at |-> "counted", asked |-> clock, body |-> NoVersion, sha |-> NoVersion,
             born |-> memo.stats[1].born, rows |-> TRUE, kept |-> TRUE]
    BY <2>1, <2>4 DEF Waiting
  <2>6. x \in ReaderRecords /\ RecordKept(x, clock, bucket.hashed)
    BY <1>1, <2>4, <2>5 DEF ReaderRecords, ReaderStates, RecordKept, VersionOrNot
  <2> QED BY <1>2, <1>3, <2>2, <2>6, RequestKeeps
<1>5. ASSUME NEW x, NEW stage \in {"tokenless", "querying"}, NEW may \in BOOLEAN,
             x = [at |-> stage, asked |-> clock, body |-> NoVersion, sha |-> NoVersion,
                  born |-> 0, rows |-> FALSE, kept |-> may],
             reader' = [reader EXCEPT ![r] = x]
      PROVE  EdgeInv'
  <2>1. x \in ReaderRecords /\ RecordKept(x, clock, bucket.hashed)
    BY <1>1, <1>5 DEF ReaderRecords, ReaderStates, RecordKept, VersionOrNot
  <2> QED BY <1>2, <1>3, <1>5, <2>1, RequestKeeps
<1>6. CASE reader' = [reader EXCEPT ![r] =
             [Waiting EXCEPT !.at = "tokenless", !.asked = clock, !.kept = TRUE]]
  <2>1. PICK x : x = [Waiting EXCEPT !.at = "tokenless", !.asked = clock, !.kept = TRUE]
    OBVIOUS
  <2>2. x = [at |-> "tokenless", asked |-> clock, body |-> NoVersion, sha |-> NoVersion,
             born |-> 0, rows |-> FALSE, kept |-> TRUE]
    BY <2>1 DEF Waiting
  <2> QED BY <1>5, <1>6, <2>1, <2>2
<1>7. CASE reader' = [reader EXCEPT ![r] = [Waiting EXCEPT !.at = "querying", !.asked = clock]]
  <2>1. PICK x : x = [Waiting EXCEPT !.at = "querying", !.asked = clock]
    OBVIOUS
  <2>2. x = [at |-> "querying", asked |-> clock, body |-> NoVersion, sha |-> NoVersion,
             born |-> 0, rows |-> FALSE, kept |-> FALSE]
    BY <2>1 DEF Waiting
  <2> QED BY <1>5, <1>7, <2>1, <2>2
<1> QED BY <1>4, <1>6, <1>7 DEF AskStats

LEMMA QueryStatsKeeps ==
  ASSUME EdgeInv, NEW r \in Readers, QueryStats(r)
  PROVE  EdgeInv'
<1>1. EdgeTypes /\ MemoKept /\ memo \in Memos /\ reader[r] \in ReaderRecords /\ clock \in Nat
      /\ RecordKept(reader[r], clock, bucket.hashed)
  BY DEF EdgeInv, EdgeTypes, ReadersKept
<1>2. PICK hasRows \in BOOLEAN :
       /\ reader' = [reader EXCEPT ![r].at = "counted", ![r].rows = hasRows, ![r].born = clock,
                                   ![r].kept = hasRows]
       /\ \/ /\ hasRows
             /\ memo' = [memo EXCEPT !.stats =
                  <<[shape |-> TRUE, rows |-> TRUE, born |-> clock, put |-> clock]>>]
          \/ memo' = memo
  BY DEF QueryStats
<1>3. PICK x : x = [reader[r] EXCEPT !.at = "counted", !.rows = hasRows, !.born = clock,
                                     !.kept = hasRows]
  OBVIOUS
<1>4. reader' = [reader EXCEPT ![r] = x] /\ clock' = clock /\ bucket' = bucket
      /\ upload' = upload
  BY <1>1, <1>2, <1>3 DEF QueryStats, ReaderRecords
<1>5. x \in ReaderRecords /\ RecordKept(x, clock, bucket.hashed)
  <2>1. x \in ReaderRecords
    BY <1>1, <1>2, <1>3 DEF ReaderRecords, ReaderStates
  <2>2. x.at = "counted" /\ x.rows = hasRows /\ x.kept = hasRows
        /\ x.sha = reader[r].sha /\ x.body = reader[r].body
    BY <1>1, <1>3 DEF ReaderRecords
  <2> QED BY <1>1, <2>1, <2>2 DEF RecordKept
<1>6. memo' \in Memos /\ MemoKept'
  <2>1. CASE memo' = memo
    BY <1>1, <2>1 DEF MemoKept
  <2>2. CASE memo' = [memo EXCEPT !.stats =
                  <<[shape |-> TRUE, rows |-> TRUE, born |-> clock, put |-> clock]>>]
    <3>1. PICK e : e = [shape |-> TRUE, rows |-> TRUE, born |-> clock, put |-> clock]
      OBVIOUS
    <3>2. e \in Entries /\ e.rows
      BY <1>1, <3>1 DEF Entries
    <3>3. memo' \in Memos
      BY <1>1, <2>2, <3>1, <3>2 DEF Memos
    <3>4. memo'.sha = memo.sha /\ memo'.plan = memo.plan /\ memo'.stats = <<e>>
      BY <1>1, <2>2, <3>1 DEF Memos
    <3> QED BY <1>1, <3>2, <3>3, <3>4 DEF MemoKept
  <2> QED BY <1>2, <2>1, <2>2
<1> QED BY <1>4, <1>5, <1>6, RequestKeeps

LEMMA ExpireStatsKeeps ==
  ASSUME EdgeInv, ExpireStats
  PROVE  EdgeInv'
<1>1. EdgeTypes /\ UploadKept /\ MemoKept /\ memo \in Memos /\ ReadersKept
      /\ memo' = [memo EXCEPT !.stats = <<>>]
      /\ clock' = clock /\ bucket' = bucket /\ upload' = upload /\ reader' = reader
  BY DEF EdgeInv, EdgeTypes, ExpireStats
<1>2. memo' \in Memos
  BY <1>1 DEF Memos
<1>3. memo'.sha = memo.sha /\ memo'.plan = memo.plan /\ memo'.stats = <<>>
  BY <1>1 DEF Memos
<1>4. MemoKept'
  BY <1>1, <1>3 DEF MemoKept
<1> QED BY <1>1, <1>2, <1>4 DEF EdgeInv, EdgeTypes, UploadKept, ReadersKept

LEMMA EdgeStepKeeps ==
  ASSUME EdgeAssumption, EdgeInv, [ManifestNext \/ PlanNext \/ StatsNext]_ecVars
  PROVE  EdgeInv'
<1>1. CASE ManifestNext
  <2>1. CASE \E v \in Versions : PutChunk(v) \/ PutHashed(v) \/ PutLatest(v) \/ Rerun(v)
    BY <2>1, UploadStepKeeps
  <2>2. CASE \E r \in Readers :
               \/ \E known \in Versions \cup {NoVersion} : GetLatest(r, known)
               \/ AnswerHash(r) \/ GetHashed(r)
    BY <2>2, GetLatestKeeps, AnswerHashKeeps, GetHashedKeeps
  <2> QED BY <1>1, <2>1, <2>2 DEF ManifestNext
<1>2. CASE PlanNext
  BY <1>2, TickKeeps, AskPlanKeeps, ServePlanKeeps, KeepPlanKeeps DEF PlanNext
<1>3. CASE StatsNext
  BY <1>3, TickKeeps, ExpireStatsKeeps, AskStatsKeeps, QueryStatsKeeps DEF StatsNext
<1>4. CASE UNCHANGED ecVars
  BY <1>4 DEF ecVars, EdgeInv, EdgeTypes, UploadKept, MemoKept, ReadersKept
<1> QED BY <1>1, <1>2, <1>3, <1>4

LEMMA EdgeInvTrue ==
  ASSUME EdgeInv
  PROVE  EdgeIsTrue
<1>1. EdgeTypes /\ UploadKept /\ ReadersKept /\ bucket \in Buckets
  BY DEF EdgeInv, EdgeTypes
<1>2. ASSUME NEW r \in Readers
      PROVE  reader[r] \in ReaderRecords /\ RecordKept(reader[r], clock, bucket.hashed)
  BY <1>1 DEF EdgeTypes, ReadersKept
<1>3. AdvertisedManifestLoads
  BY <1>1, <1>2
  DEF AdvertisedManifestLoads, UploadKept, RecordKept, ReaderRecords, ReaderStates
<1>4. RememberedIsFresh
  BY <1>2 DEF RememberedIsFresh, RecordKept
<1> QED BY <1>3, <1>4 DEF EdgeIsTrue

\* For any number of versions, requests and uploads stopped anywhere: a manifest
\* that can be read loads, the hash advertised is its body's, no plan answered
\* was older than PLAN_CACHE_MS when its request came in, and only statistics
\* with rows may be kept (manifest.ts, split.ts, stats.ts, sessions.ts, r2.py).
THEOREM EdgeAnswersAreTrue == ECSpec => []EdgeIsTrue
<1>1. ECInit => EdgeInv
  BY EdgeAssumption, EdgeInitInv
<1>2. EdgeInv /\ [ManifestNext \/ PlanNext \/ StatsNext]_ecVars => EdgeInv'
  BY EdgeAssumption, EdgeStepKeeps
<1>3. EdgeInv => EdgeIsTrue
  BY EdgeInvTrue
<1> QED BY <1>1, <1>2, <1>3, PTL DEF ECSpec

(***************************************************************************)
(* ControlPlane                                                            *)
(***************************************************************************)

Optional(S) == {<<>>} \cup {<<x>> : x \in S}
KeyRecords == [owner : KeyIds, revoked : BOOLEAN]
AnyValue == Optional(KeyRecords) \cup Optional(KeyIds) \cup Optional(SUBSET KeyIds)
              \cup Optional(Nat)
LimitedOps == {"open", "session", "report"}
AllOps == LimitedOps \cup {"owned", "list", "revoke"}
Stages == {"idle", "auth", "limit", "limitPut", "keyPut", "idPut", "ownerGet", "ownerPut",
           "find", "revoke", "revokePut", "ownerKeys", "usage", "usagePut", "done"}
Requesting == [op : AllOps \cup {"none"}, key : KeyIds \cup {NoKey}, id : KeyIds \cup {NoKey},
               at : Stages, seen : AnyValue, tries : Int, status : Nat, out : SUBSET KeyIds,
               gone : SUBSET KeyIds, made : SUBSET KeyIds]
Tallies == [raced : SUBSET Names, accepted : [KeyIds -> Nat], phantom : [Names -> Nat],
            rows : Nat, granted : [LimitedOps -> Nat], gone : SUBSET KeyIds,
            made : SUBSET KeyIds]

\* What may lie under the names of each kind.
StoreTyped(store) ==
  /\ store \in [Names -> AnyValue]
  /\ \A id \in KeyIds :
       /\ store[Record(id)] \in Optional(KeyRecords)
       /\ store[IdEntry(id)] \in Optional(KeyIds)
       /\ store[Owner(id)] \in Optional(SUBSET KeyIds)
       /\ store[Bucket(id)] \in Optional(Nat)
  /\ \A op \in LimitedOps : store[Counter(op)] \in Optional(Nat)

ControlTypes ==
  /\ StoreTyped(kv)
  /\ req \in [Requests -> Requesting]
  /\ tally \in Tallies

\* A key handed out is there under both its names; one whose revoking was
\* answered is revoked.
KeysKept ==
  /\ \A id \in tally.made : kv[Record(id)] # <<>> /\ kv[IdEntry(id)] # <<>>
  /\ \A id \in tally.gone : kv[Record(id)] # <<>> /\ kv[Record(id)][1].revoked

\* The list of an owner whose puts did not race names all of the owner's keys.
ListsKept ==
  \A o \in KeyIds : Owner(o) \notin tally.raced =>
    \A id \in tally.made : kv[Record(id)][1].owner = o => id \in Or(kv[Owner(o)], {})

InUsage(id) == {r \in Requests : req[r].at \in {"usage", "usagePut"} /\ req[r].key = id}

\* What is under a counter that was not raced is what it stands for; a report
\* being metered has its row.
CountsKept ==
  /\ \A id \in KeyIds :
       Bucket(id) \notin tally.raced =>
         Or(kv[Bucket(id)], 0) = tally.accepted[id] + tally.phantom[Bucket(id)]
  /\ \A op \in LimitedOps :
       Counter(op) \notin tally.raced =>
         /\ Or(kv[Counter(op)], 0) = tally.granted[op] + tally.phantom[Counter(op)]
         /\ tally.granted[op] <= Limit

RowsKept ==
  \A id \in KeyIds : tally.accepted[id] + Cardinality(InUsage(id)) <= tally.rows

\* Which steps an operation has.
StageOf(x) ==
  /\ x.at = "idle" => x.op = "none" /\ x.key = NoKey
  /\ x.at = "auth" => x.op \in AllOps \ {"open"}
  /\ x.at \in {"limit", "limitPut"} => x.op \in LimitedOps
  /\ x.at \in {"keyPut", "idPut", "ownerGet", "ownerPut"} => x.op \in {"open", "owned"}
  /\ x.at \in {"find", "revoke", "revokePut"} => x.op = "revoke" /\ x.id \in KeyIds
  /\ x.at = "ownerKeys" => x.op = "list"
  /\ x.at \in {"usage", "usagePut"} => x.op = "report" /\ x.key # NoKey
  /\ x.op = "revoke" => x.id \in KeyIds
  /\ x.op = "open" => x.key = NoKey
  /\ x.at # "done" => x.status = 0

Passed(x) == x.at \notin {"idle", "auth", "done"} \/ x.status = 200

\* The bearer: a key handed out, or one nobody will ever get; past the check it
\* is the former, and not one whose revocation had arrived before the request.
BearerKept(x, store, told) ==
  /\ x.gone \subseteq told.gone /\ x.made \subseteq told.made
  /\ x.key \in KeyIds \ told.made => store[Record(x.key)] = <<>>
  /\ Passed(x) /\ x.key # NoKey => x.key \in told.made
  /\ Passed(x) /\ x.op \in {"owned", "list", "revoke"} => x.key # NoKey
  /\ x.key \in x.gone => x.at = "auth" \/ x.status \in {403, 500}

\* The key a request makes or revokes, and what it has read.
TargetKept(x, store) ==
  /\ x.at \in {"idPut", "ownerGet", "ownerPut"} =>
       x.id \in KeyIds /\ store[Record(x.id)] # <<>>
  /\ x.at \in {"ownerGet", "ownerPut"} => store[IdEntry(x.id)] # <<>>
  /\ x.at \in {"revoke", "revokePut"} => store[Record(x.id)] # <<>>
  /\ x.at = "revokePut" => /\ x.seen # <<>> /\ x.seen \in Optional(KeyRecords)
                           /\ x.seen[1].owner = store[Record(x.id)][1].owner
  /\ x.at = "limitPut" => x.seen \in Optional(Nat) /\ Or(x.seen, 0) < Limit
  /\ x.at = "ownerPut" => x.seen \in Optional(SUBSET KeyIds)
  /\ x.at = "usagePut" => x.seen \in Optional(Nat)

SameOwner(a, b, store) == store[Record(a)][1].owner = store[Record(b)][1].owner

\* A key that has arrived is not unknown, and its owner's list names it.
MayTell(x, status, store) ==
  x.key \in x.made =>
    /\ status # 401
    /\ x.id \in x.made /\ SameOwner(x.id, x.key, store) => status # 404

KnownKept(x, store) == MayTell(x, x.status, store)

ListKept(x, store, told) ==
  x.key \in x.made /\ x.status = 200 /\ x.op = "list" =>
    /\ x.key \in x.out
    /\ Owner(store[Record(x.key)][1].owner) \notin told.raced =>
         \A id \in x.made : SameOwner(id, x.key, store) => id \in x.out

RequestKept(x, store, told) ==
  /\ StageOf(x) /\ BearerKept(x, store, told) /\ TargetKept(x, store)
  /\ KnownKept(x, store) /\ ListKept(x, store, told)

\* An earlier value of a record is of the same owner, and revoked only if the
\* record still is.
OldRecord(id, value) ==
  /\ value \in Optional(KeyRecords)
  /\ value # <<>> =>
       /\ kv[Record(id)] # <<>> /\ value[1].owner = kv[Record(id)][1].owner
       /\ value[1].revoked => kv[Record(id)][1].revoked

\* What a get may still return, of each kind.
OldKept ==
  /\ old \in [Names -> SUBSET AnyValue]
  /\ \A id \in KeyIds :
       /\ \A value \in old[Record(id)] : OldRecord(id, value)
       /\ old[Owner(id)] \subseteq Optional(SUBSET KeyIds)
       /\ old[Bucket(id)] \subseteq Optional(Nat)
  /\ \A op \in LimitedOps : old[Counter(op)] \subseteq Optional(Nat)

\* What had arrived before a request came in no location contradicts any more.
GoneWide(id) == \A value \in Gets(Record(id)) : value # <<>> /\ value[1].revoked

MadeWide(id) ==
  /\ <<>> \notin Gets(Record(id)) /\ <<>> \notin Gets(IdEntry(id))
  /\ \A o \in KeyIds : kv[Record(id)][1].owner = o /\ Owner(o) \notin tally.raced =>
       \A value \in Gets(Owner(o)) : id \in Or(value, {})

SameSight(x, y) == x.gone = y.gone /\ x.made = y.made

WideKept(x) == (\A id \in x.gone : GoneWide(id)) /\ \A id \in x.made : MadeWide(id)

ControlInv ==
  /\ ControlTypes /\ KeysKept /\ ListsKept /\ CountsKept /\ RowsKept /\ OldKept
  /\ \A r \in Requests : RequestKept(req[r], kv, tally) /\ WideKept(req[r])

LEMMA NameFacts ==
  /\ \A a \in KeyIds : {Record(a), IdEntry(a), Owner(a), Bucket(a)} \subseteq Names
  /\ \A op \in LimitedOps : Counter(op) \in Names
  /\ \A a, b \in KeyIds :
       /\ Record(a) = Record(b) => a = b
       /\ IdEntry(a) = IdEntry(b) => a = b
       /\ Owner(a) = Owner(b) => a = b
       /\ Bucket(a) = Bucket(b) => a = b
       /\ Record(a) \notin {IdEntry(b), Owner(b), Bucket(b)}
       /\ IdEntry(a) \notin {Record(b), Owner(b), Bucket(b)}
       /\ Owner(a) \notin {Record(b), IdEntry(b), Bucket(b)}
       /\ Bucket(a) \notin {Record(b), IdEntry(b), Owner(b)}
  /\ \A a \in KeyIds : \A op \in LimitedOps :
       Counter(op) \notin {Record(a), IdEntry(a), Owner(a), Bucket(a)}
  /\ \A op, other \in LimitedOps : Counter(op) = Counter(other) => op = other
BY DEF Names, Record, IdEntry, Owner, Bucket, Counter, LimitedOps

\* What lies in the store only grows: no name is emptied, no record changes hands
\* or comes back to life, and a bearer nobody was handed never becomes a key.
Forward ==
  \A id \in KeyIds :
    /\ kv[Record(id)] # <<>> =>
         /\ kv'[Record(id)] # <<>>
         /\ kv'[Record(id)][1].owner = kv[Record(id)][1].owner
         /\ kv[Record(id)][1].revoked => kv'[Record(id)][1].revoked
    /\ kv[IdEntry(id)] # <<>> => kv'[IdEntry(id)] # <<>>
    /\ (\E q \in Requests : req[q].key = id) /\ kv[Record(id)] = <<>> =>
         kv'[Record(id)] = <<>>

ToldTruly ==
  /\ tally' \in Tallies
  /\ tally.gone \subseteq tally'.gone /\ tally.made \subseteq tally'.made
  /\ tally.raced \subseteq tally'.raced
  /\ \A id \in tally'.made \ tally.made : kv'[Record(id)] # <<>> /\ kv'[IdEntry(id)] # <<>>
  /\ \A id \in tally'.gone \ tally.gone : kv'[Record(id)] # <<>> /\ kv'[Record(id)][1].revoked

\* No list loses a name, unless puts of it raced.
ListsGrow ==
  \A o \in KeyIds : Owner(o) \notin tally'.raced => Or(kv[Owner(o)], {}) \subseteq Or(kv'[Owner(o)], {})

\* A location returns only what it returned, or what was just overwritten.
OldMoves ==
  /\ old' \in [Names -> SUBSET AnyValue]
  /\ \A n \in Names : old'[n] \subseteq old[n] \cup {kv[n]}

LEMMA OldStays ==
  ASSUME ControlInv, StoreTyped(kv'), Forward, OldMoves
  PROVE  OldKept'
<1>1. OldKept /\ StoreTyped(kv)
  BY DEF ControlInv, ControlTypes
<1>2. ASSUME NEW id \in KeyIds, NEW value \in old'[Record(id)]
      PROVE  OldRecord(id, value)'
  <2>1. value \in old[Record(id)] \/ value = kv[Record(id)]
    BY <1>2, NameFacts DEF OldMoves
  <2>2. OldRecord(id, value)
    BY <1>1, <2>1 DEF OldKept, OldRecord, StoreTyped
  <2> QED BY <2>2 DEF OldRecord, Forward
<1>3. ASSUME NEW id \in KeyIds
      PROVE  old'[Owner(id)] \subseteq Optional(SUBSET KeyIds)
  <2>1. old'[Owner(id)] \subseteq old[Owner(id)] \cup {kv[Owner(id)]}
    BY NameFacts DEF OldMoves
  <2>2. /\ old[Owner(id)] \subseteq Optional(SUBSET KeyIds)
        /\ kv[Owner(id)] \in Optional(SUBSET KeyIds)
    BY <1>1 DEF OldKept, StoreTyped
  <2> QED BY <2>1, <2>2
<1>4. ASSUME NEW id \in KeyIds
      PROVE  old'[Bucket(id)] \subseteq Optional(Nat)
  BY <1>1, NameFacts DEF OldMoves, OldKept, StoreTyped
<1>5. ASSUME NEW op \in LimitedOps
      PROVE  old'[Counter(op)] \subseteq Optional(Nat)
  BY <1>1, NameFacts DEF OldMoves, OldKept, StoreTyped
<1> QED BY <1>2, <1>3, <1>4, <1>5 DEF OldKept, OldMoves

\* What a get returns afterwards it returned before, or it is the put's value.
LEMMA GetsMove ==
  ASSUME OldMoves, NEW n \in Names
  PROVE  Gets(n)' \subseteq Gets(n) \cup {kv'[n]}
BY DEF OldMoves, Gets

LEMMA WideStays ==
  ASSUME ControlInv, Forward, ToldTruly, ListsGrow, OldMoves,
         NEW q \in Requests, NEW x, SameSight(x, req[q])
  PROVE  WideKept(x)'
<1>1. /\ WideKept(x) /\ BearerKept(req[q], kv, tally) /\ StoreTyped(kv)
      /\ KeysKept /\ tally \in Tallies
  BY DEF ControlInv, ControlTypes, RequestKept, WideKept, SameSight
<1>2. x.gone \subseteq tally.gone /\ x.made \subseteq tally.made /\ tally.gone \subseteq KeyIds
      /\ tally.made \subseteq KeyIds
  BY <1>1 DEF BearerKept, Tallies, SameSight
<1>3. ASSUME NEW id \in x.gone
      PROVE  GoneWide(id)'
  <2>1. GoneWide(id) /\ id \in KeyIds /\ kv[Record(id)] \in Gets(Record(id))
    BY <1>1, <1>2 DEF WideKept, Gets
  <2>2. kv[Record(id)] # <<>> /\ kv[Record(id)][1].revoked
    BY <2>1 DEF GoneWide
  <2>3. kv'[Record(id)] # <<>> /\ kv'[Record(id)][1].revoked
    BY <2>1, <2>2 DEF Forward
  <2>4. Gets(Record(id))' \subseteq Gets(Record(id)) \cup {kv'[Record(id)]}
    BY <2>1, NameFacts, GetsMove
  <2> QED BY <2>1, <2>3, <2>4 DEF GoneWide
<1>4. ASSUME NEW id \in x.made
      PROVE  MadeWide(id)'
  <2>1. MadeWide(id) /\ id \in KeyIds /\ kv[Record(id)] # <<>> /\ kv[IdEntry(id)] # <<>>
    BY <1>1, <1>2 DEF WideKept, KeysKept
  <2>2. /\ kv'[Record(id)] # <<>> /\ kv'[IdEntry(id)] # <<>>
        /\ kv'[Record(id)][1].owner = kv[Record(id)][1].owner
    BY <2>1 DEF Forward
  <2>3. /\ Gets(Record(id))' \subseteq Gets(Record(id)) \cup {kv'[Record(id)]}
        /\ Gets(IdEntry(id))' \subseteq Gets(IdEntry(id)) \cup {kv'[IdEntry(id)]}
    BY <2>1, NameFacts, GetsMove
  <2>4. ASSUME NEW o \in KeyIds, kv'[Record(id)][1].owner = o, Owner(o) \notin tally'.raced,
               NEW value \in Gets(Owner(o))'
        PROVE  id \in Or(value, {})
    <3>1. \A was \in Gets(Owner(o)) : id \in Or(was, {})
      BY <2>1, <2>2, <2>4 DEF MadeWide, ToldTruly
    <3>2. id \in Or(kv'[Owner(o)], {})
      BY <2>4, <3>1 DEF ListsGrow, Gets
    <3>3. Gets(Owner(o))' \subseteq Gets(Owner(o)) \cup {kv'[Owner(o)]}
      BY NameFacts, GetsMove
    <3> QED BY <2>4, <3>1, <3>2, <3>3
  <2> QED BY <2>1, <2>2, <2>3, <2>4 DEF MadeWide
<1> QED BY <1>3, <1>4 DEF WideKept

LEMMA OthersKept ==
  ASSUME ControlInv, Forward, ToldTruly, NEW q \in Requests
  PROVE  RequestKept(req[q], kv', tally')
<1>1. PICK x : x = req[q]
  OBVIOUS
<1>2. x \in Requesting /\ RequestKept(x, kv, tally) /\ KeysKept /\ tally \in Tallies
      /\ tally' \in Tallies
  BY <1>1 DEF ControlInv, ControlTypes, ToldTruly
<1>3. /\ StageOf(x) /\ BearerKept(x, kv, tally) /\ TargetKept(x, kv) /\ KnownKept(x, kv)
      /\ ListKept(x, kv, tally)
  BY <1>2 DEF RequestKept
<1>a. x.made \subseteq tally.made /\ tally.made \subseteq KeyIds
  BY <1>2, <1>3 DEF BearerKept, Tallies
<1>b. \A id \in tally.made : kv'[Record(id)][1].owner = kv[Record(id)][1].owner
  BY <1>2, <1>a DEF KeysKept, Forward
<1>4. BearerKept(x, kv', tally')
  <2>1. x.key \in KeyIds \ tally'.made => kv'[Record(x.key)] = <<>>
    BY <1>1, <1>3 DEF BearerKept, ToldTruly, Forward
  <2> QED BY <1>2, <1>3, <2>1 DEF BearerKept, ToldTruly
<1>5. TargetKept(x, kv')
  BY <1>2, <1>3 DEF TargetKept, Forward, StageOf
<1>6. ListKept(x, kv', tally')
  BY <1>3, <1>a, <1>b DEF ListKept, SameOwner, ToldTruly
<1>7. KnownKept(x, kv')
  BY <1>3, <1>a, <1>b DEF KnownKept, MayTell, SameOwner
<1> QED BY <1>1, <1>3, <1>4, <1>5, <1>6, <1>7 DEF RequestKept

\* What an action must show.
LEMMA ControlMove ==
  ASSUME ControlInv, NEW r \in Requests, NEW x \in Requesting,
         req' = [req EXCEPT ![r] = x], StoreTyped(kv'), Forward, ToldTruly,
         ListsGrow, OldMoves,
         RequestKept(x, kv', tally'), WideKept(x)', ListsKept', CountsKept', RowsKept'
  PROVE  ControlInv'
<1>1. ControlTypes'
  BY DEF ControlInv, ControlTypes, ToldTruly
<1>2. KeysKept'
  <2>1. ControlInv /\ tally \in Tallies /\ tally' \in Tallies /\ KeysKept
    BY DEF ControlInv, ControlTypes, ToldTruly
  <2>2. ASSUME NEW id \in tally'.made
        PROVE  kv'[Record(id)] # <<>> /\ kv'[IdEntry(id)] # <<>>
    BY <2>1, <2>2 DEF KeysKept, Forward, ToldTruly, Tallies
  <2>3. ASSUME NEW id \in tally'.gone
        PROVE  kv'[Record(id)] # <<>> /\ kv'[Record(id)][1].revoked
    BY <2>1, <2>3 DEF KeysKept, Forward, ToldTruly, Tallies
  <2> QED BY <2>2, <2>3 DEF KeysKept
<1>3. ASSUME NEW q \in Requests
      PROVE  (RequestKept(req[q], kv, tally) /\ WideKept(req[q]))'
  <2>1. PICK z : z = req'[q]
    OBVIOUS
  <2>2. z = IF q = r THEN x ELSE req[q]
    BY <2>1 DEF ControlInv, ControlTypes
  <2>3. RequestKept(z, kv', tally') /\ WideKept(z)'
    <3>1. CASE q = r
      BY <2>2, <3>1
    <3>2. CASE q # r
      <4>1. SameSight(z, req[q]) /\ RequestKept(req[q], kv', tally')
        BY <2>2, <3>2, OthersKept DEF SameSight
      <4> QED BY <2>2, <3>2, <4>1, WideStays
    <3> QED BY <3>1, <3>2
  <2> QED BY <2>1, <2>3 DEF WideKept, GoneWide, MadeWide, Gets
<1>4. OldKept'
  BY OldStays
<1> QED BY <1>1, <1>2, <1>3, <1>4 DEF ControlInv

LEMMA RowsStay ==
  ASSUME ControlAssumption, ControlInv, NEW r \in Requests, NEW x \in Requesting,
         req' = [req EXCEPT ![r] = x], tally' \in Tallies,
         x.at \in {"usage", "usagePut"} =>
           req[r].at \in {"usage", "usagePut"} /\ x.key = req[r].key,
         tally'.accepted = tally.accepted, tally'.rows >= tally.rows
  PROVE  RowsKept'
<1> SUFFICES ASSUME NEW id \in KeyIds
             PROVE  tally'.accepted[id] + Cardinality(InUsage(id)') <= tally'.rows
  BY DEF RowsKept
<1>1. req \in [Requests -> Requesting] /\ tally \in Tallies
      /\ tally.accepted[id] + Cardinality(InUsage(id)) <= tally.rows
  BY DEF ControlInv, ControlTypes, RowsKept
<1>2. InUsage(id)' \subseteq InUsage(id)
  BY <1>1 DEF InUsage
<1>3. IsFiniteSet(InUsage(id))
  BY FS_Subset DEF InUsage, ControlAssumption
<1>4. Cardinality(InUsage(id)') <= Cardinality(InUsage(id))
      /\ Cardinality(InUsage(id)) \in Nat /\ Cardinality(InUsage(id)') \in Nat
  BY <1>2, <1>3, FS_Subset, FS_CardinalityType
<1> QED BY <1>1, <1>4 DEF Tallies

\* A step that only reads.
LEMMA QuietMove ==
  ASSUME ControlAssumption, ControlInv, NEW r \in Requests, NEW x \in Requesting,
         req' = [req EXCEPT ![r] = x], kv' = kv, old' = old, tally' = tally,
         RequestKept(x, kv, tally), WideKept(x),
         x.at \in {"usage", "usagePut"} =>
           req[r].at \in {"usage", "usagePut"} /\ x.key = req[r].key
  PROVE  ControlInv'
<1>1. Forward /\ ToldTruly /\ StoreTyped(kv') /\ tally \in Tallies /\ ListsGrow
  BY DEF ControlInv, ControlTypes, Forward, ToldTruly, ListsGrow
<1>a. OldMoves /\ WideKept(x)'
  BY DEF ControlInv, OldKept, OldMoves, WideKept, GoneWide, MadeWide, Gets
<1>2. ListsKept' /\ CountsKept'
  BY DEF ControlInv, ListsKept, CountsKept
<1>3. tally'.accepted = tally.accepted /\ tally'.rows >= tally.rows
  BY <1>1 DEF Tallies
<1>4. RowsKept'
  BY <1>1, <1>3, RowsStay
<1> QED BY <1>1, <1>a, <1>2, <1>4, ControlMove

\* A request that is answered, and one that goes on.
LEMMA AnswerKept ==
  ASSUME ControlAssumption, NEW x \in Requesting, NEW store, NEW told,
         RequestKept(x, store, told), x.at \notin {"idle", "done"}, NEW s \in Nat,
         NEW y, y = [x EXCEPT !.at = "done", !.status = s, !.seen = <<>>, !.tries = 0],
         s = 200 => x.op # "list" /\ x.at # "auth",
         x.at = "auth" /\ x.key \in x.gone => s \in {403, 500},
         MayTell(x, s, store)
  PROVE  y \in Requesting /\ RequestKept(y, store, told)
<1>0. <<>> \in AnyValue
  BY DEF AnyValue, Optional
<1>a. PICK z : z = [x EXCEPT !.at = "done", !.status = s]
  OBVIOUS
<1>b. z \in Requesting
  BY <1>a DEF Requesting, Stages
<1>c. PICK none : none = <<>>
  OBVIOUS
<1>d. none \in AnyValue
  BY <1>0, <1>c
<1>e. y = [z EXCEPT !.seen = none, !.tries = 0]
  BY <1>a, <1>c
<1>1. y \in Requesting
  <2>1. PICK w : w = [z EXCEPT !.seen = none]
    OBVIOUS
  <2>2. w \in Requesting
    BY <1>b, <1>d, <2>1 DEF Requesting
  <2>3. y = [w EXCEPT !.tries = 0]
    BY <1>e, <2>1
  <2> QED BY <2>2, <2>3 DEF Requesting
<1>2. /\ y.at = "done" /\ y.status = s /\ y.op = x.op /\ y.key = x.key /\ y.id = x.id
      /\ y.gone = x.gone /\ y.made = x.made /\ y.out = x.out
  BY DEF Requesting
<1>3. StageOf(x) /\ BearerKept(x, store, told)
  BY DEF RequestKept
<1>4. StageOf(y)
  BY <1>2, <1>3 DEF StageOf
<1>5. BearerKept(y, store, told)
  BY <1>2, <1>3 DEF BearerKept, Passed, StageOf
<1>6. TargetKept(y, store) /\ KnownKept(y, store) /\ ListKept(y, store, told)
  BY <1>2 DEF TargetKept, KnownKept, MayTell, ListKept
<1> QED BY <1>1, <1>2, <1>4, <1>5, <1>6 DEF RequestKept

LEMMA GoKept ==
  ASSUME NEW x \in Requesting, NEW store, NEW told,
         RequestKept(x, store, told), Passed(x), x.at # "done", NEW y \in Requesting,
         y.at \notin {"idle", "auth", "done"}, y.status = x.status, y.op = x.op, y.key = x.key,
         SameSight(y, x), StageOf(y), TargetKept(y, store)
  PROVE  RequestKept(y, store, told)
<1>1. StageOf(x) /\ BearerKept(x, store, told)
  BY DEF RequestKept
<1>2. BearerKept(y, store, told)
  BY <1>1 DEF BearerKept, Passed, StageOf, SameSight
<1>3. ListKept(y, store, told) /\ KnownKept(y, store)
  BY <1>1 DEF ListKept, KnownKept, MayTell, StageOf
<1> QED BY <1>2, <1>3 DEF RequestKept

\* What is known of a request before its step.
LEMMA RequestFacts ==
  ASSUME ControlInv, NEW r \in Requests
  PROVE  /\ req \in [Requests -> Requesting] /\ req[r] \in Requesting /\ tally \in Tallies
         /\ StoreTyped(kv) /\ KeysKept
         /\ RequestKept(req[r], kv, tally) /\ StageOf(req[r])
         /\ BearerKept(req[r], kv, tally) /\ TargetKept(req[r], kv)
         /\ OldKept /\ WideKept(req[r])
BY DEF ControlInv, ControlTypes, RequestKept

\* What a get returns is of the name's kind; a record is its key's owner's, and
\* revoked only if the key is.
LEMMA GetsAre ==
  ASSUME ControlInv
  PROVE  /\ \A n \in Names : Gets(n) \subseteq AnyValue
         /\ \A id \in KeyIds :
              /\ \A value \in Gets(Record(id)) : OldRecord(id, value)
              /\ Gets(Owner(id)) \subseteq Optional(SUBSET KeyIds)
              /\ Gets(Bucket(id)) \subseteq Optional(Nat)
         /\ \A op \in LimitedOps : Gets(Counter(op)) \subseteq Optional(Nat)
<1>1. StoreTyped(kv) /\ OldKept
  BY DEF ControlInv, ControlTypes
<1>2. ASSUME NEW n \in Names
      PROVE  Gets(n) \subseteq AnyValue
  BY <1>1 DEF StoreTyped, OldKept, Gets
<1>3. ASSUME NEW id \in KeyIds, NEW value \in Gets(Record(id))
      PROVE  OldRecord(id, value)
  BY <1>1, <1>3 DEF StoreTyped, OldKept, OldRecord, Gets
<1>4. ASSUME NEW id \in KeyIds
      PROVE  Gets(Owner(id)) \subseteq Optional(SUBSET KeyIds)
  <2>1. /\ old[Owner(id)] \subseteq Optional(SUBSET KeyIds)
        /\ kv[Owner(id)] \in Optional(SUBSET KeyIds)
    BY <1>1 DEF OldKept, StoreTyped
  <2> QED BY <2>1 DEF Gets
<1>5. ASSUME NEW id \in KeyIds
      PROVE  Gets(Bucket(id)) \subseteq Optional(Nat)
  BY <1>1 DEF StoreTyped, OldKept, Gets
<1>6. ASSUME NEW op \in LimitedOps
      PROVE  Gets(Counter(op)) \subseteq Optional(Nat)
  BY <1>1 DEF StoreTyped, OldKept, Gets
<1> QED BY <1>2, <1>3, <1>4, <1>5, <1>6

LEMMA StartKeeps ==
  ASSUME ControlAssumption, ControlInv, NEW r \in Requests,
         NEW op \in Ops, NEW key \in KeyIds \cup {NoKey}, NEW id \in KeyIds \cup {NoKey},
         Start(r, op, key, id), op = "revoke" => id # NoKey
  PROVE  ControlInv'
<1>1. req \in [Requests -> Requesting] /\ tally \in Tallies /\ KeysKept /\ ListsKept
      /\ StoreTyped(kv)
  BY RequestFacts DEF ControlInv
<1>2. PICK stage : stage = IF op = "open" THEN "limit" ELSE "auth"
  OBVIOUS
<1>3. PICK made : made = MadeEverywhere \cap (IF op = "list" THEN KeyIds ELSE {key, id})
  OBVIOUS
<1>a. PICK gone : gone = GoneEverywhere
  OBVIOUS
<1>4. PICK x : x = [Idle EXCEPT !.op = op, !.key = key, !.id = id, !.at = stage,
                       !.gone = gone, !.made = made]
  OBVIOUS
<1>f. /\ x.op = op /\ x.key = key /\ x.id = id /\ x.at = stage /\ x.status = 0
      /\ x.gone = gone /\ x.made = made
  BY <1>4 DEF Idle
<1>5. req' = [req EXCEPT ![r] = x] /\ kv' = kv /\ old' = old /\ tally' = tally
  BY <1>2, <1>3, <1>a, <1>4 DEF Start
<1>6. op \in AllOps /\ (op = "open" => key = NoKey)
      /\ key \in {NoKey} \cup tally.made \cup {k \in KeyIds : kv[Record(k)] = <<>>}
      /\ made \subseteq MadeEverywhere /\ made \subseteq tally.made /\ tally.made \subseteq KeyIds
      /\ gone \subseteq tally.gone /\ tally.gone \subseteq KeyIds
      /\ stage \in {"limit", "auth"}
  BY <1>1, <1>2, <1>3, <1>a
  DEF Start, ControlAssumption, AllOps, LimitedOps, Tallies, MadeEverywhere, GoneEverywhere
<1>7. x \in Requesting
  <2>0. <<>> \in AnyValue
    BY DEF AnyValue, Optional
  <2>1. Idle \in Requesting
    BY <2>0 DEF Idle, Requesting, Stages
  <2>2. PICK y : y = [Idle EXCEPT !.op = op, !.key = key, !.id = id]
    OBVIOUS
  <2>3. y \in Requesting
    BY <1>6, <2>1, <2>2 DEF Requesting
  <2>4. x = [y EXCEPT !.at = stage, !.gone = gone, !.made = made]
    BY <1>4, <2>2
  <2> QED BY <1>6, <2>3, <2>4 DEF Requesting, Stages
<1>8. StageOf(x)
  BY <1>2, <1>f, <1>6, ControlAssumption DEF StageOf, AllOps, LimitedOps, ControlAssumption
<1>9. BearerKept(x, kv, tally)
  <2>1. Passed(x) => op = "open" /\ key = NoKey
    BY <1>2, <1>f, <1>6 DEF Passed
  <2>2. x.key \in x.gone => x.at = "auth"
    BY <1>1, <1>2, <1>f, <1>6, ControlAssumption DEF ControlAssumption
  <2> QED BY <1>f, <1>6, <2>1, <2>2 DEF BearerKept
<1>10. TargetKept(x, kv) /\ KnownKept(x, kv) /\ ListKept(x, kv, tally)
  BY <1>2, <1>f DEF TargetKept, KnownKept, MayTell, ListKept
<1>11. RequestKept(x, kv, tally)
  BY <1>8, <1>9, <1>10 DEF RequestKept
<1>12. x.at \notin {"usage", "usagePut"}
  BY <1>f, <1>6
<1>13. ASSUME NEW k \in gone
       PROVE  GoneWide(k)
  <2>1. k \in tally.gone /\ old[Record(k)] = {}
    BY <1>a DEF GoneEverywhere
  <2> QED BY <1>1, <2>1 DEF KeysKept, GoneWide, Gets
<1>14. ASSUME NEW k \in made
       PROVE  MadeWide(k)
  <2>1. k \in tally.made /\ kv[Record(k)] # <<>> /\ kv[IdEntry(k)] # <<>> /\ k \in KeyIds
    BY <1>1, <1>6 DEF KeysKept
  <2>2. /\ Gets(Record(k)) = {kv[Record(k)]} /\ Gets(IdEntry(k)) = {kv[IdEntry(k)]}
        /\ Gets(Owner(OwnerOf(k))) = {kv[Owner(OwnerOf(k))]}
    BY <1>6 DEF MadeEverywhere, Gets
  <2>3. OwnerOf(k) = kv[Record(k)][1].owner
    BY <2>1 DEF OwnerOf, Or
  <2> QED BY <1>1, <2>1, <2>2, <2>3 DEF ListsKept, MadeWide
<1>15. WideKept(x)
  BY <1>f, <1>13, <1>14 DEF WideKept
<1> QED BY <1>5, <1>7, <1>11, <1>12, <1>15, QuietMove

\* A request is answered in a step that only reads.
LEMMA QuietAnswer ==
  ASSUME ControlAssumption, ControlInv, NEW r \in Requests, NEW s \in Nat,
         req[r].at \notin {"idle", "done"}, Answer(r, s),
         kv' = kv, old' = old, tally' = tally,
         s = 200 => req[r].op # "list" /\ req[r].at # "auth",
         req[r].at = "auth" /\ req[r].key \in req[r].gone => s \in {403, 500},
         MayTell(req[r], s, kv)
  PROVE  ControlInv'
<1>1. /\ req \in [Requests -> Requesting] /\ req[r] \in Requesting
      /\ RequestKept(req[r], kv, tally) /\ WideKept(req[r])
  BY RequestFacts
<1>2. PICK y : y = [req[r] EXCEPT !.at = "done", !.status = s, !.seen = <<>>, !.tries = 0]
  OBVIOUS
<1>3. y \in Requesting /\ RequestKept(y, kv, tally)
  BY <1>1, <1>2, AnswerKept
<1>6. WideKept(y)
  BY <1>1, <1>2 DEF WideKept, Requesting
<1>4. req' = [req EXCEPT ![r] = y]
  BY <1>1, <1>2 DEF Answer
<1>5. y.at = "done"
  BY <1>1, <1>2 DEF Requesting
<1> QED BY <1>3, <1>4, <1>5, <1>6, QuietMove

\* A request goes on, with what it read.
LEMMA QuietGo ==
  ASSUME ControlAssumption, ControlInv, NEW r \in Requests,
         NEW stage \in Stages \ {"idle", "auth", "done"}, NEW seen \in AnyValue, NEW y,
         y = [req[r] EXCEPT !.at = stage, !.seen = seen], req' = [req EXCEPT ![r] = y],
         kv' = kv, old' = old, tally' = tally, req[r].at # "done",
         req[r].at = "auth" =>
           /\ req[r].key \notin req[r].gone
           /\ req[r].key # NoKey => req[r].key \in tally.made
           /\ req[r].op \in {"owned", "list", "revoke"} => req[r].key # NoKey,
         req[r].at # "idle", StageOf(y), TargetKept(y, kv),
         stage = "usagePut" => req[r].at = "usage", stage # "usage"
  PROVE  ControlInv'
<1>1. req \in [Requests -> Requesting] /\ req[r] \in Requesting /\ tally \in Tallies
      /\ StageOf(req[r]) /\ BearerKept(req[r], kv, tally) /\ WideKept(req[r])
  BY RequestFacts
<1>2. y \in Requesting
  BY <1>1 DEF Requesting
<1>3. /\ y.at = stage /\ y.status = req[r].status /\ y.op = req[r].op /\ y.key = req[r].key
      /\ SameSight(y, req[r])
  BY <1>1 DEF Requesting, SameSight
<1>4. BearerKept(y, kv, tally)
  BY <1>1, <1>3 DEF BearerKept, Passed, StageOf, SameSight
<1>5. ListKept(y, kv, tally) /\ KnownKept(y, kv)
  BY <1>1, <1>3 DEF ListKept, KnownKept, MayTell, StageOf
<1>6. RequestKept(y, kv, tally)
  BY <1>4, <1>5 DEF RequestKept
<1>7. WideKept(y)
  BY <1>1, <1>3 DEF WideKept, SameSight
<1> QED BY <1>2, <1>3, <1>6, <1>7, QuietMove

\* Past the check a bearer is a key handed out that is not revoked.
LEMMA AuthenticateKeeps ==
  ASSUME ControlAssumption, ControlInv, NEW r \in Requests, Authenticate(r)
  PROVE  ControlInv'
<1>1. /\ req \in [Requests -> Requesting] /\ req[r] \in Requesting /\ tally \in Tallies
      /\ StoreTyped(kv) /\ KeysKept /\ WideKept(req[r])
      /\ StageOf(req[r]) /\ BearerKept(req[r], kv, tally)
  BY RequestFacts
<1>2. /\ req[r].at = "auth" /\ kv' = kv /\ old' = old /\ tally' = tally
      /\ req[r].op \in AllOps \ {"open"}
  BY <1>1 DEF Authenticate, StageOf
<1>3. ASSUME NEW s \in {401, 403}, Answer(r, s),
             s = 403 \/ req[r].key \notin req[r].gone \cup req[r].made
      PROVE  ControlInv'
  BY <1>2, <1>3, QuietAnswer DEF MayTell
<1>4. ASSUME NEW stage \in {"limit", "keyPut", "find", "ownerKeys"}, Goto(r, stage),
             stage = "limit" => req[r].op \in LimitedOps,
             stage = "keyPut" => req[r].op = "owned",
             stage = "find" => req[r].op = "revoke",
             stage = "ownerKeys" => req[r].op = "list",
             req[r].key \notin req[r].gone,
             req[r].key # NoKey => req[r].key \in tally.made,
             req[r].op \in {"owned", "list", "revoke"} => req[r].key # NoKey
      PROVE  ControlInv'
  <2>1. PICK y : y = [req[r] EXCEPT !.at = stage, !.seen = req[r].seen]
    OBVIOUS
  <2>2. req' = [req EXCEPT ![r] = y]
    BY <1>1, <1>4, <2>1 DEF Goto, Requesting
  <2>3. /\ y.at = stage /\ y.op = req[r].op /\ y.key = req[r].key /\ y.id = req[r].id
        /\ y.status = req[r].status /\ req[r].seen \in AnyValue
    BY <1>1, <2>1 DEF Requesting
  <2>4. StageOf(y)
    BY <1>1, <1>2, <1>4, <2>3 DEF StageOf
  <2>5. TargetKept(y, kv)
    BY <1>4, <2>3 DEF TargetKept
  <2>6. stage \in Stages \ {"idle", "auth", "done", "usage", "usagePut"}
    BY DEF Stages
  <2> QED BY <1>2, <1>4, <2>1, <2>2, <2>3, <2>4, <2>5, <2>6, QuietGo
<1>5. CASE req[r].key = NoKey
  <2>1. req[r].key \notin req[r].gone \cup req[r].made
    BY <1>1, <1>5, ControlAssumption DEF Requesting, ControlAssumption
  <2>2. \/ req[r].op \in {"report", "session"} /\ Goto(r, "limit")
        \/ req[r].op = "session" /\ Answer(r, 403)
        \/ req[r].op \notin {"report", "session"} /\ Answer(r, 401)
    BY <1>5 DEF Authenticate
  <2> QED BY <1>2, <1>3, <1>4, <1>5, <2>1, <2>2 DEF LimitedOps
<1>6. ASSUME req[r].key # NoKey, <<>> \in Gets(Record(req[r].key)), Answer(r, 401)
      PROVE  ControlInv'
  <2>1. req[r].key \notin req[r].gone \cup req[r].made
    BY <1>1, <1>6 DEF WideKept, GoneWide, MadeWide
  <2> QED BY <1>3, <1>6, <2>1
<1>7. ASSUME Answer(r, 403)
      PROVE  ControlInv'
  BY <1>3, <1>7
<1>8. ASSUME req[r].key # NoKey, NEW record \in Gets(Record(req[r].key)), record # <<>>,
             ~record[1].revoked, Goto(r, Authorized(req[r].op))
      PROVE  ControlInv'
  <2>0. req[r].key \in KeyIds
    BY <1>1, <1>8 DEF Requesting
  <2>1. Goto(r, Authorized(req[r].op)) /\ kv[Record(req[r].key)] # <<>>
    BY <1>8, <2>0, GetsAre DEF OldRecord
  <2>2. req[r].key \notin req[r].gone /\ req[r].key \in tally.made
    BY <1>1, <1>8, <2>0, <2>1 DEF BearerKept, WideKept, GoneWide
  <2>3. CASE req[r].op = "owned"
    BY <1>4, <1>8, <2>1, <2>2, <2>3 DEF Authorized
  <2>4. CASE req[r].op \in {"session", "report"}
    <3>1. Authorized(req[r].op) = "limit"
      BY <2>4 DEF Authorized
    <3> QED BY <1>4, <1>8, <2>1, <2>2, <2>4, <3>1 DEF LimitedOps
  <2>5. CASE req[r].op = "revoke"
    BY <1>4, <1>8, <2>1, <2>2, <2>5 DEF Authorized
  <2>6. CASE req[r].op = "list"
    BY <1>4, <1>8, <2>1, <2>2, <2>6 DEF Authorized
  <2> QED BY <1>2, <2>3, <2>4, <2>5, <2>6 DEF AllOps, LimitedOps
<1>9. CASE req[r].key # NoKey
  <2>1. PICK record \in Gets(Record(req[r].key)) :
          CASE record = <<>> -> Answer(r, 401)
            [] record # <<>> /\ record[1].revoked -> Answer(r, 403)
            [] OTHER -> Goto(r, Authorized(req[r].op))
    BY <1>9 DEF Authenticate
  <2>2. CASE record = <<>>
    BY <1>6, <1>9, <2>1, <2>2
  <2>3. CASE record # <<>> /\ record[1].revoked
    BY <1>7, <2>1, <2>3
  <2>4. CASE record # <<>> /\ ~record[1].revoked
    BY <1>8, <1>9, <2>1, <2>4
  <2> QED BY <2>2, <2>3, <2>4
<1> QED BY <1>5, <1>9

\* A request reads one name and goes on to write it.
LEMMA QuietRead ==
  ASSUME ControlAssumption, ControlInv, NEW r \in Requests, NEW name \in Names,
         NEW value \in Gets(name), NEW stage \in Stages \ {"idle", "auth", "done", "usage"},
         Saw(r, value, stage), kv' = kv, old' = old, tally' = tally,
         req[r].at \notin {"idle", "auth", "done"}, stage = "usagePut" => req[r].at = "usage",
         \A y : /\ y.at = stage /\ y.seen = value /\ y.op = req[r].op /\ y.key = req[r].key
                /\ y.id = req[r].id /\ y.status = req[r].status
                => StageOf(y) /\ TargetKept(y, kv)
  PROVE  ControlInv'
<1>1. req \in [Requests -> Requesting] /\ req[r] \in Requesting
  BY RequestFacts
<1>2. PICK y : y = [req[r] EXCEPT !.at = stage, !.seen = value]
  OBVIOUS
<1>3. req' = [req EXCEPT ![r] = y]
  BY <1>1, <1>2 DEF Saw, Requesting
<1>4. /\ y.at = stage /\ y.seen = value /\ y.op = req[r].op /\ y.key = req[r].key
      /\ y.id = req[r].id /\ y.status = req[r].status
  BY <1>1, <1>2 DEF Requesting
<1>5. value \in AnyValue
  BY GetsAre
<1>6. StageOf(y) /\ TargetKept(y, kv)
  BY <1>4
<1> QED BY <1>2, <1>3, <1>5, <1>6, QuietGo

LEMMA CheckLimitKeeps ==
  ASSUME ControlAssumption, ControlInv, NEW r \in Requests, CheckLimit(r)
  PROVE  ControlInv'
<1>1. StageOf(req[r])
  BY RequestFacts
<1>2. /\ req[r].at = "limit" /\ kv' = kv /\ old' = old /\ tally' = tally
      /\ req[r].op \in LimitedOps
  BY <1>1 DEF CheckLimit, StageOf
<1>3. PICK count \in Gets(Counter(req[r].op)) :
        IF Or(count, 0) >= Limit THEN Answer(r, 429) ELSE Saw(r, count, "limitPut")
  BY DEF CheckLimit
<1>4. Counter(req[r].op) \in Names /\ count \in Optional(Nat)
  BY <1>2, NameFacts, GetsAre
<1>5. CASE Or(count, 0) >= Limit
  <2>1. Answer(r, 429)
    BY <1>3, <1>5
  <2> QED BY <1>2, <2>1, QuietAnswer DEF MayTell
<1>6. CASE ~(Or(count, 0) >= Limit)
  <2>1. Saw(r, count, "limitPut")
    BY <1>3, <1>6
  <2>2. Or(count, 0) \in Nat
    BY <1>4 DEF Or, Optional
  <2>3. Or(count, 0) < Limit
    BY <1>6, <2>2, ControlAssumption DEF ControlAssumption
  <2>4. ASSUME NEW y, y.at = "limitPut", y.seen = count, y.op = req[r].op,
               y.key = req[r].key, y.id = req[r].id, y.status = req[r].status
        PROVE  StageOf(y) /\ TargetKept(y, kv)
    BY <1>1, <1>2, <1>4, <2>3, <2>4 DEF StageOf, TargetKept
  <2> QED BY <1>2, <1>4, <2>1, <2>4, QuietRead DEF Stages
<1> QED BY <1>5, <1>6

LEMMA ReadOwnerListKeeps ==
  ASSUME ControlAssumption, ControlInv, NEW r \in Requests, ReadOwnerList(r)
  PROVE  ControlInv'
<1>1. StoreTyped(kv) /\ StageOf(req[r]) /\ TargetKept(req[r], kv) /\ req[r] \in Requesting
  BY RequestFacts
<1>2. /\ req[r].at = "ownerGet" /\ kv' = kv /\ old' = old /\ tally' = tally
      /\ req[r].op \in {"open", "owned"} /\ req[r].id \in KeyIds
      /\ kv[Record(req[r].id)] # <<>> /\ kv[IdEntry(req[r].id)] # <<>>
  BY <1>1 DEF ReadOwnerList, StageOf, TargetKept
<1>3. PICK o : o = IF req[r].op = "open" THEN req[r].id ELSE OwnerOf(req[r].id)
  OBVIOUS
<1>4. kv[Record(req[r].id)] \in Optional(KeyRecords)
  BY <1>1, <1>2 DEF StoreTyped
<1>5. o \in KeyIds
  BY <1>2, <1>3, <1>4 DEF OwnerOf, Or, Optional, KeyRecords
<1>6. PICK value \in Gets(Owner(o)) : Saw(r, value, "ownerPut")
  BY <1>3 DEF ReadOwnerList, Read
<1>7. Owner(o) \in Names /\ value \in Optional(SUBSET KeyIds)
  BY <1>5, NameFacts, GetsAre
<1>8. ASSUME NEW y, y.at = "ownerPut", y.seen = value, y.op = req[r].op,
             y.key = req[r].key, y.id = req[r].id, y.status = req[r].status
      PROVE  StageOf(y) /\ TargetKept(y, kv)
  BY <1>1, <1>2, <1>7, <1>8 DEF StageOf, TargetKept
<1> QED BY <1>2, <1>6, <1>7, <1>8, QuietRead DEF Stages

LEMMA ReadBucketKeeps ==
  ASSUME ControlAssumption, ControlInv, NEW r \in Requests, ReadBucket(r)
  PROVE  ControlInv'
<1>1. StageOf(req[r]) /\ req[r] \in Requesting
  BY RequestFacts
<1>2. /\ req[r].at = "usage" /\ kv' = kv /\ old' = old /\ tally' = tally
      /\ req[r].op = "report" /\ req[r].key \in KeyIds
  BY <1>1 DEF ReadBucket, StageOf, Requesting
<1>3. PICK value \in Gets(Bucket(req[r].key)) : Saw(r, value, "usagePut")
  BY DEF ReadBucket, Read
<1>4. Bucket(req[r].key) \in Names /\ value \in Optional(Nat)
  BY <1>2, NameFacts, GetsAre
<1>5. ASSUME NEW y, y.at = "usagePut", y.seen = value, y.op = req[r].op,
             y.key = req[r].key, y.id = req[r].id, y.status = req[r].status
      PROVE  StageOf(y) /\ TargetKept(y, kv)
  BY <1>1, <1>2, <1>4, <1>5 DEF StageOf, TargetKept
<1> QED BY <1>2, <1>3, <1>4, <1>5, QuietRead DEF Stages

LEMMA QuietGoto ==
  ASSUME ControlAssumption, ControlInv, NEW r \in Requests,
         NEW stage \in Stages \ {"idle", "auth", "done", "usage", "usagePut"}, Goto(r, stage),
         kv' = kv, old' = old, tally' = tally, req[r].at \notin {"idle", "auth", "done"},
         \A y : /\ y.at = stage /\ y.seen = req[r].seen /\ y.op = req[r].op /\ y.key = req[r].key
                /\ y.id = req[r].id /\ y.status = req[r].status
                => StageOf(y) /\ TargetKept(y, kv)
  PROVE  ControlInv'
<1>1. req \in [Requests -> Requesting] /\ req[r] \in Requesting /\ req[r].seen \in AnyValue
  BY RequestFacts DEF Requesting
<1>2. PICK y : y = [req[r] EXCEPT !.at = stage, !.seen = req[r].seen]
  OBVIOUS
<1>3. req' = [req EXCEPT ![r] = y]
  BY <1>1, <1>2 DEF Goto, Requesting
<1>4. /\ y.at = stage /\ y.seen = req[r].seen /\ y.op = req[r].op /\ y.key = req[r].key
      /\ y.id = req[r].id /\ y.status = req[r].status
  BY <1>1, <1>2 DEF Requesting
<1>5. StageOf(y) /\ TargetKept(y, kv)
  BY <1>4
<1> QED BY <1>1, <1>2, <1>3, <1>5, QuietGo

\* A key's owner who is told of no such key names one that has not arrived, or
\* another's.
LEMMA FindTargetKeeps ==
  ASSUME ControlAssumption, ControlInv, NEW r \in Requests, FindTarget(r)
  PROVE  ControlInv'
<1>1. /\ StageOf(req[r]) /\ TargetKept(req[r], kv) /\ req[r] \in Requesting /\ KeysKept
      /\ BearerKept(req[r], kv, tally) /\ WideKept(req[r])
  BY RequestFacts
<1>2. /\ req[r].at = "find" /\ kv' = kv /\ old' = old /\ tally' = tally
      /\ req[r].op = "revoke" /\ req[r].id \in KeyIds
  BY <1>1 DEF FindTarget, StageOf
<1>3. PICK target \in LookupKeyById(req[r].id) :
        IF target = <<>> \/ Or(target, {}).owner # OwnerOf(req[r].key)
        THEN Answer(r, 404) ELSE Goto(r, "revoke")
  BY DEF FindTarget
<1>4. CASE target = <<>> \/ Or(target, {}).owner # OwnerOf(req[r].key)
  <2>1. Answer(r, 404)
    BY <1>3, <1>4
  <2>2. ASSUME req[r].key \in req[r].made, req[r].id \in req[r].made,
               SameOwner(req[r].id, req[r].key, kv)
        PROVE  FALSE
    <3>1. MadeWide(req[r].id) /\ kv[Record(req[r].key)] # <<>>
      BY <1>1, <2>2 DEF WideKept, BearerKept, KeysKept
    <3>2. target # <<>> /\ target \in Gets(Record(req[r].id))
      BY <1>3, <3>1 DEF LookupKeyById, MadeWide
    <3>3. target[1].owner = kv[Record(req[r].id)][1].owner
      BY <1>2, <3>2, GetsAre DEF OldRecord
    <3> QED BY <1>4, <2>2, <3>1, <3>2, <3>3 DEF SameOwner, OwnerOf, Or
  <2>3. MayTell(req[r], 404, kv)
    BY <2>2 DEF MayTell
  <2> QED BY <1>2, <2>1, <2>3, QuietAnswer
<1>5. CASE ~(target = <<>> \/ Or(target, {}).owner # OwnerOf(req[r].key))
  <2>1. Goto(r, "revoke") /\ target # <<>>
    BY <1>3, <1>5
  <2>2. target \in Gets(Record(req[r].id))
    BY <1>3, <2>1 DEF LookupKeyById
  <2>3. kv[Record(req[r].id)] # <<>>
    BY <1>2, <2>1, <2>2, GetsAre DEF OldRecord
  <2>4. ASSUME NEW y, y.at = "revoke", y.seen = req[r].seen, y.op = req[r].op,
               y.key = req[r].key, y.id = req[r].id, y.status = req[r].status
        PROVE  StageOf(y) /\ TargetKept(y, kv)
    BY <1>1, <1>2, <2>3, <2>4 DEF StageOf, TargetKept
  <2> QED BY <1>2, <2>1, <2>4, QuietGoto DEF Stages
<1> QED BY <1>4, <1>5

\* A revoked record is left as it is; another is read, to be written back.
LEMMA ReadTargetKeeps ==
  ASSUME ControlAssumption, ControlInv, NEW r \in Requests, ReadTarget(r)
  PROVE  ControlInv'
<1>1. /\ StageOf(req[r]) /\ TargetKept(req[r], kv) /\ req \in [Requests -> Requesting]
      /\ req[r] \in Requesting /\ StoreTyped(kv) /\ RequestKept(req[r], kv, tally)
      /\ BearerKept(req[r], kv, tally) /\ tally \in Tallies /\ OldKept
  BY RequestFacts
<1>2. PICK id : id = req[r].id
  OBVIOUS
<1>3. /\ req[r].at = "revoke" /\ kv' = kv /\ old' = old /\ req[r].op = "revoke" /\ id \in KeyIds
      /\ kv[Record(id)] # <<>>
  BY <1>1, <1>2 DEF ReadTarget, StageOf, TargetKept
<1>4. PICK record \in Gets(Record(id)) \ {<<>>} :
        IF record[1].revoked
        THEN Answer(r, 200) /\ tally' = [tally EXCEPT !.gone = @ \cup {id}]
        ELSE Saw(r, record, "revokePut") /\ UNCHANGED tally
  BY <1>2 DEF ReadTarget
<1>a. OldRecord(id, record)
  BY <1>3, <1>4, GetsAre
<1>5. CASE record[1].revoked
  <2>1. Answer(r, 200) /\ tally' = [tally EXCEPT !.gone = @ \cup {id}]
    BY <1>4, <1>5
  <2>b. kv[Record(id)][1].revoked
    BY <1>4, <1>5, <1>a DEF OldRecord
  <2>a. PICK ok \in Nat : ok = 200
    OBVIOUS
  <2>2. PICK y : y = [req[r] EXCEPT !.at = "done", !.status = ok, !.seen = <<>>, !.tries = 0]
    OBVIOUS
  <2>3. y \in Requesting /\ RequestKept(y, kv, tally)
    <3>1. /\ req[r].at \notin {"idle", "done", "auth"} /\ req[r].op # "list"
          /\ MayTell(req[r], ok, kv)
      BY <1>3, <2>a DEF MayTell
    <3> QED BY <1>1, <2>a, <2>2, <3>1, AnswerKept
  <2>4. req' = [req EXCEPT ![r] = y]
    BY <1>1, <2>1, <2>a, <2>2 DEF Answer
  <2>5. /\ tally' \in Tallies /\ tally'.gone = tally.gone \cup {id} /\ tally'.made = tally.made
        /\ tally'.raced = tally.raced /\ tally'.rows = tally.rows
        /\ tally'.accepted = tally.accepted /\ tally'.granted = tally.granted
        /\ tally'.phantom = tally.phantom
    BY <1>1, <1>3, <2>1 DEF Tallies
  <2>6. Forward /\ ToldTruly /\ StoreTyped(kv') /\ ListsGrow /\ OldMoves
    BY <1>1, <1>3, <2>b, <2>5 DEF Forward, ToldTruly, ListsGrow, OldMoves, OldKept
  <2>7. RequestKept(y, kv', tally')
    BY <1>3, <2>3, <2>5 DEF RequestKept, BearerKept, ListKept
  <2>c. WideKept(y)'
    <3>1. SameSight(y, req[r])
      BY <1>1, <2>2 DEF Requesting, SameSight
    <3> QED BY <2>6, <3>1, WideStays
  <2>8. ListsKept' /\ CountsKept'
    BY <1>3, <2>5 DEF ControlInv, ListsKept, CountsKept
  <2>9. y.at = "done" /\ tally'.rows >= tally.rows
    BY <1>1, <2>2, <2>5 DEF Requesting, Tallies
  <2>10. RowsKept'
    BY <2>3, <2>4, <2>5, <2>9, RowsStay
  <2> QED BY <2>3, <2>4, <2>6, <2>7, <2>c, <2>8, <2>10, ControlMove
<1>6. CASE ~record[1].revoked
  <2>1. Saw(r, record, "revokePut") /\ tally' = tally
    BY <1>4, <1>6
  <2>2. Record(id) \in Names
    BY <1>3, NameFacts
  <2>3. ASSUME NEW y, y.at = "revokePut", y.seen = record, y.op = req[r].op,
               y.key = req[r].key, y.id = req[r].id, y.status = req[r].status
        PROVE  StageOf(y) /\ TargetKept(y, kv)
    BY <1>1, <1>2, <1>3, <1>4, <1>a, <2>3 DEF StageOf, TargetKept, OldRecord
  <2> QED BY <1>3, <1>4, <2>1, <2>2, <2>3, QuietRead DEF Stages
<1> QED BY <1>5, <1>6

\* The list names the caller's key if it has arrived, and those of the owner's
\* that have, unless its puts raced.
LEMMA ReadOwnerKeysKeeps ==
  ASSUME ControlAssumption, ControlInv, NEW r \in Requests, ReadOwnerKeys(r)
  PROVE  ControlInv'
<1>1. /\ StageOf(req[r]) /\ BearerKept(req[r], kv, tally) /\ req \in [Requests -> Requesting]
      /\ req[r] \in Requesting /\ StoreTyped(kv) /\ tally \in Tallies /\ KeysKept
      /\ WideKept(req[r])
  BY RequestFacts
<1>2. PICK key : key = req[r].key
  OBVIOUS
<1>3. PICK owner : owner = OwnerOf(key)
  OBVIOUS
<1>4. PICK ids \in Gets(Owner(owner)), out \in SUBSET KeyIds :
        /\ \A id \in Or(ids, {}) \cup {key} :
             IF id \in out THEN LookupKeyById(id) # {<<>>} ELSE <<>> \in LookupKeyById(id)
        /\ req' = [req EXCEPT ![r].at = "done", ![r].status = 200, ![r].out = out]
  BY <1>2, <1>3 DEF ReadOwnerKeys
<1>5. PICK y : y = [req[r] EXCEPT !.at = "done", !.status = 200, !.out = out]
  OBVIOUS
<1>6. /\ req[r].at = "ownerKeys" /\ kv' = kv /\ old' = old /\ tally' = tally
      /\ req[r].op = "list" /\ req' = [req EXCEPT ![r] = y]
  BY <1>1, <1>4, <1>5 DEF ReadOwnerKeys, StageOf
<1>7. key \in tally.made /\ key \in KeyIds
  BY <1>1, <1>2, <1>6 DEF BearerKept, Passed, Tallies
<1>8. kv[Record(key)] # <<>> /\ owner = kv[Record(key)][1].owner
      /\ kv[Record(key)] \in Optional(KeyRecords)
  BY <1>1, <1>3, <1>7 DEF KeysKept, StoreTyped, OwnerOf, Or
<1>9. owner \in KeyIds
  BY <1>8 DEF Optional, KeyRecords
<1>12. \A id \in req[r].made : MadeWide(id) /\ <<>> \notin LookupKeyById(id)
  BY <1>1 DEF WideKept, MadeWide, LookupKeyById
<1>13. key \in req[r].made => key \in out
  BY <1>4, <1>12
<1>14. y \in Requesting
  BY <1>1, <1>5 DEF Requesting, Stages
<1>15. /\ y.at = "done" /\ y.status = 200 /\ y.out = out /\ y.op = "list" /\ y.key = key
       /\ y.id = req[r].id /\ SameSight(y, req[r])
  BY <1>1, <1>2, <1>5, <1>6 DEF Requesting, SameSight
<1>16. StageOf(y)
  BY <1>15 DEF StageOf
<1>17. BearerKept(y, kv, tally)
  BY <1>1, <1>2, <1>6, <1>7, <1>15, ControlAssumption
  DEF BearerKept, Passed, StageOf, ControlAssumption, SameSight
<1>18. ASSUME NEW id \in y.made, Owner(owner) \notin tally.raced,
              kv[Record(id)][1].owner = owner
       PROVE  id \in out
  <2>1. id \in req[r].made
    BY <1>15 DEF SameSight
  <2>2. id \in Or(ids, {})
    BY <1>4, <1>9, <1>12, <1>18, <2>1 DEF MadeWide
  <2> QED BY <1>4, <1>12, <2>1, <2>2
<1>19. ListKept(y, kv, tally)
  BY <1>8, <1>13, <1>15, <1>18 DEF ListKept, SameOwner, SameSight
<1>20. RequestKept(y, kv, tally)
  BY <1>15, <1>16, <1>17, <1>19 DEF RequestKept, TargetKept, KnownKept, MayTell
<1>21. WideKept(y)
  BY <1>1, <1>15 DEF WideKept, SameSight
<1> QED BY <1>6, <1>14, <1>15, <1>20, <1>21, QuietMove

\* What each put writes, and where; for any request that is at a put.
LEMMA PutIs ==
  ASSUME ControlAssumption, ControlInv, NEW r \in Requests, req[r].at \in Puts, Written(r)
  PROVE  \/ /\ req[r].at = "limitPut" /\ req[r].op \in LimitedOps
            /\ PutOf(r) = [name |-> Counter(req[r].op), value |-> Or(req[r].seen, 0) + 1]
         \/ /\ req[r].at = "keyPut"
            /\ \E id, o \in KeyIds :
                 /\ id = FreshId /\ Unused(id)
                 /\ PutOf(r) = [name |-> Record(id), value |-> [owner |-> o, revoked |-> FALSE]]
         \/ /\ req[r].at = "idPut" /\ req[r].id \in KeyIds
            /\ PutOf(r) = [name |-> IdEntry(req[r].id), value |-> req[r].id]
         \/ /\ req[r].at = "ownerPut" /\ req[r].id \in KeyIds
            /\ kv[Record(req[r].id)][1].owner \in KeyIds
            /\ PutOf(r) = [name |-> Owner(kv[Record(req[r].id)][1].owner),
                           value |-> Or(req[r].seen, {}) \cup {req[r].id}]
         \/ /\ req[r].at = "revokePut" /\ req[r].id \in KeyIds
            /\ PutOf(r) = [name |-> Record(req[r].id),
                           value |-> [req[r].seen[1] EXCEPT !.revoked = TRUE]]
         \/ /\ req[r].at = "usagePut" /\ req[r].key \in KeyIds
            /\ PutOf(r) = [name |-> Bucket(req[r].key), value |-> Or(req[r].seen, 0) + 1]
<1>1. /\ StageOf(req[r]) /\ TargetKept(req[r], kv) /\ BearerKept(req[r], kv, tally)
      /\ req[r] \in Requesting /\ StoreTyped(kv) /\ tally \in Tallies /\ KeysKept
  BY RequestFacts
<1>2. CASE req[r].at = "limitPut"
  BY <1>1, <1>2 DEF PutOf, StageOf
<1>3. CASE req[r].at = "keyPut"
  <2>1. PICK id \in KeyIds : Unused(id) /\ id = FreshId
    BY <1>3 DEF Written, HasFreshId, FreshId
  <2>2. PICK o : o = NewOwner(r, id)
    OBVIOUS
  <2>3. o \in KeyIds
    <3>1. CASE req[r].op = "open"
      BY <2>1, <2>2, <3>1 DEF NewOwner
    <3>2. CASE req[r].op # "open"
      <4>1. req[r].op = "owned" /\ req[r].key \in tally.made /\ req[r].key \in KeyIds
        BY <1>1, <1>3, <3>2 DEF StageOf, BearerKept, Passed, Tallies
      <4>2. kv[Record(req[r].key)] # <<>> /\ kv[Record(req[r].key)] \in Optional(KeyRecords)
        BY <1>1, <4>1 DEF KeysKept, StoreTyped
      <4> QED BY <2>2, <3>2, <4>2 DEF NewOwner, OwnerOf, Or, Optional, KeyRecords
    <3> QED BY <3>1, <3>2
  <2>4. PutOf(r) = [name |-> Record(id), value |-> [owner |-> o, revoked |-> FALSE]]
    BY <1>3, <2>1, <2>2 DEF PutOf, NewId
  <2> QED BY <1>3, <2>1, <2>3, <2>4
<1>4. CASE req[r].at = "idPut"
  BY <1>1, <1>4 DEF PutOf, NewId, TargetKept
<1>5. CASE req[r].at = "ownerPut"
  <2>1. req[r].id \in KeyIds /\ kv[Record(req[r].id)] # <<>>
    BY <1>1, <1>5 DEF TargetKept
  <2>2. kv[Record(req[r].id)] \in Optional(KeyRecords)
    BY <1>1, <2>1 DEF StoreTyped
  <2>3. kv[Record(req[r].id)][1].owner \in KeyIds
        /\ Or(kv[Record(req[r].id)], {}) = kv[Record(req[r].id)][1]
    BY <2>1, <2>2 DEF Or, Optional, KeyRecords
  <2>4. PutOf(r) = [name |-> Owner(Or(kv[Record(req[r].id)], {}).owner),
                    value |-> Or(req[r].seen, {}) \cup {req[r].id}]
    BY <1>5 DEF PutOf, NewId, OwnerOf
  <2> QED BY <1>5, <2>1, <2>3, <2>4
<1>6. CASE req[r].at = "revokePut"
  BY <1>1, <1>6 DEF PutOf, NewId, StageOf
<1>7. CASE req[r].at = "usagePut"
  BY <1>1, <1>7 DEF PutOf, StageOf, Requesting
<1> QED BY <1>2, <1>3, <1>4, <1>5, <1>6, <1>7 DEF Puts

\* One name is written, the rest of the store stays.
LEMMA OneName ==
  ASSUME ControlInv, NEW n \in Names, NEW v, kv' = [kv EXCEPT ![n] = <<v>>]
  PROVE  kv'[n] = <<v>> /\ (\A m \in Names : m # n => kv'[m] = kv[m])
         /\ (v \in KeyRecords \cup KeyIds \cup (SUBSET KeyIds) \cup Nat => kv' \in [Names -> AnyValue])
<1>1. kv \in [Names -> AnyValue]
  BY DEF ControlInv, ControlTypes, StoreTyped
<1>2. kv'[n] = <<v>> /\ (\A m \in Names : m # n => kv'[m] = kv[m])
  BY <1>1
<1>3. ASSUME v \in KeyRecords \cup KeyIds \cup (SUBSET KeyIds) \cup Nat
      PROVE  kv' \in [Names -> AnyValue]
  <2>a. \A S : v \in S => <<v>> \in Optional(S)
    BY DEF Optional
  <2>1. <<v>> \in AnyValue
    BY <1>3, <2>a, Zenon DEF AnyValue
  <2> QED BY <1>1, <2>1
<1> QED BY <1>2, <1>3

LEMMA PutStores ==
  ASSUME ControlAssumption, ControlInv, NEW r \in Requests, req[r].at \in Puts, Written(r)
  PROVE  /\ PutOf(r).name \in Names /\ StoreTyped(kv') /\ Forward
         /\ kv'[PutOf(r).name] = <<PutOf(r).value>>
         /\ \A m \in Names : m # PutOf(r).name => kv'[m] = kv[m]
<1>1. /\ StageOf(req[r]) /\ TargetKept(req[r], kv) /\ req \in [Requests -> Requesting]
      /\ req[r] \in Requesting /\ StoreTyped(kv)
  BY RequestFacts
<1>2. PICK n : n = PutOf(r).name
  OBVIOUS
<1>3. PICK v : v = PutOf(r).value
  OBVIOUS
<1>4. kv' = [kv EXCEPT ![n] = <<v>>]
  BY <1>2, <1>3 DEF Written
<1>5. ASSUME n \in Names, v \in KeyRecords \cup KeyIds \cup (SUBSET KeyIds) \cup Nat
      PROVE  kv'[n] = <<v>> /\ (\A m \in Names : m # n => kv'[m] = kv[m])
             /\ kv' \in [Names -> AnyValue]
  BY <1>4, <1>5, OneName
<1>6. CASE req[r].at = "limitPut"
  <2>1. PICK op \in LimitedOps : n = Counter(op) /\ v = Or(req[r].seen, 0) + 1
    BY <1>2, <1>3, <1>6, PutIs
  <2>2. v \in Nat
    BY <1>1, <1>6, <2>1 DEF TargetKept, Or, Optional
  <2>a. v \in KeyRecords \cup KeyIds \cup (SUBSET KeyIds) \cup Nat
    BY <2>2, Zenon
  <2>3. n \in Names
    BY <2>1, NameFacts
  <2>4. kv'[n] = <<v>> /\ (\A m \in Names : m # n => kv'[m] = kv[m])
        /\ kv' \in [Names -> AnyValue]
    BY <1>5, <2>a, <2>3
  <2>5. /\ \A id \in KeyIds : /\ kv'[Record(id)] = kv[Record(id)]
                              /\ kv'[IdEntry(id)] = kv[IdEntry(id)]
                              /\ kv'[Owner(id)] = kv[Owner(id)]
                              /\ kv'[Bucket(id)] = kv[Bucket(id)]
        /\ \A other \in LimitedOps \ {op} : kv'[Counter(other)] = kv[Counter(other)]
    BY <2>1, <2>4, NameFacts
  <2>6. <<v>> \in Optional(Nat)
    BY <2>2 DEF Optional
  <2>7. StoreTyped(kv')
    BY <1>1, <2>1, <2>4, <2>5, <2>6 DEF StoreTyped
  <2>8. Forward
    BY <2>5 DEF Forward
  <2> QED BY <1>2, <1>3, <2>3, <2>4, <2>7, <2>8
<1>7. CASE req[r].at = "keyPut"
  <2>0. PICK id, o \in KeyIds :
          /\ id = FreshId /\ Unused(id)
          /\ PutOf(r) = [name |-> Record(id), value |-> [owner |-> o, revoked |-> FALSE]]
    BY <1>7, PutIs
  <2>1. Unused(id) /\ n = Record(id) /\ v = [owner |-> o, revoked |-> FALSE]
    BY <1>2, <1>3, <2>0
  <2>2. v \in KeyRecords
    BY <2>1 DEF KeyRecords
  <2>3. n \in Names
    BY <2>1, NameFacts
  <2>4. kv'[n] = <<v>> /\ (\A m \in Names : m # n => kv'[m] = kv[m])
        /\ kv' \in [Names -> AnyValue]
    BY <1>5, <2>2, <2>3
  <2>5. /\ \A other \in KeyIds \ {id} : kv'[Record(other)] = kv[Record(other)]
        /\ \A other \in KeyIds : /\ kv'[IdEntry(other)] = kv[IdEntry(other)]
                                 /\ kv'[Owner(other)] = kv[Owner(other)]
                                 /\ kv'[Bucket(other)] = kv[Bucket(other)]
        /\ \A op \in LimitedOps : kv'[Counter(op)] = kv[Counter(op)]
    BY <2>1, <2>4, NameFacts
  <2>6. <<v>> \in Optional(KeyRecords)
    BY <2>2 DEF Optional
  <2>7. StoreTyped(kv')
    BY <1>1, <2>1, <2>4, <2>5, <2>6 DEF StoreTyped
  <2>8. kv[Record(id)] = <<>> /\ \A q \in Requests : req[q].key # id
    BY <2>1 DEF Unused
  <2>9. Forward
    BY <2>1, <2>5, <2>8 DEF Forward
  <2> QED BY <1>2, <1>3, <2>3, <2>4, <2>7, <2>9
<1>8. CASE req[r].at = "idPut"
  <2>1. PICK id \in KeyIds : n = IdEntry(id) /\ v = id
    BY <1>2, <1>3, <1>8, PutIs
  <2>2. v \in KeyIds
    BY <2>1
  <2>3. n \in Names
    BY <2>1, NameFacts
  <2>4. kv'[n] = <<v>> /\ (\A m \in Names : m # n => kv'[m] = kv[m])
        /\ kv' \in [Names -> AnyValue]
    BY <1>5, <2>2, <2>3
  <2>5. /\ \A other \in KeyIds : /\ kv'[Record(other)] = kv[Record(other)]
                                 /\ kv'[Owner(other)] = kv[Owner(other)]
                                 /\ kv'[Bucket(other)] = kv[Bucket(other)]
        /\ \A other \in KeyIds \ {id} : kv'[IdEntry(other)] = kv[IdEntry(other)]
        /\ \A op \in LimitedOps : kv'[Counter(op)] = kv[Counter(op)]
    BY <2>1, <2>4, NameFacts
  <2>6. <<v>> \in Optional(KeyIds) /\ <<v>> # <<>>
    BY <2>2 DEF Optional
  <2>7. StoreTyped(kv')
    BY <1>1, <2>1, <2>4, <2>5, <2>6 DEF StoreTyped
  <2>8. Forward
    BY <2>1, <2>4, <2>5, <2>6 DEF Forward
  <2> QED BY <1>2, <1>3, <2>3, <2>4, <2>7, <2>8
<1>9. CASE req[r].at = "ownerPut"
  <2>1. PICK o \in KeyIds : n = Owner(o) /\ v = Or(req[r].seen, {}) \cup {req[r].id}
    BY <1>2, <1>3, <1>9, PutIs
  <2>2. v \in SUBSET KeyIds
    BY <1>1, <1>9, <2>1 DEF TargetKept, Or, Optional
  <2>3. n \in Names
    BY <2>1, NameFacts
  <2>4. kv'[n] = <<v>> /\ (\A m \in Names : m # n => kv'[m] = kv[m])
        /\ kv' \in [Names -> AnyValue]
    BY <1>5, <2>2, <2>3
  <2>5. /\ \A other \in KeyIds : /\ kv'[Record(other)] = kv[Record(other)]
                                 /\ kv'[IdEntry(other)] = kv[IdEntry(other)]
                                 /\ kv'[Bucket(other)] = kv[Bucket(other)]
        /\ \A other \in KeyIds \ {o} : kv'[Owner(other)] = kv[Owner(other)]
        /\ \A op \in LimitedOps : kv'[Counter(op)] = kv[Counter(op)]
    BY <2>1, <2>4, NameFacts
  <2>6. <<v>> \in Optional(SUBSET KeyIds)
    BY <2>2 DEF Optional
  <2>7. StoreTyped(kv')
    BY <1>1, <2>1, <2>4, <2>5, <2>6 DEF StoreTyped
  <2>8. Forward
    BY <2>5 DEF Forward
  <2> QED BY <1>2, <1>3, <2>3, <2>4, <2>7, <2>8
<1>10. CASE req[r].at = "revokePut"
  <2>0. /\ req[r].id \in KeyIds
        /\ PutOf(r) = [name |-> Record(req[r].id),
                       value |-> [req[r].seen[1] EXCEPT !.revoked = TRUE]]
    BY <1>10, PutIs
  <2>a. PICK id \in KeyIds : id = req[r].id
    BY <2>0
  <2>1. id = req[r].id /\ n = Record(id) /\ v = [req[r].seen[1] EXCEPT !.revoked = TRUE]
    BY <1>2, <1>3, <2>0, <2>a
  <2>2. req[r].seen[1] \in KeyRecords /\ req[r].seen[1].owner = kv[Record(id)][1].owner
    BY <1>1, <1>10, <2>1 DEF TargetKept, Optional
  <2>3. v \in KeyRecords /\ v.revoked /\ v.owner = kv[Record(id)][1].owner
    BY <2>1, <2>2 DEF KeyRecords
  <2>4. n \in Names
    BY <2>1, NameFacts
  <2>5. kv'[n] = <<v>> /\ (\A m \in Names : m # n => kv'[m] = kv[m])
        /\ kv' \in [Names -> AnyValue]
    BY <1>5, <2>3, <2>4
  <2>6. /\ \A other \in KeyIds \ {id} : kv'[Record(other)] = kv[Record(other)]
        /\ \A other \in KeyIds : /\ kv'[IdEntry(other)] = kv[IdEntry(other)]
                                 /\ kv'[Owner(other)] = kv[Owner(other)]
                                 /\ kv'[Bucket(other)] = kv[Bucket(other)]
        /\ \A op \in LimitedOps : kv'[Counter(op)] = kv[Counter(op)]
    BY <2>1, <2>5, NameFacts
  <2>7. <<v>> \in Optional(KeyRecords) /\ <<v>> # <<>> /\ <<v>>[1] = v
    BY <2>3 DEF Optional
  <2>8. StoreTyped(kv')
    BY <1>1, <2>1, <2>5, <2>6, <2>7 DEF StoreTyped
  <2>9. kv[Record(id)] # <<>>
    BY <1>1, <1>10, <2>1 DEF TargetKept
  <2>b. /\ kv'[Record(id)] # <<>> /\ kv'[Record(id)][1].revoked
        /\ kv'[Record(id)][1].owner = kv[Record(id)][1].owner
    BY <2>1, <2>3, <2>5, <2>7
  <2>10. Forward
    BY <2>b, <2>6, <2>9 DEF Forward
  <2> QED BY <1>2, <1>3, <2>4, <2>5, <2>8, <2>10
<1>11. CASE req[r].at = "usagePut"
  <2>1. PICK id \in KeyIds : n = Bucket(id) /\ v = Or(req[r].seen, 0) + 1
    BY <1>2, <1>3, <1>11, PutIs
  <2>2. v \in Nat
    BY <1>1, <1>11, <2>1 DEF TargetKept, Or, Optional
  <2>a. v \in KeyRecords \cup KeyIds \cup (SUBSET KeyIds) \cup Nat
    BY <2>2, Zenon
  <2>3. n \in Names
    BY <2>1, NameFacts
  <2>4. kv'[n] = <<v>> /\ (\A m \in Names : m # n => kv'[m] = kv[m])
        /\ kv' \in [Names -> AnyValue]
    BY <1>5, <2>a, <2>3
  <2>5. /\ \A other \in KeyIds : /\ kv'[Record(other)] = kv[Record(other)]
                                 /\ kv'[IdEntry(other)] = kv[IdEntry(other)]
                                 /\ kv'[Owner(other)] = kv[Owner(other)]
        /\ \A other \in KeyIds \ {id} : kv'[Bucket(other)] = kv[Bucket(other)]
        /\ \A op \in LimitedOps : kv'[Counter(op)] = kv[Counter(op)]
    BY <2>1, <2>4, NameFacts
  <2>6. <<v>> \in Optional(Nat)
    BY <2>2 DEF Optional
  <2>7. StoreTyped(kv')
    BY <1>1, <2>1, <2>4, <2>5, <2>6 DEF StoreTyped
  <2>8. Forward
    BY <2>5 DEF Forward
  <2> QED BY <1>2, <1>3, <2>3, <2>4, <2>7, <2>8
<1> QED BY <1>6, <1>7, <1>8, <1>9, <1>10, <1>11 DEF Puts

\* A put is seen everywhere at once or late: what it overwrote, and what was there
\* before, may still be returned.
LEMMA PutsLeave ==
  ASSUME ControlAssumption, ControlInv, NEW r \in Requests, req[r].at \in Puts, Written(r),
         old' = [old EXCEPT ![PutOf(r).name] = {}] \/ Lags(r)
  PROVE  OldMoves
<1>1. PICK n : n = PutOf(r).name
  OBVIOUS
<1>2. n \in Names /\ OldKept /\ StoreTyped(kv)
  BY <1>1, PutStores, RequestFacts
<1>3. old \in [Names -> SUBSET AnyValue] /\ kv \in [Names -> AnyValue]
  BY <1>2 DEF OldKept, StoreTyped
<1>4. old' = [old EXCEPT ![n] = {}] \/ old' = [old EXCEPT ![n] = @ \cup {kv[n]}]
  BY <1>1 DEF Lags
<1>5. CASE old' = [old EXCEPT ![n] = {}]
  BY <1>2, <1>3, <1>5 DEF OldMoves
<1>6. CASE old' = [old EXCEPT ![n] = @ \cup {kv[n]}]
  BY <1>2, <1>3, <1>6 DEF OldMoves
<1> QED BY <1>4, <1>5, <1>6

LEMMA StoredIs ==
  ASSUME ControlAssumption, ControlInv, NEW r \in Requests, req[r].at \in Puts, Stored(r)
  PROVE  Written(r) /\ OldMoves
BY PutsLeave DEF Stored

\* A put that did not race keeps the names its request had seen.
LEMMA ListsGrowAfter ==
  ASSUME ControlAssumption, ControlInv, NEW r \in Requests, req[r].at \in Puts, Written(r),
         tally'.raced = tally.raced \cup Raced(r)
  PROVE  ListsGrow
<1> SUFFICES ASSUME NEW o \in KeyIds, Owner(o) \notin tally'.raced
             PROVE  Or(kv[Owner(o)], {}) \subseteq Or(kv'[Owner(o)], {})
  BY DEF ListsGrow
<1>1. /\ kv'[PutOf(r).name] = <<PutOf(r).value>>
      /\ \A m \in Names : m # PutOf(r).name => kv'[m] = kv[m]
  BY PutStores
<1>2. Owner(o) \in Names
  BY NameFacts
<1>3. CASE PutOf(r).name = Owner(o)
  <2>1. req[r].at = "ownerPut"
    BY <1>3, PutIs, NameFacts
  <2>2. PutOf(r).value = Or(req[r].seen, {}) \cup {req[r].id}
    BY <2>1, PutIs
  <2>3. kv[Owner(o)] = req[r].seen
    BY <1>3, <2>1 DEF Raced, Overwrites
  <2>4. kv'[Owner(o)] = <<PutOf(r).value>>
    BY <1>1, <1>3
  <2>5. Or(kv'[Owner(o)], {}) = PutOf(r).value
    BY ONLY <2>4 DEF Or
  <2> QED BY ONLY <2>2, <2>3, <2>5
<1>4. CASE PutOf(r).name # Owner(o)
  BY <1>1, <1>2, <1>4
<1> QED BY <1>3, <1>4

\* A put keeps the lists: of an owner's list the old names stay, unless it raced.
LEMMA ListsAfter ==
  ASSUME ControlAssumption, ControlInv, NEW r \in Requests, req[r].at \in Puts, Written(r), ToldTruly,
         tally'.raced = tally.raced \cup Raced(r),
         tally'.made = tally.made
           \/ (req[r].at = "ownerPut" /\ tally'.made = tally.made \cup {req[r].id})
  PROVE  ListsKept'
<1> SUFFICES ASSUME NEW o \in KeyIds, Owner(o) \notin tally'.raced,
                    NEW id \in tally'.made, kv'[Record(id)][1].owner = o
             PROVE  id \in Or(kv'[Owner(o)], {})
  BY DEF ListsKept
<1>1. /\ StoreTyped(kv) /\ tally \in Tallies /\ KeysKept /\ ListsKept /\ TargetKept(req[r], kv)
      /\ Owner(o) \notin tally.raced
  BY RequestFacts DEF ControlInv
<1>2. /\ kv'[PutOf(r).name] = <<PutOf(r).value>> /\ Forward
      /\ \A m \in Names : m # PutOf(r).name => kv'[m] = kv[m]
  BY PutStores
<1>3. Owner(o) \in Names
  BY NameFacts
<1>4. ASSUME id \in tally.made
      PROVE  id \in Or(kv[Owner(o)], {})
  <2>1. kv[Record(id)][1].owner = o
    BY <1>1, <1>2, <1>4 DEF KeysKept, Forward, Tallies
  <2> QED BY <1>1, <1>4, <2>1 DEF ListsKept
<1>5. CASE PutOf(r).name = Owner(o)
  <2>1. req[r].at = "ownerPut"
    BY <1>5, PutIs, NameFacts
  <2>2. /\ req[r].id \in KeyIds /\ PutOf(r).value = Or(req[r].seen, {}) \cup {req[r].id}
    BY <2>1, PutIs
  <2>3. kv[Owner(o)] = req[r].seen
    BY <1>5, <2>1 DEF Raced, Overwrites
  <2>4. Or(kv'[Owner(o)], {}) = Or(kv[Owner(o)], {}) \cup {req[r].id}
    <3>1. kv'[Owner(o)] = <<PutOf(r).value>>
      BY <1>2, <1>5
    <3>2. Or(kv'[Owner(o)], {}) = PutOf(r).value
      BY ONLY <3>1 DEF Or
    <3> QED BY ONLY <2>2, <2>3, <3>2
  <2> QED BY <1>4, <2>4
<1>6. CASE PutOf(r).name # Owner(o)
  <2>1. kv'[Owner(o)] = kv[Owner(o)]
    BY <1>2, <1>3, <1>6
  <2>2. id \in tally.made
    <3> SUFFICES ASSUME req[r].at = "ownerPut", id = req[r].id PROVE FALSE
      OBVIOUS
    <3>1. /\ req[r].id \in KeyIds /\ kv[Record(req[r].id)] # <<>>
          /\ PutOf(r).name = Owner(kv[Record(req[r].id)][1].owner)
      BY <1>1, PutIs DEF TargetKept
    <3>2. kv'[Record(id)][1].owner = kv[Record(id)][1].owner
      BY <1>2, <3>1 DEF Forward
    <3> QED BY <1>6, <3>1, <3>2
  <2> QED BY <1>4, <2>1, <2>2
<1> QED BY <1>5, <1>6

\* A put keeps the counters: one more is under its name, and it counts once, as
\* an accepted or granted request or as a put that seemed to fail.
LEMMA CountsAfter ==
  ASSUME ControlAssumption, ControlInv, NEW r \in Requests, req[r].at \in Puts, Written(r),
         tally' \in Tallies, tally'.raced = tally.raced \cup Raced(r),
         \A id \in KeyIds :
           tally'.accepted[id] + tally'.phantom[Bucket(id)] =
             tally.accepted[id] + tally.phantom[Bucket(id)]
               + (IF PutOf(r).name = Bucket(id) THEN 1 ELSE 0),
         \A op \in LimitedOps :
           /\ tally'.granted[op] + tally'.phantom[Counter(op)] =
                tally.granted[op] + tally.phantom[Counter(op)]
                  + (IF PutOf(r).name = Counter(op) THEN 1 ELSE 0)
           /\ tally'.granted[op] <=
                tally.granted[op] + (IF PutOf(r).name = Counter(op) THEN 1 ELSE 0)
  PROVE  CountsKept'
<1>1. StoreTyped(kv) /\ tally \in Tallies /\ CountsKept /\ TargetKept(req[r], kv)
  BY RequestFacts DEF ControlInv
<1>2. /\ kv'[PutOf(r).name] = <<PutOf(r).value>>
      /\ \A m \in Names : m # PutOf(r).name => kv'[m] = kv[m]
  BY PutStores
<1>3. ASSUME NEW id \in KeyIds, Bucket(id) \notin tally'.raced
      PROVE  Or(kv'[Bucket(id)], 0) = tally'.accepted[id] + tally'.phantom[Bucket(id)]
  <2>1. Or(kv[Bucket(id)], 0) = tally.accepted[id] + tally.phantom[Bucket(id)]
        /\ Bucket(id) \in Names
    BY <1>1, <1>3, NameFacts DEF CountsKept
  <2>2. CASE PutOf(r).name = Bucket(id)
    <3>1. req[r].at = "usagePut"
      BY <2>2, PutIs, NameFacts
    <3>2. PutOf(r).value = Or(req[r].seen, 0) + 1
      BY <3>1, PutIs
    <3>3. kv[Bucket(id)] = req[r].seen
      BY <1>3, <2>2, <3>1 DEF Raced, Overwrites
    <3>4. Or(kv'[Bucket(id)], 0) = Or(kv[Bucket(id)], 0) + 1
      BY <1>2, <2>2, <3>2, <3>3 DEF Or
    <3>5. tally'.accepted[id] + tally'.phantom[Bucket(id)] =
            tally.accepted[id] + tally.phantom[Bucket(id)] + 1
      BY <2>2
    <3> QED BY <2>1, <3>4, <3>5
  <2>3. CASE PutOf(r).name # Bucket(id)
    <3>1. kv'[Bucket(id)] = kv[Bucket(id)]
      BY <1>2, <2>1, <2>3
    <3>2. tally'.accepted[id] + tally'.phantom[Bucket(id)] =
            tally.accepted[id] + tally.phantom[Bucket(id)] + 0
      BY <2>3
    <3>3. tally.accepted[id] \in Nat /\ tally.phantom[Bucket(id)] \in Nat
      BY <1>1, <2>1 DEF Tallies
    <3> QED BY <2>1, <3>1, <3>2, <3>3
  <2> QED BY <2>2, <2>3
<1>4. ASSUME NEW op \in LimitedOps, Counter(op) \notin tally'.raced
      PROVE  /\ Or(kv'[Counter(op)], 0) = tally'.granted[op] + tally'.phantom[Counter(op)]
             /\ tally'.granted[op] <= Limit
  <2>1. /\ Or(kv[Counter(op)], 0) = tally.granted[op] + tally.phantom[Counter(op)]
        /\ tally.granted[op] <= Limit /\ Counter(op) \in Names
    BY <1>1, <1>4, NameFacts DEF CountsKept
  <2>2. /\ tally.granted[op] \in Nat /\ tally.phantom[Counter(op)] \in Nat
        /\ tally'.granted[op] \in Nat /\ tally'.phantom[Counter(op)] \in Nat /\ Limit \in Nat
    BY <1>1, <2>1, ControlAssumption DEF Tallies, ControlAssumption
  <2>3. CASE PutOf(r).name = Counter(op)
    <3>1. req[r].at = "limitPut"
      BY <2>3, PutIs, NameFacts
    <3>2. PutOf(r).value = Or(req[r].seen, 0) + 1
      BY <3>1, PutIs
    <3>3. kv[Counter(op)] = req[r].seen /\ Or(req[r].seen, 0) < Limit
      BY <1>1, <1>4, <2>3, <3>1 DEF Raced, Overwrites, TargetKept
    <3>4. Or(kv'[Counter(op)], 0) = Or(kv[Counter(op)], 0) + 1
      BY <1>2, <2>3, <3>2, <3>3 DEF Or
    <3>5. /\ tally'.granted[op] + tally'.phantom[Counter(op)] =
               tally.granted[op] + tally.phantom[Counter(op)] + 1
          /\ tally'.granted[op] <= tally.granted[op] + 1
      BY <2>3
    <3> QED BY <2>1, <2>2, <3>3, <3>4, <3>5
  <2>4. CASE PutOf(r).name # Counter(op)
    <3>1. kv'[Counter(op)] = kv[Counter(op)]
      BY <1>2, <2>1, <2>4
    <3>2. /\ tally'.granted[op] + tally'.phantom[Counter(op)] =
               tally.granted[op] + tally.phantom[Counter(op)] + 0
          /\ tally'.granted[op] <= tally.granted[op] + 0
      BY <2>4
    <3> QED BY <2>1, <2>2, <3>1, <3>2
  <2> QED BY <2>3, <2>4
<1> QED BY <1>3, <1>4 DEF CountsKept

\* What one put does to the store, to the others, and to what they are told.
LEMMA PutMove ==
  ASSUME ControlAssumption, ControlInv, NEW r \in Requests, req[r].at \in Puts, Written(r),
         OldMoves, NEW x \in Requesting, req' = [req EXCEPT ![r] = x], ToldTruly,
         SameSight(x, req[r]),
         RequestKept(x, kv', tally'), RowsKept',
         tally'.raced = tally.raced \cup Raced(r),
         tally'.made = tally.made
           \/ (req[r].at = "ownerPut" /\ tally'.made = tally.made \cup {req[r].id}),
         \A id \in KeyIds :
           tally'.accepted[id] + tally'.phantom[Bucket(id)] =
             tally.accepted[id] + tally.phantom[Bucket(id)]
               + (IF PutOf(r).name = Bucket(id) THEN 1 ELSE 0),
         \A op \in LimitedOps :
           /\ tally'.granted[op] + tally'.phantom[Counter(op)] =
                tally.granted[op] + tally.phantom[Counter(op)]
                  + (IF PutOf(r).name = Counter(op) THEN 1 ELSE 0)
           /\ tally'.granted[op] <=
                tally.granted[op] + (IF PutOf(r).name = Counter(op) THEN 1 ELSE 0)
  PROVE  ControlInv'
<1>1. StoreTyped(kv') /\ Forward
  BY PutStores
<1>2. ListsKept'
  BY ListsAfter
<1>3. CountsKept'
  BY CountsAfter DEF ToldTruly
<1>4. ListsGrow
  BY ListsGrowAfter
<1>5. WideKept(x)'
  BY <1>1, <1>4, WideStays
<1> QED BY <1>1, <1>2, <1>3, <1>4, <1>5, ControlMove

LEMMA PutGoto ==
  ASSUME ControlAssumption, ControlInv, NEW r \in Requests, req[r].at \in Puts, Written(r), ToldTruly,
         NEW y \in Requesting, y.at \notin {"idle", "auth", "done"}, y.status = req[r].status,
         y.op = req[r].op, y.key = req[r].key, SameSight(y, req[r]),
         StageOf(y), TargetKept(y, kv')
  PROVE  RequestKept(y, kv', tally')
<1>1. StageOf(req[r]) /\ Forward
  BY RequestFacts, PutStores
<1>2. BearerKept(req[r], kv', tally')
  BY <1>1, OthersKept DEF RequestKept
<1>3. BearerKept(y, kv', tally')
  BY <1>1, <1>2 DEF BearerKept, Passed, StageOf, Puts, SameSight
<1>4. y.status = 0
  BY <1>1 DEF StageOf, Puts
<1> QED BY <1>3, <1>4 DEF RequestKept, ListKept, KnownKept, MayTell

LEMMA PutAnswer ==
  ASSUME ControlAssumption, ControlInv, NEW r \in Requests, req[r].at \in Puts, Written(r), ToldTruly,
         NEW s \in Nat, s \notin {401, 404}, NEW y,
         y = [req[r] EXCEPT !.at = "done", !.status = s, !.seen = <<>>, !.tries = 0],
         Answer(r, s)
  PROVE  /\ y \in Requesting /\ RequestKept(y, kv', tally') /\ y.at = "done"
         /\ req' = [req EXCEPT ![r] = y] /\ SameSight(y, req[r])
<1>1. /\ StageOf(req[r]) /\ Forward /\ req \in [Requests -> Requesting] /\ req[r] \in Requesting
  BY RequestFacts, PutStores
<1>2. RequestKept(req[r], kv', tally')
  BY <1>1, OthersKept
<1>3. /\ req[r].at \notin {"idle", "done", "auth"} /\ req[r].op # "list"
      /\ MayTell(req[r], s, kv')
  BY <1>1 DEF Puts, StageOf, LimitedOps, MayTell
<1>4. y \in Requesting /\ RequestKept(y, kv', tally')
  BY <1>1, <1>2, <1>3, AnswerKept
<1>5. /\ req' = [req EXCEPT ![r] = y] /\ y.at = "done"
      /\ SameSight(y, req[r])
  BY <1>1 DEF Answer, Requesting, SameSight
<1> QED BY <1>4, <1>5

\* A report's row is written before its key is metered, and metering ends in it.
LEMMA RowsGrow ==
  ASSUME ControlAssumption, ControlInv, NEW r \in Requests, NEW x \in Requesting,
         req' = [req EXCEPT ![r] = x], tally' \in Tallies,
         tally'.accepted = tally.accepted, tally'.rows = tally.rows + 1
  PROVE  RowsKept'
<1> SUFFICES ASSUME NEW id \in KeyIds
             PROVE  tally'.accepted[id] + Cardinality(InUsage(id)') <= tally'.rows
  BY DEF RowsKept
<1>1. req \in [Requests -> Requesting] /\ tally \in Tallies
      /\ tally.accepted[id] + Cardinality(InUsage(id)) <= tally.rows
  BY DEF ControlInv, ControlTypes, RowsKept
<1>2. InUsage(id)' \subseteq InUsage(id) \cup {r}
  BY <1>1 DEF InUsage
<1>3. IsFiniteSet(InUsage(id))
  BY FS_Subset DEF InUsage, ControlAssumption
<1>4. IsFiniteSet(InUsage(id) \cup {r})
      /\ Cardinality(InUsage(id) \cup {r}) <= Cardinality(InUsage(id)) + 1
  <2>1. PICK S : S = InUsage(id)
    OBVIOUS
  <2>2. IsFiniteSet(S) /\ Cardinality(S) \in Nat
    BY <1>3, <2>1, FS_CardinalityType
  <2>3. /\ IsFiniteSet(S \cup {r})
        /\ Cardinality(S \cup {r}) = IF r \in S THEN Cardinality(S) ELSE Cardinality(S) + 1
    BY <2>2, FS_AddElement
  <2>4. Cardinality(S \cup {r}) <= Cardinality(S) + 1
    BY <2>2, <2>3
  <2> QED BY <2>1, <2>3, <2>4
<1>5. Cardinality(InUsage(id)') <= Cardinality(InUsage(id) \cup {r})
      /\ Cardinality(InUsage(id)') \in Nat
  BY <1>2, <1>4, FS_Subset, FS_CardinalityType
<1>6. Cardinality(InUsage(id)) \in Nat /\ Cardinality(InUsage(id) \cup {r}) \in Nat
  BY <1>3, <1>4, FS_CardinalityType
<1> QED BY <1>1, <1>4, <1>5, <1>6 DEF Tallies

LEMMA RowsPaid ==
  ASSUME ControlAssumption, ControlInv, NEW r \in Requests, NEW x \in Requesting,
         req' = [req EXCEPT ![r] = x], tally' \in Tallies, x.at \notin {"usage", "usagePut"},
         req[r].at = "usagePut",
         tally'.accepted = [tally.accepted EXCEPT ![req[r].key] = @ + 1],
         tally'.rows = tally.rows
  PROVE  RowsKept'
<1> SUFFICES ASSUME NEW id \in KeyIds
             PROVE  tally'.accepted[id] + Cardinality(InUsage(id)') <= tally'.rows
  BY DEF RowsKept
<1>1. /\ req \in [Requests -> Requesting] /\ tally \in Tallies
      /\ tally.accepted[id] + Cardinality(InUsage(id)) <= tally.rows
  BY DEF ControlInv, ControlTypes, RowsKept
<1>2. InUsage(id)' = InUsage(id) \ {r}
  BY <1>1 DEF InUsage
<1>3. IsFiniteSet(InUsage(id))
  BY FS_Subset DEF InUsage, ControlAssumption
<1>4. tally.accepted \in [KeyIds -> Nat] /\ tally.rows \in Nat /\ Cardinality(InUsage(id)) \in Nat
  BY <1>1, <1>3, FS_CardinalityType DEF Tallies
<1>5. CASE id = req[r].key
  <2>1. r \in InUsage(id)
    BY <1>5 DEF InUsage
  <2>2. Cardinality(InUsage(id) \ {r}) = Cardinality(InUsage(id)) - 1
    BY <1>3, <2>1, FS_RemoveElement
  <2>3. tally'.accepted[id] = tally.accepted[id] + 1
    BY <1>4, <1>5
  <2> QED BY <1>1, <1>2, <1>4, <2>2, <2>3
<1>6. CASE id # req[r].key
  <2>1. r \notin InUsage(id)
    BY <1>6 DEF InUsage
  <2>2. InUsage(id)' = InUsage(id)
    BY <1>2, <2>1
  <2>3. tally'.accepted[id] = tally.accepted[id]
    BY <1>4, <1>6
  <2> QED BY <1>1, <2>2, <2>3
<1> QED BY <1>5, <1>6

LEMMA PutLimitKeeps ==
  ASSUME ControlAssumption, ControlInv, NEW r \in Requests, PutLimit(r)
  PROVE  ControlInv'
<1>1. /\ StageOf(req[r]) /\ req \in [Requests -> Requesting] /\ req[r] \in Requesting
      /\ tally \in Tallies /\ req[r].at = "limitPut" /\ req[r].at \in Puts
      /\ Written(r) /\ OldMoves
  BY RequestFacts, StoredIs DEF PutLimit, Puts
<1>2. PICK op \in LimitedOps : op = req[r].op
  BY <1>1 DEF StageOf
<1>3. PutOf(r).name = Counter(op) /\ Counter(op) \in Names
  BY <1>1, <1>2, PutIs, NameFacts
<1>4. PICK granted : granted = [tally.granted EXCEPT ![op] = @ + 1]
  OBVIOUS
<1>5. PICK sum : sum = tally.rows + (IF op = "report" THEN 1 ELSE 0)
  OBVIOUS
<1>6. PICK raced : raced = tally.raced \cup Raced(r)
  OBVIOUS
<1>7. tally' = [tally EXCEPT !.granted = granted, !.raced = raced, !.rows = sum]
  BY <1>1, <1>2, <1>4, <1>5, <1>6 DEF PutLimit, Tallies
<1>8. tally.granted \in [LimitedOps -> Nat] /\ tally.rows \in Nat /\ tally.raced \in SUBSET Names
      /\ tally.accepted \in [KeyIds -> Nat] /\ tally.phantom \in [Names -> Nat]
  BY <1>1 DEF Tallies
<1>9. granted \in [LimitedOps -> Nat] /\ sum \in Nat /\ raced \in SUBSET Names
  BY <1>3, <1>4, <1>5, <1>6, <1>8 DEF Raced
<1>10. /\ tally'.granted = granted /\ tally'.raced = raced /\ tally'.rows = sum
       /\ tally'.accepted = tally.accepted /\ tally'.phantom = tally.phantom
       /\ tally'.gone = tally.gone /\ tally'.made = tally.made
  BY <1>1, <1>7 DEF Tallies
<1>11. tally' \in Tallies
  BY <1>1, <1>7, <1>9 DEF Tallies
<1>12. ToldTruly
  BY <1>6, <1>10, <1>11 DEF ToldTruly
<1>13. \A id \in KeyIds : PutOf(r).name # Bucket(id)
  BY <1>3, NameFacts
<1>14. \A id \in KeyIds :
         tally'.accepted[id] + tally'.phantom[Bucket(id)] =
             tally.accepted[id] + tally.phantom[Bucket(id)]
               + (IF PutOf(r).name = Bucket(id) THEN 1 ELSE 0)
  BY <1>8, <1>10, <1>13, NameFacts
<1>15. \A other \in LimitedOps :
           /\ tally'.granted[other] + tally'.phantom[Counter(other)] =
                tally.granted[other] + tally.phantom[Counter(other)]
                  + (IF PutOf(r).name = Counter(other) THEN 1 ELSE 0)
           /\ tally'.granted[other] <=
                tally.granted[other] + (IF PutOf(r).name = Counter(other) THEN 1 ELSE 0)
  <2> SUFFICES ASSUME NEW other \in LimitedOps
               PROVE  /\ tally'.granted[other] + tally'.phantom[Counter(other)] =
                           tally.granted[other] + tally.phantom[Counter(other)]
                             + (IF PutOf(r).name = Counter(other) THEN 1 ELSE 0)
                      /\ tally'.granted[other] <=
                           tally.granted[other] + (IF PutOf(r).name = Counter(other) THEN 1 ELSE 0)
    OBVIOUS
  <2>1. Counter(other) \in Names /\ tally.phantom[Counter(other)] \in Nat
        /\ tally.granted[other] \in Nat
    BY <1>8, NameFacts
  <2>2. CASE other = op
    BY <1>3, <1>4, <1>8, <1>10, <2>1, <2>2
  <2>3. CASE other # op
    <3>1. PutOf(r).name # Counter(other)
      BY <1>3, <2>3, NameFacts
    <3> QED BY <1>4, <1>8, <1>10, <2>1, <2>3, <3>1
  <2> QED BY <2>2, <2>3
<1>16. ASSUME NEW x \in Requesting, req' = [req EXCEPT ![r] = x], RequestKept(x, kv', tally'),
              SameSight(x, req[r]), RowsKept'
       PROVE  ControlInv'
  BY <1>1, <1>6, <1>10, <1>12, <1>14, <1>15, <1>16, PutMove
<1>17. ASSUME NEW s \in Nat, s \notin {401, 404}, Answer(r, s)
       PROVE  ControlInv'
  <2>1. PICK y : y = [req[r] EXCEPT !.at = "done", !.status = s, !.seen = <<>>, !.tries = 0]
    OBVIOUS
  <2>2. /\ y \in Requesting /\ RequestKept(y, kv', tally') /\ y.at = "done"
        /\ req' = [req EXCEPT ![r] = y] /\ SameSight(y, req[r])
    BY <1>1, <1>12, <1>17, <2>1, PutAnswer
  <2>3. tally'.rows >= tally.rows
    BY <1>5, <1>8, <1>10
  <2>4. RowsKept'
    BY <1>10, <1>11, <2>2, <2>3, RowsStay
  <2> QED BY <1>16, <2>2, <2>4
<1>18. ASSUME NEW stage \in {"keyPut", "usage"}, Goto(r, stage),
              stage = "keyPut" => op = "open", stage = "usage" => op = "report" /\ req[r].key # NoKey
       PROVE  ControlInv'
  <2>1. PICK y : y = [req[r] EXCEPT !.at = stage]
    OBVIOUS
  <2>2. y \in Requesting /\ req' = [req EXCEPT ![r] = y]
    BY <1>1, <1>18, <2>1 DEF Goto, Requesting, Stages
  <2>3. /\ y.at = stage /\ y.status = req[r].status /\ y.op = op /\ y.key = req[r].key
        /\ SameSight(y, req[r])
    BY <1>1, <1>2, <2>1 DEF Requesting, SameSight
  <2>4. StageOf(y) /\ TargetKept(y, kv')
    BY <1>1, <1>2, <1>18, <2>3 DEF StageOf, TargetKept
  <2>5. RequestKept(y, kv', tally')
    BY <1>1, <1>2, <1>12, <2>2, <2>3, <2>4, PutGoto
  <2>6. RowsKept'
    <3>1. CASE stage = "keyPut"
      <4>1. y.at \notin {"usage", "usagePut"} /\ tally'.rows >= tally.rows
        BY <1>5, <1>8, <1>10, <2>3, <3>1
      <4> QED BY <1>10, <1>11, <2>2, <4>1, RowsStay
    <3>2. CASE stage = "usage"
      BY <1>5, <1>10, <1>11, <1>18, <2>2, <3>2, RowsGrow
    <3> QED BY <3>1, <3>2
  <2> QED BY <1>16, <2>2, <2>3, <2>5, <2>6
<1>19. CASE op = "open"
  BY <1>2, <1>18, <1>19 DEF PutLimit
<1>20. CASE op = "session"
  BY <1>2, <1>17, <1>20 DEF PutLimit
<1>21. CASE op = "report"
  BY <1>2, <1>17, <1>18, <1>21 DEF PutLimit
<1> QED BY <1>19, <1>20, <1>21 DEF LimitedOps

\* A put that leaves what is told alone but for the marks of a race.
LEMMA PlainTally ==
  ASSUME ControlAssumption, ControlInv, NEW r \in Requests, req[r].at \in Puts, Written(r),
         req[r].at \in {"keyPut", "idPut", "ownerPut", "revokePut"}
  PROVE  \A id \in KeyIds : \A op \in LimitedOps : PutOf(r).name \notin {Bucket(id), Counter(op)}
BY PutIs, NameFacts

LEMMA PutNewKeyKeeps ==
  ASSUME ControlAssumption, ControlInv, NEW r \in Requests, PutNewKey(r)
  PROVE  ControlInv'
<1>1. /\ StageOf(req[r]) /\ req \in [Requests -> Requesting] /\ req[r] \in Requesting
      /\ tally \in Tallies /\ TargetKept(req[r], kv)
      /\ req[r].at \in {"keyPut", "idPut", "ownerPut"} /\ req[r].at \in Puts
      /\ Written(r) /\ OldMoves
  BY RequestFacts, StoredIs DEF PutNewKey, Puts
<1>2. /\ PutOf(r).name \in Names /\ Forward
      /\ kv'[PutOf(r).name] = <<PutOf(r).value>>
      /\ \A m \in Names : m # PutOf(r).name => kv'[m] = kv[m]
  BY <1>1, PutStores
<1>3. \A id \in KeyIds : \A op \in LimitedOps : PutOf(r).name \notin {Bucket(id), Counter(op)}
  BY <1>1, PlainTally
<1>4. /\ tally.granted \in [LimitedOps -> Nat] /\ tally.rows \in Nat
      /\ tally.accepted \in [KeyIds -> Nat] /\ tally.phantom \in [Names -> Nat]
      /\ \A id \in KeyIds : Bucket(id) \in Names
      /\ \A op \in LimitedOps : Counter(op) \in Names
  BY <1>1, NameFacts DEF Tallies
<1>5. ASSUME NEW x \in Requesting, req' = [req EXCEPT ![r] = x], RequestKept(x, kv', tally'),
             SameSight(x, req[r]),
             x.at \notin {"usage", "usagePut"}, ToldTruly,
             tally'.raced = tally.raced \cup Raced(r),
             tally'.made = tally.made
               \/ (req[r].at = "ownerPut" /\ tally'.made = tally.made \cup {req[r].id}),
             tally'.accepted = tally.accepted, tally'.phantom = tally.phantom,
             tally'.granted = tally.granted, tally'.rows = tally.rows
      PROVE  ControlInv'
  <2>0. tally' \in Tallies /\ tally'.rows >= tally.rows
    BY <1>4, <1>5 DEF ToldTruly
  <2>1. RowsKept'
    BY <1>5, <2>0, RowsStay
  <2>2. \A id \in KeyIds :
           tally'.accepted[id] + tally'.phantom[Bucket(id)] =
             tally.accepted[id] + tally.phantom[Bucket(id)]
               + (IF PutOf(r).name = Bucket(id) THEN 1 ELSE 0)
    BY <1>3, <1>4, <1>5 DEF LimitedOps
  <2>3. \A op \in LimitedOps :
           /\ tally'.granted[op] + tally'.phantom[Counter(op)] =
                tally.granted[op] + tally.phantom[Counter(op)]
                  + (IF PutOf(r).name = Counter(op) THEN 1 ELSE 0)
           /\ tally'.granted[op] <=
                tally.granted[op] + (IF PutOf(r).name = Counter(op) THEN 1 ELSE 0)
    BY <1>3, <1>4, <1>5, ControlAssumption DEF ControlAssumption
  <2> QED BY <1>1, <1>5, <2>1, <2>2, <2>3, PutMove
<1>6. ASSUME tally' = tally
      PROVE  ToldTruly
  BY <1>1, <1>6 DEF ToldTruly
<1>7. CASE req[r].at = "keyPut"
  <2>1. PICK id \in KeyIds : /\ id = FreshId /\ Unused(id) /\ PutOf(r).name = Record(id)
    BY <1>1, <1>7, PutIs
  <2>2. req' = [req EXCEPT ![r].at = "idPut", ![r].id = id] /\ tally' = tally
    BY <1>7, <2>1 DEF PutNewKey
  <2>3. PICK y : y = [req[r] EXCEPT !.at = "idPut", !.id = id]
    OBVIOUS
  <2>4. y \in Requesting /\ req' = [req EXCEPT ![r] = y]
    BY <1>1, <2>2, <2>3 DEF Requesting, Stages
  <2>5. /\ y.at = "idPut" /\ y.id = id /\ y.status = req[r].status /\ y.op = req[r].op
        /\ y.key = req[r].key /\ SameSight(y, req[r])
    BY <1>1, <2>3 DEF Requesting, SameSight
  <2>a. kv'[Record(id)] = <<PutOf(r).value>>
    BY <1>2, <2>1
  <2>6. kv'[Record(id)] # <<>>
    BY <2>a
  <2>7. StageOf(y) /\ TargetKept(y, kv')
    BY <1>1, <1>7, <2>5, <2>6 DEF StageOf, TargetKept
  <2>8. ToldTruly /\ Raced(r) = {}
    BY <1>6, <1>7, <2>2 DEF Raced, Overwrites
  <2>9. RequestKept(y, kv', tally')
    BY <1>1, <2>4, <2>5, <2>7, <2>8, PutGoto
  <2> QED BY <1>5, <2>2, <2>4, <2>5, <2>8, <2>9
<1>8. CASE req[r].at = "idPut"
  <2>1. /\ req' = [req EXCEPT ![r].at = "ownerGet"] /\ tally' = tally
        /\ PutOf(r).name = IdEntry(req[r].id)
    BY <1>1, <1>8, PutIs DEF PutNewKey, Goto
  <2>2. PICK y : y = [req[r] EXCEPT !.at = "ownerGet"]
    OBVIOUS
  <2>3. y \in Requesting /\ req' = [req EXCEPT ![r] = y]
    BY <1>1, <2>1, <2>2 DEF Requesting, Stages
  <2>4. /\ y.at = "ownerGet" /\ y.id = req[r].id /\ y.status = req[r].status
        /\ y.op = req[r].op
        /\ y.key = req[r].key /\ SameSight(y, req[r])
    BY <1>1, <2>2 DEF Requesting, SameSight
  <2>a. kv'[IdEntry(y.id)] = <<PutOf(r).value>>
    BY <1>2, <2>1, <2>4
  <2>b. y.id \in KeyIds /\ kv[Record(y.id)] # <<>>
    BY <1>1, <1>8, <2>4 DEF TargetKept
  <2>5. kv'[Record(y.id)] # <<>> /\ kv'[IdEntry(y.id)] # <<>> /\ y.id \in KeyIds
    BY <1>2, <2>a, <2>b DEF Forward
  <2>6. StageOf(y) /\ TargetKept(y, kv')
    BY <1>1, <1>8, <2>4, <2>5 DEF StageOf, TargetKept
  <2>7. ToldTruly /\ Raced(r) = {}
    BY <1>6, <1>8, <2>1 DEF Raced, Overwrites
  <2>8. RequestKept(y, kv', tally')
    BY <1>1, <2>3, <2>4, <2>6, <2>7, PutGoto
  <2> QED BY <1>5, <2>1, <2>3, <2>4, <2>7, <2>8
<1>9. CASE req[r].at = "ownerPut"
  <2>1. PICK raced : raced = tally.raced \cup Raced(r)
    OBVIOUS
  <2>2. PICK made : made = tally.made \cup {req[r].id}
    OBVIOUS
  <2>3. Answer(r, 201) /\ tally' = [tally EXCEPT !.raced = raced, !.made = made]
    BY <1>1, <1>9, <2>1, <2>2 DEF PutNewKey, Tallies
  <2>4. /\ req[r].id \in KeyIds /\ kv[Record(req[r].id)] # <<>> /\ kv[IdEntry(req[r].id)] # <<>>
    BY <1>1, <1>9 DEF TargetKept
  <2>5. raced \in SUBSET Names /\ made \in SUBSET KeyIds
    BY <1>1, <1>2, <2>1, <2>2, <2>4 DEF Tallies, Raced
  <2>6. /\ tally' \in Tallies /\ tally'.raced = raced /\ tally'.made = made
        /\ tally'.gone = tally.gone /\ tally'.accepted = tally.accepted
        /\ tally'.phantom = tally.phantom /\ tally'.granted = tally.granted
        /\ tally'.rows = tally.rows
    BY <1>1, <2>3, <2>5 DEF Tallies
  <2>7. ToldTruly
    BY <1>2, <2>1, <2>2, <2>4, <2>6 DEF ToldTruly, Forward
  <2>8. PICK s \in Nat : s = 201
    OBVIOUS
  <2>b. s \notin {401, 404}
    BY <2>8
  <2>9. PICK y : y = [req[r] EXCEPT !.at = "done", !.status = s, !.seen = <<>>, !.tries = 0]
    OBVIOUS
  <2>a. Answer(r, s)
    BY <2>3, <2>8
  <2>10. /\ y \in Requesting /\ RequestKept(y, kv', tally') /\ y.at = "done"
         /\ req' = [req EXCEPT ![r] = y] /\ SameSight(y, req[r])
    BY <1>1, <2>a, <2>b, <2>7, <2>9, PutAnswer
  <2> QED BY <1>5, <1>9, <2>1, <2>2, <2>6, <2>7, <2>10
<1> QED BY <1>1, <1>7, <1>8, <1>9

\* The record read is written back revoked: nothing else of it changed meanwhile.
LEMMA PutRevokedKeeps ==
  ASSUME ControlAssumption, ControlInv, NEW r \in Requests, PutRevoked(r)
  PROVE  ControlInv'
<1>1. /\ StageOf(req[r]) /\ req \in [Requests -> Requesting] /\ req[r] \in Requesting
      /\ tally \in Tallies /\ TargetKept(req[r], kv) /\ req[r].id \in KeyIds
      /\ req[r].at = "revokePut" /\ req[r].at \in Puts /\ Written(r) /\ OldMoves
      /\ Answer(r, 200) /\ tally' = [tally EXCEPT !.gone = @ \cup {req[r].id}]
  BY RequestFacts, StoredIs DEF PutRevoked, Puts, StageOf
<1>c. PutOf(r) = [name |-> Record(req[r].id), value |-> [req[r].seen[1] EXCEPT !.revoked = TRUE]]
  BY <1>1, PutIs
<1>d. Forward /\ kv'[PutOf(r).name] = <<PutOf(r).value>>
  BY <1>1, PutStores
<1>2. /\ PutOf(r).name = Record(req[r].id) /\ Forward
      /\ kv'[PutOf(r).name] = <<PutOf(r).value>>
      /\ PutOf(r).value = [req[r].seen[1] EXCEPT !.revoked = TRUE]
  BY <1>c, <1>d
<1>3. req[r].seen[1] \in KeyRecords
  BY <1>1 DEF TargetKept, Optional
<1>4. kv'[Record(req[r].id)] # <<>> /\ kv'[Record(req[r].id)][1].revoked
  BY <1>2, <1>3 DEF KeyRecords
<1>5. /\ tally' \in Tallies /\ tally'.gone = tally.gone \cup {req[r].id}
      /\ tally'.made = tally.made /\ tally'.raced = tally.raced /\ tally'.rows = tally.rows
      /\ tally'.accepted = tally.accepted /\ tally'.granted = tally.granted
      /\ tally'.phantom = tally.phantom
  BY <1>1 DEF Tallies
<1>6. ToldTruly /\ Raced(r) = {}
  BY <1>1, <1>4, <1>5 DEF ToldTruly, Raced, Overwrites
<1>7. PICK s \in Nat : s = 200
  OBVIOUS
<1>e. s \notin {401, 404} /\ req[r].at \in Puts /\ Written(r)
  BY <1>1, <1>7
<1>8. PICK y : y = [req[r] EXCEPT !.at = "done", !.status = s, !.seen = <<>>, !.tries = 0]
  OBVIOUS
<1>b. Answer(r, s)
  BY <1>1, <1>7
<1>9. /\ y \in Requesting /\ RequestKept(y, kv', tally') /\ y.at = "done"
      /\ req' = [req EXCEPT ![r] = y] /\ SameSight(y, req[r])
  BY <1>6, <1>8, <1>b, <1>e, PutAnswer
<1>10. /\ tally.granted \in [LimitedOps -> Nat] /\ tally.rows \in Nat
       /\ tally.accepted \in [KeyIds -> Nat] /\ tally.phantom \in [Names -> Nat]
       /\ \A id \in KeyIds : Bucket(id) \in Names
       /\ \A op \in LimitedOps : Counter(op) \in Names
  BY <1>1, NameFacts DEF Tallies
<1>a. tally'.rows >= tally.rows
  BY <1>5, <1>10
<1>11. RowsKept'
  BY <1>5, <1>9, <1>a, RowsStay
<1>12. \A id \in KeyIds : \A op \in LimitedOps : PutOf(r).name \notin {Bucket(id), Counter(op)}
  BY <1>1, PlainTally
<1>13. \A id \in KeyIds :
         tally'.accepted[id] + tally'.phantom[Bucket(id)] =
           tally.accepted[id] + tally.phantom[Bucket(id)]
             + (IF PutOf(r).name = Bucket(id) THEN 1 ELSE 0)
  BY <1>5, <1>10, <1>12 DEF LimitedOps
<1>14. \A op \in LimitedOps :
         /\ tally'.granted[op] + tally'.phantom[Counter(op)] =
              tally.granted[op] + tally.phantom[Counter(op)]
                + (IF PutOf(r).name = Counter(op) THEN 1 ELSE 0)
         /\ tally'.granted[op] <=
              tally.granted[op] + (IF PutOf(r).name = Counter(op) THEN 1 ELSE 0)
  BY <1>1, <1>2, <1>5, <1>10, NameFacts
<1> QED BY <1>1, <1>5, <1>6, <1>9, <1>11, <1>13, <1>14, PutMove

LEMMA PutBucketKeeps ==
  ASSUME ControlAssumption, ControlInv, NEW r \in Requests, PutBucket(r)
  PROVE  ControlInv'
<1>1. /\ StageOf(req[r]) /\ req \in [Requests -> Requesting] /\ req[r] \in Requesting
      /\ tally \in Tallies /\ req[r].at = "usagePut" /\ req[r].at \in Puts
      /\ Written(r) /\ OldMoves /\ Answer(r, 202)
  BY RequestFacts, StoredIs DEF PutBucket, Puts
<1>2. PICK key \in KeyIds : key = req[r].key /\ PutOf(r).name = Bucket(key)
  BY <1>1, PutIs
<1>3. Bucket(key) \in Names
  BY NameFacts
<1>4. PICK accepted : accepted = [tally.accepted EXCEPT ![key] = @ + 1]
  OBVIOUS
<1>5. PICK raced : raced = tally.raced \cup Raced(r)
  OBVIOUS
<1>6. tally' = [tally EXCEPT !.accepted = accepted, !.raced = raced]
  BY <1>1, <1>2, <1>4, <1>5 DEF PutBucket, Tallies
<1>7. /\ tally.granted \in [LimitedOps -> Nat] /\ tally.rows \in Nat
      /\ tally.accepted \in [KeyIds -> Nat] /\ tally.phantom \in [Names -> Nat]
      /\ \A id \in KeyIds : Bucket(id) \in Names
      /\ \A op \in LimitedOps : Counter(op) \in Names
  BY <1>1, NameFacts DEF Tallies
<1>8. accepted \in [KeyIds -> Nat] /\ raced \in SUBSET Names
  BY <1>1, <1>2, <1>3, <1>4, <1>5, <1>7 DEF Raced, Tallies
<1>9. /\ tally' \in Tallies /\ tally'.accepted = accepted /\ tally'.raced = raced
      /\ tally'.gone = tally.gone /\ tally'.made = tally.made /\ tally'.rows = tally.rows
      /\ tally'.phantom = tally.phantom /\ tally'.granted = tally.granted
  BY <1>1, <1>6, <1>8 DEF Tallies
<1>10. ToldTruly
  BY <1>5, <1>9 DEF ToldTruly
<1>11. PICK s \in Nat : s = 202
  OBVIOUS
<1>a. s \notin {401, 404} /\ req[r].at \in Puts /\ Written(r)
  BY <1>1, <1>11
<1>12. PICK y : y = [req[r] EXCEPT !.at = "done", !.status = s, !.seen = <<>>, !.tries = 0]
  OBVIOUS
<1>13. Answer(r, s)
  BY <1>1, <1>11
<1>14. /\ y \in Requesting /\ RequestKept(y, kv', tally') /\ y.at = "done"
       /\ req' = [req EXCEPT ![r] = y] /\ SameSight(y, req[r])
  BY <1>a, <1>10, <1>12, <1>13, PutAnswer
<1>15. RowsKept'
  <2>1. tally'.accepted = [tally.accepted EXCEPT ![req[r].key] = @ + 1]
    BY <1>2, <1>4, <1>9
  <2> QED BY <1>1, <1>9, <1>14, <2>1, RowsPaid
<1>16. ASSUME NEW id \in KeyIds
       PROVE  tally'.accepted[id] + tally'.phantom[Bucket(id)] =
                tally.accepted[id] + tally.phantom[Bucket(id)]
                  + (IF PutOf(r).name = Bucket(id) THEN 1 ELSE 0)
  <2>1. tally.accepted[id] \in Nat /\ tally.phantom[Bucket(id)] \in Nat
    BY <1>7
  <2>2. CASE id = key
    BY <1>2, <1>4, <1>7, <1>9, <2>1, <2>2
  <2>3. CASE id # key
    <3>1. PutOf(r).name # Bucket(id)
      BY <1>2, <2>3, NameFacts
    <3> QED BY <1>4, <1>7, <1>9, <2>1, <2>3, <3>1
  <2> QED BY <2>2, <2>3
<1>17. \A op \in LimitedOps : PutOf(r).name # Counter(op)
  BY <1>2, NameFacts
<1>18. \A op \in LimitedOps :
         /\ tally'.granted[op] + tally'.phantom[Counter(op)] =
              tally.granted[op] + tally.phantom[Counter(op)]
                + (IF PutOf(r).name = Counter(op) THEN 1 ELSE 0)
         /\ tally'.granted[op] <=
              tally.granted[op] + (IF PutOf(r).name = Counter(op) THEN 1 ELSE 0)
  BY <1>7, <1>9, <1>17
<1> QED BY <1>1, <1>5, <1>9, <1>10, <1>14, <1>15, <1>16, <1>18, PutMove

\* A get or put throws: the next attempt, or 500; the put may have been stored.
LEMMA ThrowsKeeps ==
  ASSUME ControlAssumption, ControlInv, NEW r \in Requests, Throws(r)
  PROVE  ControlInv'
<1>1. /\ StageOf(req[r]) /\ BearerKept(req[r], kv, tally) /\ req \in [Requests -> Requesting]
      /\ req[r] \in Requesting /\ tally \in Tallies /\ RequestKept(req[r], kv, tally)
      /\ req[r].at \notin {"idle", "done"} /\ WideKept(req[r])
  BY RequestFacts DEF Throws
<1>2. PICK s \in Nat : s = 500
  OBVIOUS
<1>a. s \notin {401, 404}
  BY <1>2
<1>3. PICK y : y = [req[r] EXCEPT !.at = "usage", !.tries = @ + 1]
  OBVIOUS
<1>4. /\ y \in Requesting /\ y.at = "usage" /\ y.status = req[r].status /\ y.op = req[r].op
      /\ y.key = req[r].key /\ SameSight(y, req[r])
      /\ y.id = req[r].id
  <2>1. PICK t : t = req[r].tries + 1
    OBVIOUS
  <2>2. t \in Int
    BY <1>1, <2>1 DEF Requesting
  <2>3. y = [req[r] EXCEPT !.at = "usage", !.tries = t]
    BY <1>3, <2>1
  <2> QED BY <1>1, <2>2, <2>3 DEF Requesting, Stages, SameSight
<1>5. ASSUME req[r].at \in {"usage", "usagePut"}
      PROVE  StageOf(y) /\ \A store : TargetKept(y, store)
  BY <1>1, <1>4, <1>5 DEF StageOf, TargetKept
<1>6. \/ req[r].at \in {"usage", "usagePut"} /\ req' = [req EXCEPT ![r] = y]
      \/ Answer(r, s)
  BY <1>1, <1>2, <1>3 DEF Throws, Requesting
<1>7. CASE UNCHANGED <<kv, old, tally>>
  <2>1. CASE Answer(r, s)
    BY <1>1, <1>2, <1>7, <2>1, QuietAnswer DEF MayTell
  <2>2. CASE req[r].at \in {"usage", "usagePut"} /\ req' = [req EXCEPT ![r] = y]
    <3>1. Passed(req[r])
      BY <2>2 DEF Passed
    <3>2. RequestKept(y, kv, tally)
      BY <1>1, <1>4, <1>5, <2>2, <3>1, GoKept
    <3>3. WideKept(y)
      BY <1>1, <1>4 DEF WideKept, SameSight
    <3> QED BY <1>4, <1>7, <2>2, <3>2, <3>3, QuietMove
  <2> QED BY <1>6, <2>1, <2>2
<1>8. CASE /\ req[r].at \in Puts /\ Written(r) /\ Lags(r)
           /\ tally' = [tally EXCEPT !.phantom[PutOf(r).name] = @ + 1, !.raced = @ \cup Raced(r)]
  <2>1. PICK n : n = PutOf(r).name
    OBVIOUS
  <2>2. n \in Names
    BY <1>8, <2>1, PutStores
  <2>3. PICK phantom : phantom = [tally.phantom EXCEPT ![n] = @ + 1]
    OBVIOUS
  <2>4. PICK raced : raced = tally.raced \cup Raced(r)
    OBVIOUS
  <2>5. tally' = [tally EXCEPT !.phantom = phantom, !.raced = raced]
    BY <1>1, <1>8, <2>1, <2>3, <2>4 DEF Tallies
  <2>6. /\ tally.granted \in [LimitedOps -> Nat] /\ tally.rows \in Nat
        /\ tally.accepted \in [KeyIds -> Nat] /\ tally.phantom \in [Names -> Nat]
        /\ \A id \in KeyIds : Bucket(id) \in Names
        /\ \A op \in LimitedOps : Counter(op) \in Names
    BY <1>1, NameFacts DEF Tallies
  <2>7. phantom \in [Names -> Nat] /\ raced \in SUBSET Names
    BY <1>1, <2>1, <2>2, <2>3, <2>4, <2>6 DEF Raced, Tallies
  <2>8. /\ tally' \in Tallies /\ tally'.phantom = phantom /\ tally'.raced = raced
        /\ tally'.gone = tally.gone /\ tally'.made = tally.made /\ tally'.rows = tally.rows
        /\ tally'.accepted = tally.accepted /\ tally'.granted = tally.granted
    BY <1>1, <2>5, <2>7 DEF Tallies
  <2>9. ToldTruly
    BY <2>4, <2>8 DEF ToldTruly
  <2>10. \A m \in Names : phantom[m] = tally.phantom[m] + (IF n = m THEN 1 ELSE 0)
    BY <2>2, <2>3, <2>6
  <2>11. \A id \in KeyIds :
           tally'.accepted[id] + tally'.phantom[Bucket(id)] =
             tally.accepted[id] + tally.phantom[Bucket(id)]
               + (IF PutOf(r).name = Bucket(id) THEN 1 ELSE 0)
    BY <2>1, <2>6, <2>8, <2>10
  <2>12. \A op \in LimitedOps :
           /\ tally'.granted[op] + tally'.phantom[Counter(op)] =
                tally.granted[op] + tally.phantom[Counter(op)]
                  + (IF PutOf(r).name = Counter(op) THEN 1 ELSE 0)
           /\ tally'.granted[op] <=
                tally.granted[op] + (IF PutOf(r).name = Counter(op) THEN 1 ELSE 0)
    BY <2>1, <2>6, <2>8, <2>10
  <2>13. tally'.rows >= tally.rows
    BY <2>6, <2>8
  <2>14. ASSUME NEW x \in Requesting, req' = [req EXCEPT ![r] = x],
                RequestKept(x, kv', tally'), SameSight(x, req[r]),
                x.at \in {"usage", "usagePut"} =>
                  req[r].at \in {"usage", "usagePut"} /\ x.key = req[r].key
         PROVE  ControlInv'
    <3>1. RowsKept'
      BY <2>8, <2>13, <2>14, RowsStay
    <3>2. OldMoves
      BY <1>8, PutsLeave
    <3> QED BY <1>8, <2>4, <2>8, <2>9, <2>11, <2>12, <2>14, <3>1, <3>2, PutMove
  <2>15. CASE Answer(r, s)
    <3>1. PICK z : z = [req[r] EXCEPT !.at = "done", !.status = s, !.seen = <<>>, !.tries = 0]
      OBVIOUS
    <3>2. /\ z \in Requesting /\ RequestKept(z, kv', tally') /\ z.at = "done"
          /\ req' = [req EXCEPT ![r] = z] /\ SameSight(z, req[r])
      BY <1>a, <1>8, <2>9, <2>15, <3>1, PutAnswer
    <3> QED BY <2>14, <3>2
  <2>16. CASE req[r].at \in {"usage", "usagePut"} /\ req' = [req EXCEPT ![r] = y]
    <3>1. RequestKept(y, kv', tally')
      BY <1>4, <1>5, <1>8, <2>9, <2>16, PutGoto
    <3> QED BY <1>4, <2>14, <2>16, <3>1
  <2> QED BY <1>6, <2>15, <2>16
<1> QED BY <1>7, <1>8 DEF Throws

LEMMA ControlInitInv ==
  ASSUME ControlAssumption, CPInit
  PROVE  ControlInv
<1>1. FirstKey \in KeyIds /\ NoKey \notin KeyIds /\ IsFiniteSet(Requests) /\ Limit \in Nat
  BY DEF ControlAssumption
<1>2. PICK first : first = [owner |-> FirstKey, revoked |-> FALSE]
  OBVIOUS
<1>3. first \in KeyRecords
  BY <1>1, <1>2 DEF KeyRecords
<1>4. \A S : <<>> \in Optional(S) /\ \A v \in S : <<v>> \in Optional(S)
  BY DEF Optional
<1>5. {FirstKey} \in SUBSET KeyIds
  BY <1>1
<1>6. <<first>> \in AnyValue /\ <<FirstKey>> \in AnyValue /\ <<{FirstKey}>> \in AnyValue
      /\ <<>> \in AnyValue
  <2>1. <<first>> \in Optional(KeyRecords) /\ <<FirstKey>> \in Optional(KeyIds)
        /\ <<{FirstKey}>> \in Optional(SUBSET KeyIds) /\ <<>> \in Optional(KeyIds)
    BY <1>1, <1>3, <1>4, <1>5
  <2> QED BY <2>1 DEF AnyValue
<1>7. Record(FirstKey) # IdEntry(FirstKey) /\ Record(FirstKey) # Owner(FirstKey)
      /\ IdEntry(FirstKey) # Owner(FirstKey)
  BY <1>1, NameFacts
<1>8. \A n \in Names :
        /\ n = Record(FirstKey) => kv[n] = <<first>>
        /\ n = IdEntry(FirstKey) => kv[n] = <<FirstKey>>
        /\ n = Owner(FirstKey) => kv[n] = <<{FirstKey}>>
        /\ n \notin {Record(FirstKey), IdEntry(FirstKey), Owner(FirstKey)} => kv[n] = <<>>
  BY <1>2, <1>7 DEF CPInit
<1>9. kv = [n \in Names |-> kv[n]]
  BY DEF CPInit
<1>10. kv \in [Names -> AnyValue]
  BY <1>6, <1>8, <1>9
<1>11. /\ kv[Record(FirstKey)] = <<first>> /\ kv[IdEntry(FirstKey)] = <<FirstKey>>
       /\ kv[Owner(FirstKey)] = <<{FirstKey}>>
  BY <1>1, <1>8, NameFacts
<1>12. \A id \in KeyIds :
         /\ id # FirstKey => /\ kv[Record(id)] = <<>> /\ kv[IdEntry(id)] = <<>>
                             /\ kv[Owner(id)] = <<>>
         /\ kv[Bucket(id)] = <<>>
  <2> SUFFICES ASSUME NEW id \in KeyIds
               PROVE  /\ id # FirstKey => /\ kv[Record(id)] = <<>> /\ kv[IdEntry(id)] = <<>>
                                          /\ kv[Owner(id)] = <<>>
                      /\ kv[Bucket(id)] = <<>>
    OBVIOUS
  <2>1. Bucket(id) \in Names /\ Bucket(id) \notin {Record(FirstKey), IdEntry(FirstKey), Owner(FirstKey)}
    BY <1>1, NameFacts
  <2>2. ASSUME id # FirstKey, NEW n \in {Record(id), IdEntry(id), Owner(id)}
        PROVE  n \in Names /\ n \notin {Record(FirstKey), IdEntry(FirstKey), Owner(FirstKey)}
    BY <1>1, <2>2, NameFacts
  <2> QED BY <1>8, <2>1, <2>2
<1>13. \A op \in LimitedOps : kv[Counter(op)] = <<>>
  <2> SUFFICES ASSUME NEW op \in LimitedOps PROVE kv[Counter(op)] = <<>>
    OBVIOUS
  <2>1. Counter(op) \in Names
        /\ Counter(op) \notin {Record(FirstKey), IdEntry(FirstKey), Owner(FirstKey)}
    BY <1>1, NameFacts
  <2> QED BY <1>8, <2>1
<1>14. StoreTyped(kv)
  <2>1. <<first>> \in Optional(KeyRecords) /\ <<FirstKey>> \in Optional(KeyIds)
        /\ <<{FirstKey}>> \in Optional(SUBSET KeyIds)
    BY <1>1, <1>3, <1>4, <1>5
  <2> QED BY <1>4, <1>10, <1>11, <1>12, <1>13, <2>1 DEF StoreTyped
<1>15. Idle \in Requesting
  BY <1>6 DEF Idle, Requesting, Stages
<1>16. tally \in Tallies
  BY <1>1 DEF CPInit, Tallies, LimitedOps
<1>17. ControlTypes
  BY <1>14, <1>15, <1>16 DEF CPInit, ControlTypes
<1>18. KeysKept
  <2>1. kv[Record(FirstKey)] # <<>> /\ kv[IdEntry(FirstKey)] # <<>>
    BY <1>11
  <2> QED BY <2>1 DEF CPInit, KeysKept
<1>19. ListsKept
  <2> SUFFICES ASSUME NEW o \in KeyIds, kv[Record(FirstKey)][1].owner = o
               PROVE  FirstKey \in Or(kv[Owner(o)], {})
    BY DEF ListsKept, CPInit
  <2>1. o = FirstKey
    BY <1>2, <1>11
  <2> QED BY <1>11, <2>1 DEF Or
<1>20. CountsKept
  <2>1. ASSUME NEW id \in KeyIds
        PROVE  Or(kv[Bucket(id)], 0) = tally.accepted[id] + tally.phantom[Bucket(id)]
    <3>1. Or(kv[Bucket(id)], 0) = 0
      BY <1>12 DEF Or
    <3>2. tally.accepted[id] = 0 /\ tally.phantom[Bucket(id)] = 0
      BY NameFacts DEF CPInit
    <3> QED BY <3>1, <3>2
  <2>2. ASSUME NEW op \in LimitedOps
        PROVE  /\ Or(kv[Counter(op)], 0) = tally.granted[op] + tally.phantom[Counter(op)]
               /\ tally.granted[op] <= Limit
    <3>1. Or(kv[Counter(op)], 0) = 0
      BY <1>13 DEF Or
    <3>2. tally.granted[op] = 0 /\ tally.phantom[Counter(op)] = 0
      BY NameFacts DEF CPInit, LimitedOps
    <3> QED BY <1>1, <3>1, <3>2
  <2> QED BY <2>1, <2>2 DEF CountsKept
<1>21. RowsKept
  <2> SUFFICES ASSUME NEW id \in KeyIds
               PROVE  tally.accepted[id] + Cardinality(InUsage(id)) <= tally.rows
    BY DEF RowsKept
  <2>1. InUsage(id) = {}
    BY DEF InUsage, CPInit, Idle
  <2>2. tally.accepted[id] = 0 /\ tally.rows = 0
    BY DEF CPInit
  <2> QED BY <2>1, <2>2, FS_EmptySet
<1>22. RequestKept(Idle, kv, tally)
  BY <1>1 DEF RequestKept, Idle, StageOf, BearerKept, Passed, TargetKept, KnownKept, MayTell,
              ListKept, AllOps, LimitedOps
<1>23. WideKept(Idle)
  BY DEF WideKept, Idle
<1>24. OldKept
  BY NameFacts DEF CPInit, OldKept
<1> QED BY <1>17, <1>18, <1>19, <1>20, <1>21, <1>22, <1>23, <1>24 DEF CPInit, ControlInv

\* A put reaches a location: fewer old values, and nothing else.
LEMMA ArriveKeeps ==
  ASSUME ControlInv, UNCHANGED <<kv, req, tally>>, OldMoves
  PROVE  ControlInv'
<1>1. ControlTypes' /\ KeysKept' /\ ListsKept' /\ CountsKept' /\ RowsKept'
  BY DEF ControlInv, ControlTypes, KeysKept, ListsKept, CountsKept, RowsKept, InUsage
<1>2. Forward /\ ToldTruly /\ ListsGrow /\ StoreTyped(kv')
  BY DEF ControlInv, ControlTypes, Forward, ToldTruly, ListsGrow
<1>3. OldKept'
  BY <1>2, OldStays
<1>4. ASSUME NEW q \in Requests
      PROVE  (RequestKept(req[q], kv, tally) /\ WideKept(req[q]))'
  <2>1. PICK z : z = req[q]
    OBVIOUS
  <2>2. RequestKept(z, kv, tally) /\ SameSight(z, req[q])
    BY <2>1 DEF ControlInv, SameSight
  <2>3. WideKept(z)'
    BY <1>2, <2>2, WideStays
  <2> QED BY <2>1, <2>2, <2>3 DEF WideKept, GoneWide, MadeWide, Gets
<1> QED BY <1>1, <1>3, <1>4 DEF ControlInv

LEMMA ControlStepKeeps ==
  ASSUME ControlAssumption, ControlInv, [CPNext]_cpVars
  PROVE  ControlInv'
<1>1. CASE CPNext
  <2>1. ASSUME NEW r \in Requests, Step(r)
        PROVE  ControlInv'
    BY <2>1, StartKeeps, AuthenticateKeeps, CheckLimitKeeps, ReadOwnerListKeeps,
       FindTargetKeeps, ReadTargetKeeps, ReadOwnerKeysKeeps, ReadBucketKeeps,
       PutLimitKeeps, PutNewKeyKeeps, PutRevokedKeeps, PutBucketKeeps, ThrowsKeeps DEF Step
  <2>2. ASSUME NEW name \in Names, Arrive(name)
        PROVE  ControlInv'
    <3>1. PICK value \in old[name] : old' = [old EXCEPT ![name] = @ \ {value}]
      BY <2>2 DEF Arrive
    <3>2. OldMoves
      BY <3>1 DEF ControlInv, OldKept, OldMoves
    <3> QED BY <2>2, <3>2, ArriveKeeps DEF Arrive
  <2> QED BY <1>1, <2>1, <2>2 DEF CPNext
<1>2. CASE UNCHANGED cpVars
  <2>1. OldMoves
    BY <1>2 DEF cpVars, ControlInv, OldKept, OldMoves
  <2> QED BY <1>2, <2>1, ArriveKeeps DEF cpVars
<1> QED BY <1>1, <1>2

LEMMA ControlInvSound ==
  ASSUME ControlAssumption, ControlInv
  PROVE  KeysAreSound /\ CountersCount
<1>1. tally \in Tallies /\ KeysKept /\ CountsKept /\ RowsKept
  BY DEF ControlInv, ControlTypes
<1>2. ASSUME NEW r \in Requests
      PROVE  /\ BearerKept(req[r], kv, tally) /\ ListKept(req[r], kv, tally)
             /\ StageOf(req[r]) /\ KnownKept(req[r], kv)
  BY RequestFacts DEF RequestKept
<1>3. RevokedIsRefused
  BY <1>1, <1>2 DEF RevokedIsRefused, BearerKept, KeysKept, Or
<1>4. KeysAreListed
  <2>1. \A id \in tally.made : OwnerOf(id) = kv[Record(id)][1].owner
    BY <1>1 DEF KeysKept, OwnerOf, Or
  <2>2. ASSUME NEW r \in Requests, req[r].key \in req[r].made
        PROVE  LET me    == req[r]
                   mates == {id \in me.made : OwnerOf(id) = OwnerOf(me.key)}
               IN  /\ me.status # 401
                   /\ me.id \in mates => me.status # 404
                   /\ me.status = 200 /\ me.op = "list" =>
                        /\ me.key \in me.out
                        /\ Owner(OwnerOf(me.key)) \notin tally.raced => mates \subseteq me.out
    <3>1. \A id \in req[r].made : OwnerOf(id) = kv[Record(id)][1].owner
      BY <1>2, <2>1 DEF BearerKept
    <3> QED BY <1>2, <2>2, <3>1 DEF ListKept, KnownKept, MayTell, SameOwner
  <2> QED BY <1>1, <2>2 DEF KeysAreListed, KeysKept
<1>5. CountersCount
  <2>1. DOMAIN tally.granted = LimitedOps
    BY <1>1 DEF Tallies
  <2>2. ASSUME NEW id \in KeyIds
        PROVE  tally.accepted[id] <= tally.rows
    <3>1. IsFiniteSet(InUsage(id))
      BY FS_Subset DEF InUsage, ControlAssumption
    <3>2. Cardinality(InUsage(id)) \in Nat
      BY <3>1, FS_CardinalityType
    <3> QED BY <1>1, <3>2 DEF RowsKept, Tallies
  <2> QED BY <1>1, <2>1, <2>2 DEF CountersCount, CountsKept
<1> QED BY <1>3, <1>4, <1>5 DEF KeysAreSound

LEMMA ControlSpecInv == CPSpec => []ControlInv
<1>1. CPInit => ControlInv
  BY ControlAssumption, ControlInitInv
<1>2. ControlInv /\ [CPNext]_cpVars => ControlInv'
  BY ControlAssumption, ControlStepKeeps
<1> QED BY <1>1, <1>2, PTL DEF CPSpec

\* For any number of keys and of requests whose gets and puts interleave in any
\* order, any of them throwing, any put arriving late at some location: a request
\* that comes in once its key's revocation has reached every location is refused,
\* and nothing under way, from however old a copy, brings the key back; a key
\* handed out stays in the store, is known where it has arrived and is listed
\* there unless two puts of its owner's list raced (keys.ts, auth.ts).
THEOREM KeysStaySound == CPSpec => []KeysAreSound
<1>1. ControlInv => KeysAreSound
  BY ControlAssumption, ControlInvSound
<1> QED BY <1>1, ControlSpecInv, PTL

\* Under the same: a bucket that was not raced counts its key's reports, with
\* the puts that seemed to fail; an unraced limit lets no more than it says
\* through; and every accepted report has its row (metering.ts, telemetry.ts).
THEOREM CountersStayTrue == CPSpec => []CountersCount
<1>1. ControlInv => CountersCount
  BY ControlAssumption, ControlInvSound
<1> QED BY <1>1, ControlSpecInv, PTL


(***************************************************************************)
(* SharedRuns                                                              *)
(***************************************************************************)

Places == {"idle", "tokenizer", "acquire", "plan", "load", "forward", "read", "ended"}
Early == {"idle", "tokenizer", "acquire", "plan"}

RunTypes ==
  /\ at \in [SharedRunIds -> Places]
  /\ wants \in [SharedRunIds -> RuntimeKeys \cup {"server"}]
  /\ using \in [SharedRunIds -> SharedRunIds \cup {0}]
  /\ step \in [SharedRunIds -> Nat]
  /\ runtimes \in [SharedRunIds -> {"none", "loading", "loaded", "destroyed"}]
  /\ kept \in [RuntimeKeys -> SharedRunIds \cup {0}]
  /\ rows \in [SharedRunIds -> Seq(SharedRunIds)]

\* Where a run is, what it has of a runtime, and what has become of its own.
PlaceKept(r) ==
  /\ at[r] \in Early => wants[r] = "server" /\ runtimes[r] = "none"
  /\ at[r] = "load" <=> runtimes[r] = "loading"
  /\ runtimes[r] # "none" => wants[r] \in RuntimeKeys
  /\ using[r] # 0 <=> at[r] \in {"forward", "read"}
  /\ using[r] # 0 => /\ wants[r] \in RuntimeKeys /\ wants[using[r]] = wants[r]
                     /\ runtimes[using[r]] \in {"loaded", "destroyed"}
  /\ step[r] > 0 => using[r] # 0
  /\ at[r] = "read" => step[r] > 0

\* Runs under way at once have met.
PairsMet == \A r, q \in UnderWay : r # q => Met(r, q)

\* A kept runtime came while the runs that load another were under way, and so
\* did any two of the kept.
KeptMet ==
  /\ \A u, v \in KeptOnes : u # v => Met(u, v)
  /\ \A u \in KeptOnes, r \in SharedRunIds : at[r] = "load" => Met(r, u)

DeviceMet ==
  \A r \in SharedRunIds : at[r] = "acquire" /\ device => \E q \in SharedRunIds : Met(r, q)

\* Another of r's own key, or of another key, that r met.
HasTwin(r) == \E q \in SharedRunIds \ {r} : Met(r, q) /\ wants[q] = wants[r]
HasRival(r) == \E q \in SharedRunIds : Met(r, q) /\ wants[q] \notin {"server", wants[r]}

OnlyOf(s, r) == s # <<>> /\ \A i \in DOMAIN s : s[i] = r

LossKept(r) ==
  using[r] # 0 =>
    /\ runtimes[using[r]] = "destroyed" => HasRival(r)
    /\ step[r] > 0 => OnlyOf(rows[using[r]], r) \/ HasTwin(r)

TwinsKept == \A u \in SharedRunIds : runtimes[u] = "loaded" /\ u \notin KeptOnes => HasTwin(u)

\* A run that waits for the tokenizer has asked for it.
TokenizerAsked ==
  /\ tokenizer \in {"none", "pending", "ok", "failed"}
  /\ \A r \in SharedRunIds : at[r] = "tokenizer" => tokenizer # "none"

RunsInv ==
  /\ RunTypes /\ KeptAreLoaded /\ PairsMet /\ KeptMet /\ DeviceMet /\ TwinsKept
  /\ \A r \in SharedRunIds : PlaceKept(r) /\ LossKept(r)

LEMMA RunsInitInv ==
  ASSUME SharedRunsAssumption, SRInit
  PROVE  RunsInv
<1>1. 0 \notin SharedRunIds /\ UnderWay = {} /\ KeptOnes = {}
  BY DEF SharedRunsAssumption, SRInit, UnderWay, KeptOnes
<1>2. <<>> \in Seq(SharedRunIds)
  OBVIOUS
<1>3. RunTypes
  BY <1>2 DEF SRInit, RunTypes, Places
<1>4. KeptAreLoaded /\ PairsMet /\ KeptMet /\ DeviceMet /\ TwinsKept
  BY <1>1 DEF SRInit, KeptAreLoaded, PairsMet, KeptMet, DeviceMet, TwinsKept
<1>5. \A r \in SharedRunIds : PlaceKept(r) /\ LossKept(r)
  BY DEF SRInit, PlaceKept, LossKept, Early
<1> QED BY <1>3, <1>4, <1>5 DEF RunsInv

\* Twins and rivals stay: a run's key is chosen once, and who met has met.
LEMMA MetStays ==
  ASSUME RunTypes, met \subseteq met', wants' \in [SharedRunIds -> RuntimeKeys \cup {"server"}],
         \A q \in SharedRunIds : wants[q] \in RuntimeKeys => wants'[q] = wants[q],
         NEW r \in SharedRunIds, wants[r] \in RuntimeKeys, SharedRunsAssumption
  PROVE  (HasTwin(r) => HasTwin(r)') /\ (HasRival(r) => HasRival(r)')
<1>1. \A q \in SharedRunIds : wants[q] \notin {"server", wants[r]} => wants[q] \in RuntimeKeys
  BY DEF RunTypes
<1>2. \A q \in SharedRunIds : Met(r, q) => Met(r, q)'
  BY DEF Met
<1>3. HasTwin(r) => HasTwin(r)'
  BY <1>2 DEF HasTwin
<1>4. HasRival(r) => HasRival(r)'
  BY <1>1, <1>2, SharedRunsAssumption DEF HasRival, SharedRunsAssumption
<1> QED BY <1>3, <1>4

\* What a run's step changes of the run itself.
LEMMA GoesFacts ==
  ASSUME RunTypes, NEW r \in SharedRunIds, NEW a \in Places, Goes(r, a)
  PROVE  /\ at' \in [SharedRunIds -> Places]
         /\ using' \in [SharedRunIds -> SharedRunIds \cup {0}]
         /\ step' \in [SharedRunIds -> Nat]
         /\ at'[r] = a
         /\ using'[r] = (IF a = "ended" THEN 0 ELSE using[r])
         /\ step'[r] = (IF a = "ended" THEN 0 ELSE step[r])
         /\ \A q \in SharedRunIds \ {r} :
              at'[q] = at[q] /\ using'[q] = using[q] /\ step'[q] = step[q]
BY DEF Goes, RunTypes

\* A run's step that leaves the runtimes alone.
LEMMA QuietRun ==
  ASSUME SharedRunsAssumption, RunsInv, NEW r \in SharedRunIds,
         NEW a \in {"acquire", "plan", "forward", "ended"}, Goes(r, a),
         at[r] \notin {"idle", "ended", "load"},
         a \in Early => at[r] \in Early, a = "forward" => at[r] = "read",
         a = "acquire" => ~device', device' => device \/ (at[r] = "acquire" /\ a = "plan"),
         UNCHANGED <<wants, runtimes, kept, rows, met>>
  PROVE  RunsInv'
<1>1. RunTypes /\ KeptAreLoaded /\ PairsMet /\ KeptMet /\ DeviceMet /\ TwinsKept
  BY DEF RunsInv
<1>2. /\ at' \in [SharedRunIds -> Places]
      /\ using' \in [SharedRunIds -> SharedRunIds \cup {0}]
      /\ step' \in [SharedRunIds -> Nat]
      /\ at'[r] = a
      /\ using'[r] = (IF a = "ended" THEN 0 ELSE using[r])
      /\ step'[r] = (IF a = "ended" THEN 0 ELSE step[r])
      /\ \A q \in SharedRunIds \ {r} :
           at'[q] = at[q] /\ using'[q] = using[q] /\ step'[q] = step[q]
  BY <1>1, GoesFacts DEF Places
<1>3. RunTypes'
  BY <1>1, <1>2 DEF RunTypes
<1>4. KeptAreLoaded' /\ TwinsKept'
  <2>1. wants' = wants /\ runtimes' = runtimes /\ kept' = kept /\ met' = met
    OBVIOUS
  <2>2. KeptOnes' = KeptOnes
    BY <2>1 DEF KeptOnes
  <2>3. ASSUME NEW u \in SharedRunIds
        PROVE  HasTwin(u)' <=> HasTwin(u)
    BY <2>1 DEF HasTwin, Met
  <2>4. KeptAreLoaded'
    BY <1>1, <2>1 DEF KeptAreLoaded
  <2>5. TwinsKept'
    BY <1>1, <2>1, <2>2, <2>3 DEF TwinsKept
  <2> QED BY <2>4, <2>5
<1>5. UnderWay' \subseteq UnderWay
  BY <1>1, <1>2 DEF UnderWay, RunTypes
<1>6. PairsMet'
  BY <1>1, <1>5 DEF PairsMet, Met
<1>7. KeptMet'
  BY <1>1, <1>2 DEF KeptMet, KeptOnes, Met
<1>8. DeviceMet'
  <2> SUFFICES ASSUME NEW q \in SharedRunIds, at'[q] = "acquire", device'
               PROVE  \E p \in SharedRunIds : Met(q, p)
    BY DEF DeviceMet, Met
  <2>1. q # r /\ at[q] = "acquire"
    BY <1>2
  <2>2. CASE device
    BY <1>1, <2>1, <2>2 DEF DeviceMet
  <2>3. CASE at[r] = "acquire"
    <3>1. {q, r} \subseteq UnderWay
      BY <2>1, <2>3 DEF UnderWay
    <3> QED BY <1>1, <2>1, <3>1 DEF PairsMet
  <2> QED BY <2>2, <2>3
<1>9. ASSUME NEW q \in SharedRunIds
      PROVE  PlaceKept(q)' /\ LossKept(q)'
  <2>1. PlaceKept(q) /\ LossKept(q)
    BY DEF RunsInv
  <2>2. CASE q = r
    <3>1. PlaceKept(q)'
      BY <1>2, <2>1, <2>2 DEF PlaceKept, Early
    <3>2. LossKept(q)'
      BY <1>2, <2>1, <2>2 DEF LossKept, HasTwin, HasRival, Met
    <3> QED BY <3>1, <3>2
  <2>3. CASE q # r
    <3>1. at'[q] = at[q] /\ using'[q] = using[q] /\ step'[q] = step[q]
      BY <1>2, <2>3
    <3>2. PlaceKept(q)'
      BY <2>1, <3>1 DEF PlaceKept
    <3>3. LossKept(q)'
      BY <2>1, <3>1 DEF LossKept, HasTwin, HasRival, Met
    <3> QED BY <3>2, <3>3
  <2> QED BY <2>2, <2>3
<1> QED BY <1>3, <1>4, <1>6, <1>7, <1>8, <1>9 DEF RunsInv

LEMMA StartRunKeeps ==
  ASSUME SharedRunsAssumption, RunsInv, NEW r \in SharedRunIds, StartRun(r)
  PROVE  RunsInv'
<1>1. /\ RunTypes /\ KeptAreLoaded /\ PairsMet /\ KeptMet /\ DeviceMet /\ TwinsKept
      /\ at[r] = "idle" /\ Goes(r, "tokenizer") /\ met' = met \cup {{r, q} : q \in UnderWay}
      /\ wants' = wants /\ device' = device /\ runtimes' = runtimes /\ kept' = kept
      /\ rows' = rows
  BY DEF RunsInv, StartRun
<1>2. /\ at' \in [SharedRunIds -> Places]
      /\ using' \in [SharedRunIds -> SharedRunIds \cup {0}]
      /\ step' \in [SharedRunIds -> Nat]
      /\ at'[r] = "tokenizer" /\ using'[r] = using[r] /\ step'[r] = step[r]
      /\ \A q \in SharedRunIds \ {r} :
           at'[q] = at[q] /\ using'[q] = using[q] /\ step'[q] = step[q]
  BY <1>1, GoesFacts DEF Places
<1>3. RunTypes'
  BY <1>1, <1>2 DEF RunTypes
<1>4. met \subseteq met' /\ \A q, p \in SharedRunIds : Met(q, p) => Met(q, p)'
  BY <1>1 DEF Met
<1>5. KeptAreLoaded'
  BY <1>1 DEF KeptAreLoaded
<1>6. PairsMet'
  <2> SUFFICES ASSUME NEW q \in UnderWay', NEW p \in UnderWay', q # p
               PROVE  Met(q, p)'
    BY DEF PairsMet
  <2>1. q \in SharedRunIds /\ p \in SharedRunIds /\ (q # r => q \in UnderWay)
        /\ (p # r => p \in UnderWay)
    BY <1>2 DEF UnderWay
  <2>2. CASE q # r /\ p # r
    BY <1>1, <1>4, <2>1, <2>2 DEF PairsMet
  <2>3. CASE q = r
    BY <1>1, <2>1, <2>3 DEF Met
  <2>4. CASE p = r
    <3>1. {p, q} = {q, p} /\ {p, q} \in met'
      BY <1>1, <2>1, <2>4
    <3> QED BY <3>1 DEF Met
  <2> QED BY <2>2, <2>3, <2>4
<1>7. KeptMet'
  <2>1. KeptOnes' = KeptOnes /\ KeptOnes \subseteq SharedRunIds
    BY <1>1 DEF KeptOnes, RunTypes
  <2> QED BY <1>1, <1>2, <1>4, <2>1 DEF KeptMet
<1>8. DeviceMet'
  BY <1>1, <1>2, <1>4 DEF DeviceMet
<1>9. ASSUME NEW q \in SharedRunIds, wants[q] \in RuntimeKeys
      PROVE  (HasTwin(q) => HasTwin(q)') /\ (HasRival(q) => HasRival(q)')
  BY <1>1, <1>3, <1>4, <1>9, MetStays DEF RunTypes
<1>10. TwinsKept'
  <2>1. \A u \in SharedRunIds : runtimes[u] = "loaded" => wants[u] \in RuntimeKeys
    BY DEF RunsInv, PlaceKept
  <2>2. KeptOnes' = KeptOnes
    BY <1>1 DEF KeptOnes
  <2> QED BY <1>1, <1>9, <2>1, <2>2 DEF TwinsKept
<1>11. ASSUME NEW q \in SharedRunIds
       PROVE  PlaceKept(q)' /\ LossKept(q)'
  <2>1. PlaceKept(q) /\ LossKept(q)
    BY DEF RunsInv
  <2>2. PlaceKept(q)'
    BY <1>1, <1>2, <2>1 DEF PlaceKept, Early
  <2>3. using'[q] = using[q] /\ step'[q] = step[q]
    BY <1>2
  <2>4. LossKept(q)'
    BY <1>1, <1>9, <2>1, <2>3 DEF LossKept, PlaceKept
  <2> QED BY <2>2, <2>4
<1> QED BY <1>3, <1>5, <1>6, <1>7, <1>8, <1>10, <1>11 DEF RunsInv

LEMMA QuietSteps ==
  ASSUME SharedRunsAssumption, RunsInv, TokenizerAsked, NEW r \in SharedRunIds,
         EncodePrompt(r) \/ AcquireDevice(r) \/ RunFails(r) \/ ReadOut(r)
         \/ (at[r] \in {"plan", "forward"} /\ Goes(r, "ended")
             /\ UNCHANGED <<wants, device, runtimes, kept, rows, met>>)
  PROVE  RunsInv'
<1>1. CASE EncodePrompt(r)
  <2>1. \E a \in {"ended", "plan", "acquire"} : Goes(r, a) /\ (a = "acquire" => ~device)
    <3>1. CASE tokenizer = "failed"
      BY <1>1, <3>1 DEF EncodePrompt
    <3>2. CASE tokenizer = "ok" /\ device
      BY <1>1, <3>2 DEF EncodePrompt
    <3>3. CASE tokenizer = "ok" /\ ~device
      BY <1>1, <3>3 DEF EncodePrompt
    <3> QED BY <1>1, <3>1, <3>2, <3>3 DEF EncodePrompt, TokenizerAsked
  <2> QED BY <1>1, <2>1, QuietRun DEF EncodePrompt, Early
<1>2. CASE AcquireDevice(r)
  BY <1>2, QuietRun DEF AcquireDevice, Early
<1>3. CASE RunFails(r)
  BY <1>3, QuietRun DEF RunFails, Early
<1>4. CASE ReadOut(r)
  BY <1>4, QuietRun DEF ReadOut, Early
<1>5. CASE /\ at[r] \in {"plan", "forward"} /\ Goes(r, "ended")
           /\ UNCHANGED <<wants, device, runtimes, kept, rows, met>>
  BY <1>5, QuietRun DEF Early
<1> QED BY <1>1, <1>2, <1>3, <1>4, <1>5

LEMMA StartsFacts ==
  ASSUME RunTypes, NEW r \in SharedRunIds, NEW u \in SharedRunIds, NEW a \in Places, Starts(r, u, a)
  PROVE  /\ at' \in [SharedRunIds -> Places]
         /\ using' \in [SharedRunIds -> SharedRunIds \cup {0}]
         /\ step' = step /\ at'[r] = a /\ using'[r] = u
         /\ \A q \in SharedRunIds \ {r} : at'[q] = at[q] /\ using'[q] = using[q]
BY DEF Starts, RunTypes

\* The plan's runtime is kept: it is loaded, for the run's key, and no one's else.
LEMMA UseKeptKeeps ==
  ASSUME SharedRunsAssumption, RunsInv, NEW r \in SharedRunIds, at[r] = "plan",
         NEW key \in RuntimeKeys, wants' = [wants EXCEPT ![r] = key], kept[key] # 0,
         Starts(r, kept[key], "forward"), UNCHANGED <<runtimes, kept, device, rows, met>>
  PROVE  RunsInv'
<1> PICK u : u = kept[key]
  OBVIOUS
<1>1. /\ RunTypes /\ KeptAreLoaded /\ PairsMet /\ KeptMet /\ DeviceMet /\ TwinsKept
      /\ runtimes' = runtimes /\ kept' = kept /\ device' = device /\ rows' = rows /\ met' = met
  BY DEF RunsInv
<1>2. PlaceKept(r) /\ LossKept(r)
  BY DEF RunsInv
<1>3. /\ u \in SharedRunIds /\ runtimes[u] = "loaded" /\ wants[u] = key
      /\ wants[r] = "server" /\ runtimes[r] = "none" /\ using[r] = 0 /\ step[r] = 0 /\ u # r
  BY <1>1, <1>2 DEF RunTypes, KeptAreLoaded, PlaceKept, Early
<1>4. /\ at' \in [SharedRunIds -> Places]
      /\ using' \in [SharedRunIds -> SharedRunIds \cup {0}]
      /\ step' = step /\ at'[r] = "forward" /\ using'[r] = u
      /\ \A q \in SharedRunIds \ {r} : at'[q] = at[q] /\ using'[q] = using[q]
  BY <1>1, <1>3, StartsFacts DEF Places
<1>5. /\ wants' \in [SharedRunIds -> RuntimeKeys \cup {"server"}] /\ wants'[r] = key
      /\ \A q \in SharedRunIds \ {r} : wants'[q] = wants[q]
  BY <1>1 DEF RunTypes
<1>6. RunTypes'
  BY <1>1, <1>4, <1>5 DEF RunTypes
<1>7. KeptAreLoaded'
  BY <1>1, <1>3, <1>5 DEF KeptAreLoaded, RunTypes
<1>8. UnderWay' \subseteq UnderWay
  BY <1>4 DEF UnderWay
<1>9. PairsMet'
  BY <1>1, <1>8 DEF PairsMet, Met
<1>10. KeptMet'
  BY <1>1, <1>4 DEF KeptMet, KeptOnes, Met
<1>11. DeviceMet'
  BY <1>1, <1>4 DEF DeviceMet, Met
<1>12. ASSUME NEW q \in SharedRunIds, wants[q] \in RuntimeKeys
       PROVE  (HasTwin(q) => HasTwin(q)') /\ (HasRival(q) => HasRival(q)')
  <2>1. met \subseteq met'
    BY <1>1
  <2>2. \A p \in SharedRunIds : wants[p] \in RuntimeKeys => wants'[p] = wants[p]
    BY <1>3, <1>5, SharedRunsAssumption DEF SharedRunsAssumption
  <2> QED BY <1>1, <1>5, <1>12, <2>1, <2>2, MetStays
<1>13. TwinsKept'
  <2>1. \A q \in SharedRunIds : runtimes[q] = "loaded" => wants[q] \in RuntimeKeys
    BY DEF RunsInv, PlaceKept
  <2>2. KeptOnes' = KeptOnes
    BY <1>1 DEF KeptOnes
  <2> QED BY <1>1, <1>12, <2>1, <2>2 DEF TwinsKept
<1>14. ASSUME NEW q \in SharedRunIds
       PROVE  PlaceKept(q)' /\ LossKept(q)'
  <2>1. PlaceKept(q) /\ LossKept(q)
    BY DEF RunsInv
  <2>2. CASE q = r
    <3>1. PlaceKept(q)'
      BY <1>1, <1>3, <1>4, <1>5, <2>2 DEF PlaceKept, Early
    <3>2. LossKept(q)'
      BY <1>1, <1>3, <1>4, <2>2 DEF LossKept
    <3> QED BY <3>1, <3>2
  <2>3. CASE q # r
    <3>1. /\ at'[q] = at[q] /\ using'[q] = using[q] /\ wants'[q] = wants[q]
          /\ runtimes'[q] = runtimes[q] /\ step'[q] = step[q]
      BY <1>1, <1>4, <1>5, <2>3
    <3>2. using[q] # 0 => using[q] # r /\ using[q] \in SharedRunIds
      BY <1>1, <1>3, <2>1 DEF PlaceKept, RunTypes
    <3>3. using[q] # 0 => wants'[using[q]] = wants[using[q]]
      BY <1>5, <3>2
    <3>4. PlaceKept(q)'
      BY <1>1, <2>1, <3>1, <3>3 DEF PlaceKept
    <3>5. LossKept(q)'
      BY <1>1, <1>12, <2>1, <3>1 DEF LossKept, PlaceKept
    <3> QED BY <3>4, <3>5
  <2> QED BY <2>2, <2>3
<1> QED BY <1>6, <1>7, <1>9, <1>10, <1>11, <1>13, <1>14 DEF RunsInv

\* Every kept runtime goes for a new one: whoever was using it has met its end.
LEMMA UseNewKeeps ==
  ASSUME SharedRunsAssumption, RunsInv, NEW r \in SharedRunIds, at[r] = "plan",
         NEW key \in RuntimeKeys, wants' = [wants EXCEPT ![r] = key], kept[key] = 0,
         runtimes' = [u \in SharedRunIds |->
                        IF u = r THEN "loading"
                        ELSE IF \E k \in RuntimeKeys : kept[k] = u THEN "destroyed"
                        ELSE runtimes[u]],
         kept' = KeptMeanwhile(r, key), Goes(r, "load"), UNCHANGED <<device, rows, met>>
  PROVE  RunsInv'
<1>1. /\ RunTypes /\ KeptAreLoaded /\ PairsMet /\ KeptMet /\ DeviceMet /\ TwinsKept
      /\ device' = device /\ rows' = rows /\ met' = met
  BY DEF RunsInv
<1>2. PlaceKept(r) /\ LossKept(r)
  BY DEF RunsInv
<1>3. wants[r] = "server" /\ runtimes[r] = "none" /\ using[r] = 0 /\ step[r] = 0
  BY <1>1, <1>2 DEF RunTypes, PlaceKept, Early
<1>4. /\ at' \in [SharedRunIds -> Places]
      /\ using' \in [SharedRunIds -> SharedRunIds \cup {0}]
      /\ step' \in [SharedRunIds -> Nat]
      /\ at'[r] = "load" /\ using'[r] = 0 /\ step'[r] = 0
      /\ \A q \in SharedRunIds \ {r} :
           at'[q] = at[q] /\ using'[q] = using[q] /\ step'[q] = step[q]
  BY <1>1, <1>3, GoesFacts DEF Places
<1>5. /\ wants' \in [SharedRunIds -> RuntimeKeys \cup {"server"}] /\ wants'[r] = key
      /\ \A q \in SharedRunIds \ {r} : wants'[q] = wants[q]
  BY <1>1 DEF RunTypes
<1>6. kept' \in [RuntimeKeys -> SharedRunIds \cup {0}] /\ (\A k \in RuntimeKeys : kept'[k] = 0)
      /\ KeptOnes' = {}
  BY DEF KeptMeanwhile, KeptOnes
<1>7. /\ runtimes' \in [SharedRunIds -> {"none", "loading", "loaded", "destroyed"}]
      /\ runtimes'[r] = "loading"
      /\ \A q \in SharedRunIds \ {r} :
           \/ runtimes'[q] = runtimes[q]
           \/ /\ runtimes'[q] = "destroyed" /\ runtimes[q] = "loaded"
              /\ wants[q] \in RuntimeKeys \ {key}
  <2>1. ASSUME NEW q \in SharedRunIds \ {r}, NEW k \in RuntimeKeys, kept[k] = q
        PROVE  /\ runtimes'[q] = "destroyed" /\ runtimes[q] = "loaded"
               /\ wants[q] \in RuntimeKeys \ {key}
    <3>1. q # 0
      BY SharedRunsAssumption DEF SharedRunsAssumption
    <3>2. runtimes[q] = "loaded" /\ wants[q] = k /\ k # key
      BY <1>1, <2>1, <3>1 DEF KeptAreLoaded
    <3> QED BY <2>1, <3>2
  <2>2. ASSUME NEW q \in SharedRunIds \ {r}, ~\E k \in RuntimeKeys : kept[k] = q
        PROVE  runtimes'[q] = runtimes[q]
    BY <2>2
  <2>3. runtimes' \in [SharedRunIds -> {"none", "loading", "loaded", "destroyed"}]
        /\ runtimes'[r] = "loading"
    BY <1>1 DEF RunTypes
  <2> QED BY <2>1, <2>2, <2>3
<1>8. RunTypes'
  BY <1>1, <1>4, <1>5, <1>6, <1>7 DEF RunTypes
<1>9. KeptAreLoaded' /\ KeptMet'
  BY <1>6 DEF KeptAreLoaded, KeptMet
<1>10. UnderWay' \subseteq UnderWay /\ r \in UnderWay
  BY <1>4 DEF UnderWay
<1>11. PairsMet'
  BY <1>1, <1>10 DEF PairsMet, Met
<1>12. DeviceMet'
  BY <1>1, <1>4 DEF DeviceMet, Met
<1>13. ASSUME NEW q \in SharedRunIds, wants[q] \in RuntimeKeys
       PROVE  (HasTwin(q) => HasTwin(q)') /\ (HasRival(q) => HasRival(q)')
  <2>1. met \subseteq met'
    BY <1>1
  <2>2. \A p \in SharedRunIds : wants[p] \in RuntimeKeys => wants'[p] = wants[p]
    BY <1>3, <1>5, SharedRunsAssumption DEF SharedRunsAssumption
  <2> QED BY <1>1, <1>5, <1>13, <2>1, <2>2, MetStays
<1>14. TwinsKept'
  <2> SUFFICES ASSUME NEW u \in SharedRunIds, runtimes'[u] = "loaded"
               PROVE  HasTwin(u)'
    BY DEF TwinsKept
  <2>1. u # r /\ runtimes[u] = "loaded"
    BY <1>7
  <2>2. u \notin KeptOnes
    <3> SUFFICES ASSUME NEW k \in RuntimeKeys, kept[k] = u PROVE FALSE
      BY DEF KeptOnes
    <3> QED BY <2>1
  <2>3. wants[u] \in RuntimeKeys
    BY <2>1 DEF RunsInv, PlaceKept
  <2> QED BY <1>1, <1>13, <2>1, <2>2, <2>3 DEF TwinsKept
<1>15. ASSUME NEW q \in SharedRunIds
       PROVE  PlaceKept(q)' /\ LossKept(q)'
  <2>1. PlaceKept(q) /\ LossKept(q)
    BY DEF RunsInv
  <2>2. CASE q = r
    <3>1. PlaceKept(q)'
      BY <1>4, <1>5, <1>7, <2>2 DEF PlaceKept, Early
    <3>2. LossKept(q)'
      BY <1>4, <2>2 DEF LossKept
    <3> QED BY <3>1, <3>2
  <2>3. CASE q # r
    <3>1. /\ at'[q] = at[q] /\ using'[q] = using[q] /\ wants'[q] = wants[q]
          /\ step'[q] = step[q]
          /\ runtimes'[q] = runtimes[q]
             \/ (runtimes'[q] = "destroyed" /\ runtimes[q] = "loaded" /\ wants[q] \in RuntimeKeys)
      BY <1>4, <1>5, <1>7, <2>3
    <3>2. using[q] # 0 => using[q] \in SharedRunIds \ {r}
      BY <1>1, <1>3, <2>1 DEF PlaceKept, RunTypes
    <3>3. using[q] # 0 =>
            /\ wants'[using[q]] = wants[using[q]]
            /\ runtimes'[using[q]] = runtimes[using[q]]
               \/ (runtimes'[using[q]] = "destroyed" /\ wants[using[q]] \in RuntimeKeys \ {key})
      BY <1>5, <1>7, <3>2
    <3>4. PlaceKept(q)'
      BY <2>1, <3>1, <3>3 DEF PlaceKept, Early
    <3>5. using[q] # 0 => Met(q, r)'
      <4>1. using[q] # 0 => q \in UnderWay
        BY <2>1 DEF PlaceKept, UnderWay
      <4> QED BY <1>1, <1>10, <2>3, <4>1 DEF PairsMet, Met
    <3>6. using[q] # 0 /\ runtimes'[using[q]] = "destroyed" => HasRival(q)'
      <4> SUFFICES ASSUME using[q] # 0, runtimes'[using[q]] = "destroyed" PROVE HasRival(q)'
        OBVIOUS
      <4>1. CASE runtimes[using[q]] = "destroyed"
        BY <1>13, <2>1, <4>1 DEF LossKept, PlaceKept
      <4>2. CASE wants[using[q]] \in RuntimeKeys \ {key}
        <5>1. wants'[r] = key /\ key # "server" /\ wants'[q] # key
          BY <1>5, <2>1, <3>1, <4>2, SharedRunsAssumption DEF PlaceKept, SharedRunsAssumption
        <5> QED BY <3>5, <5>1 DEF HasRival
      <4> QED BY <3>3, <4>1, <4>2
    <3>7. LossKept(q)'
      BY <1>1, <1>13, <2>1, <3>1, <3>6 DEF LossKept, PlaceKept
    <3> QED BY <3>4, <3>7
  <2> QED BY <2>2, <2>3
<1> QED BY <1>8, <1>9, <1>11, <1>12, <1>14, <1>15 DEF RunsInv

LEMMA LoadedKeeps ==
  ASSUME SharedRunsAssumption, RunsInv, NEW r \in SharedRunIds, at[r] = "load",
         runtimes' = [runtimes EXCEPT ![r] = "loaded"], kept' = [kept EXCEPT ![wants[r]] = r],
         Starts(r, r, "forward"), UNCHANGED <<wants, device, rows, met>>
  PROVE  RunsInv'
<1> PICK key : key = wants[r]
  OBVIOUS
<1>1. /\ RunTypes /\ KeptAreLoaded /\ PairsMet /\ KeptMet /\ DeviceMet /\ TwinsKept
      /\ wants' = wants /\ device' = device /\ rows' = rows /\ met' = met
  BY DEF RunsInv
<1>2. PlaceKept(r) /\ LossKept(r)
  BY DEF RunsInv
<1>3. key \in RuntimeKeys /\ runtimes[r] = "loading" /\ using[r] = 0 /\ step[r] = 0
  BY <1>1, <1>2 DEF RunTypes, PlaceKept, Early
<1>4. /\ at' \in [SharedRunIds -> Places]
      /\ using' \in [SharedRunIds -> SharedRunIds \cup {0}]
      /\ step' = step /\ at'[r] = "forward" /\ using'[r] = r
      /\ \A q \in SharedRunIds \ {r} : at'[q] = at[q] /\ using'[q] = using[q]
  BY <1>1, StartsFacts DEF Places
<1>5. /\ runtimes' \in [SharedRunIds -> {"none", "loading", "loaded", "destroyed"}]
      /\ runtimes'[r] = "loaded"
      /\ \A q \in SharedRunIds \ {r} : runtimes'[q] = runtimes[q]
  BY <1>1 DEF RunTypes
<1>6. /\ kept' \in [RuntimeKeys -> SharedRunIds \cup {0}] /\ kept'[key] = r
      /\ \A k \in RuntimeKeys \ {key} : kept'[k] = kept[k]
  BY <1>1, <1>3 DEF RunTypes
<1>7. RunTypes'
  BY <1>1, <1>4, <1>5, <1>6 DEF RunTypes
<1>8. \A k \in RuntimeKeys : kept[k] # 0 => kept[k] \in SharedRunIds \ {r}
  BY <1>1, <1>3 DEF KeptAreLoaded, RunTypes
<1>9. KeptAreLoaded'
  BY <1>1, <1>3, <1>5, <1>6, <1>8 DEF KeptAreLoaded
<1>10. UnderWay' \subseteq UnderWay /\ r \in UnderWay
  BY <1>4 DEF UnderWay
<1>11. PairsMet'
  BY <1>1, <1>10 DEF PairsMet, Met
<1>12. KeptOnes' \subseteq KeptOnes \cup {r} /\ KeptOnes \subseteq SharedRunIds \ {r}
       /\ (\A u \in KeptOnes : u \in KeptOnes' \/ u = kept[key])
  <2>1. KeptOnes' \subseteq KeptOnes \cup {r}
    BY <1>6 DEF KeptOnes
  <2>2. KeptOnes \subseteq SharedRunIds \ {r}
    BY <1>8 DEF KeptOnes
  <2>3. ASSUME NEW k \in RuntimeKeys, kept[k] # 0, k # key
        PROVE  kept[k] \in KeptOnes'
    BY <1>6, <2>3 DEF KeptOnes
  <2> QED BY <2>1, <2>2, <2>3 DEF KeptOnes
<1>13. \A u \in KeptOnes : Met(r, u) /\ Met(u, r)
  <2>1. \A u : {r, u} = {u, r}
    OBVIOUS
  <2> QED BY <1>1, <2>1 DEF KeptMet, Met
<1>14. KeptMet'
  <2>1. ASSUME NEW u \in KeptOnes', NEW v \in KeptOnes', u # v
        PROVE  Met(u, v)'
    BY <1>1, <1>12, <1>13, <2>1 DEF KeptMet, Met
  <2>2. ASSUME NEW u \in KeptOnes', NEW q \in SharedRunIds, at'[q] = "load"
        PROVE  Met(q, u)'
    <3>1. q # r /\ at[q] = "load"
      BY <1>4, <2>2
    <3>2. q \in UnderWay
      BY <3>1 DEF UnderWay
    <3>3. CASE u = r
      BY <1>1, <1>10, <3>1, <3>2, <3>3 DEF PairsMet, Met
    <3>4. CASE u \in KeptOnes
      BY <1>1, <3>1, <3>4 DEF KeptMet, Met
    <3> QED BY <1>12, <3>3, <3>4
  <2> QED BY <2>1, <2>2 DEF KeptMet
<1>15. DeviceMet'
  BY <1>1, <1>4 DEF DeviceMet, Met
<1>16. ASSUME NEW q \in SharedRunIds
       PROVE  (HasTwin(q)' <=> HasTwin(q)) /\ (HasRival(q)' <=> HasRival(q))
  BY <1>1 DEF HasTwin, HasRival, Met
<1>17. TwinsKept'
  <2> SUFFICES ASSUME NEW u \in SharedRunIds, runtimes'[u] = "loaded", u \notin KeptOnes'
               PROVE  HasTwin(u)
    BY <1>16 DEF TwinsKept
  <2>1. u # r
    <3>1. r \in KeptOnes'
      BY <1>3, <1>6, SharedRunsAssumption DEF KeptOnes, SharedRunsAssumption
    <3> QED BY <3>1
  <2>2. runtimes[u] = "loaded"
    BY <1>5, <2>1
  <2>3. CASE u \notin KeptOnes
    BY <1>1, <2>2, <2>3 DEF TwinsKept
  <2>4. CASE u \in KeptOnes
    <3>1. u = kept[key] /\ u # 0
      BY <1>12, <2>4 DEF KeptOnes
    <3>2. wants[u] = wants[r]
      BY <1>1, <1>3, <3>1 DEF KeptAreLoaded
    <3> QED BY <1>13, <2>1, <2>4, <3>2 DEF HasTwin
  <2> QED BY <2>3, <2>4
<1>18. ASSUME NEW q \in SharedRunIds
       PROVE  PlaceKept(q)' /\ LossKept(q)'
  <2>1. PlaceKept(q) /\ LossKept(q)
    BY DEF RunsInv
  <2>2. CASE q = r
    <3>0. r # 0
      BY SharedRunsAssumption DEF SharedRunsAssumption
    <3>1. PlaceKept(q)'
      BY <1>1, <1>3, <1>4, <1>5, <2>2, <3>0 DEF PlaceKept, Early
    <3>2. LossKept(q)'
      BY <1>3, <1>4, <1>5, <2>2 DEF LossKept
    <3> QED BY <3>1, <3>2
  <2>3. CASE q # r
    <3>1. /\ at'[q] = at[q] /\ using'[q] = using[q] /\ runtimes'[q] = runtimes[q]
          /\ step'[q] = step[q]
      BY <1>4, <1>5, <2>3
    <3>2. using[q] # 0 => using[q] \in SharedRunIds \ {r}
      BY <1>1, <1>3, <2>1 DEF PlaceKept, RunTypes
    <3>3. using[q] # 0 => runtimes'[using[q]] = runtimes[using[q]]
      BY <1>5, <3>2
    <3>4. PlaceKept(q)'
      BY <1>1, <2>1, <3>1, <3>3 DEF PlaceKept
    <3>5. LossKept(q)'
      BY <1>1, <1>16, <2>1, <3>1, <3>3 DEF LossKept
    <3> QED BY <3>4, <3>5
  <2> QED BY <2>2, <2>3
<1> QED BY <1>7, <1>9, <1>11, <1>14, <1>15, <1>17, <1>18 DEF RunsInv

LEMMA LoadFailsKeeps ==
  ASSUME SharedRunsAssumption, RunsInv, NEW r \in SharedRunIds, at[r] = "load",
         runtimes' = [runtimes EXCEPT ![r] = "destroyed"], Goes(r, "ended"),
         UNCHANGED <<wants, kept, device, rows, met>>
  PROVE  RunsInv'
<1>1. /\ RunTypes /\ KeptAreLoaded /\ PairsMet /\ KeptMet /\ DeviceMet /\ TwinsKept
      /\ wants' = wants /\ kept' = kept /\ device' = device /\ rows' = rows /\ met' = met
  BY DEF RunsInv
<1>2. PlaceKept(r) /\ LossKept(r)
  BY DEF RunsInv
<1>3. wants[r] \in RuntimeKeys /\ runtimes[r] = "loading" /\ using[r] = 0 /\ step[r] = 0
  BY <1>1, <1>2 DEF RunTypes, PlaceKept, Early
<1>4. /\ at' \in [SharedRunIds -> Places]
      /\ using' \in [SharedRunIds -> SharedRunIds \cup {0}]
      /\ step' \in [SharedRunIds -> Nat]
      /\ at'[r] = "ended" /\ using'[r] = 0 /\ step'[r] = 0
      /\ \A q \in SharedRunIds \ {r} :
           at'[q] = at[q] /\ using'[q] = using[q] /\ step'[q] = step[q]
  BY <1>1, GoesFacts DEF Places
<1>5. /\ runtimes' \in [SharedRunIds -> {"none", "loading", "loaded", "destroyed"}]
      /\ runtimes'[r] = "destroyed"
      /\ \A q \in SharedRunIds \ {r} : runtimes'[q] = runtimes[q]
  BY <1>1 DEF RunTypes
<1>6. RunTypes'
  BY <1>1, <1>4, <1>5 DEF RunTypes
<1>7. KeptOnes' = KeptOnes
  BY <1>1 DEF KeptOnes
<1>8. KeptAreLoaded'
  BY <1>1, <1>3, <1>5 DEF KeptAreLoaded, RunTypes
<1>9. UnderWay' \subseteq UnderWay
  BY <1>4 DEF UnderWay
<1>10. PairsMet'
  BY <1>1, <1>9 DEF PairsMet, Met
<1>11. KeptMet' /\ DeviceMet'
  BY <1>1, <1>4, <1>7 DEF KeptMet, DeviceMet, Met
<1>12. ASSUME NEW q \in SharedRunIds
       PROVE  (HasTwin(q)' <=> HasTwin(q)) /\ (HasRival(q)' <=> HasRival(q))
  BY <1>1 DEF HasTwin, HasRival, Met
<1>13. TwinsKept'
  BY <1>1, <1>5, <1>7, <1>12 DEF TwinsKept
<1>14. ASSUME NEW q \in SharedRunIds
       PROVE  PlaceKept(q)' /\ LossKept(q)'
  <2>1. PlaceKept(q) /\ LossKept(q)
    BY DEF RunsInv
  <2>2. CASE q = r
    BY <1>1, <1>3, <1>4, <1>5, <2>2 DEF PlaceKept, LossKept, Early
  <2>3. CASE q # r
    <3>1. /\ at'[q] = at[q] /\ using'[q] = using[q] /\ runtimes'[q] = runtimes[q]
          /\ step'[q] = step[q]
      BY <1>4, <1>5, <2>3
    <3>2. using[q] # 0 => using[q] \in SharedRunIds \ {r}
      BY <1>1, <1>3, <2>1 DEF PlaceKept, RunTypes
    <3>3. using[q] # 0 => runtimes'[using[q]] = runtimes[using[q]]
      BY <1>5, <3>2
    <3>4. PlaceKept(q)'
      BY <1>1, <2>1, <3>1, <3>3 DEF PlaceKept
    <3>5. LossKept(q)'
      BY <1>1, <1>12, <2>1, <3>1, <3>3 DEF LossKept
    <3> QED BY <3>4, <3>5
  <2> QED BY <2>2, <2>3
<1> QED BY <1>6, <1>8, <1>10, <1>11, <1>13, <1>14 DEF RunsInv

LEMMA ForwardKeeps ==
  ASSUME SharedRunsAssumption, RunsInv, NEW r \in SharedRunIds, ForwardToken(r),
         step[r] = 0 \/ Len(RowsFor(r)) = step[r]
  PROVE  RunsInv'
<1> PICK u : u = using[r]
  OBVIOUS
<1>1. /\ RunTypes /\ KeptAreLoaded /\ PairsMet /\ KeptMet /\ DeviceMet /\ TwinsKept
      /\ at[r] = "forward" /\ rows' = [rows EXCEPT ![u] = Append(RowsFor(r), r)]
      /\ at' = [at EXCEPT ![r] = "read"] /\ step' = [step EXCEPT ![r] = @ + 1]
      /\ wants' = wants /\ using' = using /\ runtimes' = runtimes /\ kept' = kept
      /\ device' = device /\ met' = met
  BY DEF RunsInv, ForwardToken
<1>2. PlaceKept(r) /\ LossKept(r)
  BY DEF RunsInv
<1>3. /\ u \in SharedRunIds /\ u # 0 /\ wants[r] \in RuntimeKeys /\ wants[u] = wants[r]
      /\ runtimes[u] \in {"loaded", "destroyed"}
  BY <1>1, <1>2, SharedRunsAssumption DEF RunTypes, PlaceKept, SharedRunsAssumption
<1>4. /\ at' \in [SharedRunIds -> Places] /\ at'[r] = "read"
      /\ \A q \in SharedRunIds \ {r} : at'[q] = at[q]
  BY <1>1 DEF RunTypes, Places
<1>5. /\ step' \in [SharedRunIds -> Nat] /\ step'[r] > 0
      /\ \A q \in SharedRunIds \ {r} : step'[q] = step[q]
  BY <1>1 DEF RunTypes
<1>6. RowsFor(r) \in Seq(SharedRunIds)
  BY <1>1, <1>3 DEF RowsFor, RunTypes
<1> PICK s : s = Append(RowsFor(r), r)
  OBVIOUS
<1>7. s \in Seq(SharedRunIds) /\ (step[r] = 0 \/ OnlyOf(rows[u], r) => OnlyOf(s, r))
  <2>1. /\ s \in Seq(SharedRunIds) /\ Len(s) = Len(RowsFor(r)) + 1 /\ s[Len(s)] = r
        /\ \A i \in 1..Len(RowsFor(r)) : s[i] = RowsFor(r)[i]
    BY <1>6
  <2>2. s # <<>>
    BY <1>6
  <2>3. CASE step[r] = 0
    <3>1. RowsFor(r) = <<>>
      BY <2>3 DEF RowsFor
    <3> QED BY <2>1, <2>2, <3>1 DEF OnlyOf
  <2>4. CASE step[r] # 0 /\ OnlyOf(rows[u], r)
    <3>1. \A i \in 1..Len(RowsFor(r)) : RowsFor(r)[i] = r
      BY <1>1, <1>3, <2>4 DEF RowsFor, OnlyOf, RunTypes
    <3>2. DOMAIN s = 1..(Len(RowsFor(r)) + 1) /\ Len(RowsFor(r)) \in Nat
      BY <1>6, <2>1
    <3>3. \A i \in DOMAIN s : i \in 1..Len(RowsFor(r)) \/ i = Len(s)
      BY <2>1, <3>2
    <3> QED BY <2>1, <2>2, <3>1, <3>3 DEF OnlyOf
  <2> QED BY <2>1, <2>3, <2>4
<1>8. /\ rows' \in [SharedRunIds -> Seq(SharedRunIds)] /\ rows'[u] = s
      /\ \A q \in SharedRunIds \ {u} : rows'[q] = rows[q]
  BY <1>1, <1>3, <1>7 DEF RunTypes
<1>9. RunTypes'
  BY <1>1, <1>4, <1>5, <1>8 DEF RunTypes
<1>10. KeptOnes' = KeptOnes
  BY <1>1 DEF KeptOnes
<1>11. UnderWay' \subseteq UnderWay /\ r \in UnderWay
  BY <1>1, <1>4 DEF UnderWay
<1>12. PairsMet'
  BY <1>1, <1>11 DEF PairsMet, Met
<1>13. KeptAreLoaded' /\ KeptMet' /\ DeviceMet'
  BY <1>1, <1>4, <1>10 DEF KeptAreLoaded, KeptMet, DeviceMet, Met
<1>14. ASSUME NEW q \in SharedRunIds
       PROVE  (HasTwin(q)' <=> HasTwin(q)) /\ (HasRival(q)' <=> HasRival(q))
  BY <1>1 DEF HasTwin, HasRival, Met
<1>15. TwinsKept'
  BY <1>1, <1>10, <1>14 DEF TwinsKept
<1>16. ASSUME NEW q \in SharedRunIds
       PROVE  PlaceKept(q)' /\ LossKept(q)'
  <2>1. PlaceKept(q) /\ LossKept(q)
    BY DEF RunsInv
  <2>2. CASE q = r
    <3>1. PlaceKept(q)'
      BY <1>1, <1>2, <1>3, <1>4, <1>5, <2>2 DEF PlaceKept, Early
    <3>2. OnlyOf(s, r) \/ HasTwin(r)
      BY <1>1, <1>2, <1>3, <1>7 DEF LossKept, RunTypes
    <3>3. LossKept(q)'
      BY <1>1, <1>2, <1>3, <1>8, <1>14, <2>2, <3>2 DEF LossKept
    <3> QED BY <3>1, <3>3
  <2>3. CASE q # r
    <3>1. at'[q] = at[q] /\ using'[q] = using[q] /\ step'[q] = step[q]
      BY <1>1, <1>4, <1>5, <2>3
    <3>2. PlaceKept(q)'
      BY <1>1, <2>1, <3>1 DEF PlaceKept
    <3>3. CASE using[q] = u
      <4>1. q \in UnderWay /\ wants[q] = wants[r]
        BY <1>3, <2>1, <3>3 DEF PlaceKept, UnderWay
      <4>2. Met(q, r)
        BY <1>1, <1>11, <2>3, <4>1 DEF PairsMet
      <4>3. HasTwin(q)
        BY <2>3, <4>1, <4>2 DEF HasTwin
      <4> QED BY <1>1, <1>14, <2>1, <3>1, <3>2, <4>3 DEF LossKept
    <3>4. CASE using[q] # u
      <4>1. using[q] # 0 => rows'[using[q]] = rows[using[q]]
        BY <1>1, <1>8, <3>4 DEF RunTypes
      <4>2. LossKept(q)'
        BY <1>1, <1>14, <2>1, <3>1, <4>1 DEF LossKept
      <4> QED BY <3>2, <4>2
    <3> QED BY <3>3, <3>4
  <2> QED BY <2>2, <2>3
<1> QED BY <1>9, <1>12, <1>13, <1>15, <1>16 DEF RunsInv

LEMMA RunsStepInv ==
  ASSUME SharedRunsAssumption, RunsInv, TokenizerAsked, [SRNext]_srVars
  PROVE  RunsInv'
<1>1. CASE UNCHANGED <<at, wants, using, step, device, runtimes, kept, rows, met>>
  <2>1. RunTypes' /\ KeptAreLoaded' /\ DeviceMet'
    BY <1>1 DEF RunsInv, RunTypes, KeptAreLoaded, DeviceMet, Met
  <2>2. PairsMet' /\ KeptMet' /\ TwinsKept'
    <3>1. /\ UnderWay' = UnderWay /\ KeptOnes' = KeptOnes /\ at' = at /\ runtimes' = runtimes
          /\ wants' = wants /\ met' = met
      BY <1>1 DEF UnderWay, KeptOnes
    <3>2. \A q \in SharedRunIds : HasTwin(q)' <=> HasTwin(q)
      BY <3>1 DEF HasTwin, Met
    <3> QED BY <3>1, <3>2 DEF RunsInv, PairsMet, KeptMet, TwinsKept, Met
  <2>3. ASSUME NEW r \in SharedRunIds
        PROVE  PlaceKept(r)' /\ LossKept(r)'
    <3>1. PlaceKept(r) /\ LossKept(r)
      BY DEF RunsInv
    <3> QED BY <1>1, <3>1 DEF PlaceKept, LossKept, HasTwin, HasRival, Met
  <2> QED BY <2>1, <2>2, <2>3 DEF RunsInv
<1>2. CASE TokenizerSettles
  BY <1>1, <1>2 DEF TokenizerSettles
<1>3. ASSUME NEW r \in SharedRunIds, UsePlan(r)
      PROVE  RunsInv'
  <2>1. at[r] = "plan" /\ UNCHANGED <<device, rows, met>>
    BY <1>3 DEF UsePlan
  <2>2. CASE Goes(r, "ended") /\ UNCHANGED <<wants, runtimes, kept>>
    BY <2>1, <2>2, QuietSteps
  <2>3. ASSUME NEW key \in RuntimeKeys, wants' = [wants EXCEPT ![r] = key], kept[key] # 0,
               Starts(r, kept[key], "forward"), UNCHANGED <<runtimes, kept>>
        PROVE  RunsInv'
    BY <2>1, <2>3, UseKeptKeeps
  <2>4. ASSUME NEW key \in RuntimeKeys, wants' = [wants EXCEPT ![r] = key], kept[key] = 0,
               runtimes' = [u \in SharedRunIds |->
                              IF u = r THEN "loading"
                              ELSE IF \E k \in RuntimeKeys : kept[k] = u THEN "destroyed"
                              ELSE runtimes[u]],
               kept' = KeptMeanwhile(r, key), Goes(r, "load")
        PROVE  RunsInv'
    BY <2>1, <2>4, UseNewKeeps
  <2> QED BY <1>3, <2>2, <2>3, <2>4 DEF UsePlan
<1>4. ASSUME NEW r \in SharedRunIds, LoadRuntime(r)
      PROVE  RunsInv'
  BY <1>4, LoadedKeeps, LoadFailsKeeps DEF LoadRuntime
<1>5. ASSUME NEW r \in SharedRunIds, ForwardToken(r)
      PROVE  RunsInv'
  <2>1. CASE step[r] = 0 \/ Len(RowsFor(r)) = step[r]
    BY <1>5, <2>1, ForwardKeeps
  <2>2. CASE ~(step[r] = 0 \/ Len(RowsFor(r)) = step[r])
    BY <1>5, <2>2, QuietSteps DEF ForwardToken
  <2> QED BY <2>1, <2>2
<1> QED BY <1>1, <1>2, <1>3, <1>4, <1>5, StartRunKeeps, QuietSteps DEF SRNext, srVars

LEMMA TokenizerStaysAsked ==
  ASSUME RunTypes, TokenizerAsked, [SRNext]_srVars
  PROVE  TokenizerAsked'
<1>1. ASSUME NEW r \in SharedRunIds, NEW a \in Places \ {"tokenizer"},
             Goes(r, a) \/ (\E u \in SharedRunIds : Starts(r, u, a)) \/ at' = [at EXCEPT ![r] = a],
             tokenizer' = tokenizer
      PROVE  TokenizerAsked'
  BY <1>1 DEF TokenizerAsked, Goes, Starts, RunTypes
<1> SUFFICES ASSUME SRNext PROVE TokenizerAsked'
  BY DEF TokenizerAsked, srVars
<1>2. CASE TokenizerSettles
  BY <1>2 DEF TokenizerSettles, TokenizerAsked
<1>3. ASSUME NEW r \in SharedRunIds, StartRun(r) PROVE TokenizerAsked'
  BY <1>3 DEF StartRun, Goes, TokenizerAsked, RunTypes
<1>4. ASSUME NEW r \in SharedRunIds, EncodePrompt(r) PROVE TokenizerAsked'
  <2>1. \E a \in {"ended", "plan", "acquire"} : Goes(r, a) /\ tokenizer' = tokenizer
    <3>1. CASE tokenizer = "failed"
      BY <1>4, <3>1 DEF EncodePrompt
    <3>2. CASE tokenizer = "ok" /\ device
      BY <1>4, <3>2 DEF EncodePrompt
    <3>3. CASE tokenizer = "ok" /\ ~device
      BY <1>4, <3>3 DEF EncodePrompt
    <3> QED BY <1>4, <3>1, <3>2, <3>3 DEF EncodePrompt, TokenizerAsked
  <2> QED BY <1>1, <2>1 DEF Places
<1>5. ASSUME NEW r \in SharedRunIds, AcquireDevice(r) \/ RunFails(r) \/ ReadOut(r)
      PROVE  TokenizerAsked'
  BY <1>1, <1>5 DEF AcquireDevice, RunFails, ReadOut, Places
<1>6. ASSUME NEW r \in SharedRunIds, UsePlan(r) PROVE TokenizerAsked'
  <2>1. Goes(r, "ended") \/ (\E u : Starts(r, u, "forward")) \/ Goes(r, "load")
    BY <1>6 DEF UsePlan
  <2> QED BY <1>6, <2>1 DEF UsePlan, Goes, Starts, TokenizerAsked, RunTypes, Places
<1>7. ASSUME NEW r \in SharedRunIds, LoadRuntime(r) PROVE TokenizerAsked'
  BY <1>1, <1>7 DEF LoadRuntime, Places
<1>8. ASSUME NEW r \in SharedRunIds, ForwardToken(r) PROVE TokenizerAsked'
  BY <1>1, <1>8 DEF ForwardToken, Places
<1> QED BY <1>2, <1>3, <1>4, <1>5, <1>6, <1>7, <1>8 DEF SRNext

LEMMA RunsInvIsShared ==
  ASSUME SharedRunsAssumption, RunsInv
  PROVE  RuntimesAreShared
<1>1. /\ RunTypes /\ KeptAreLoaded /\ PairsMet /\ KeptMet /\ DeviceMet /\ TwinsKept
      /\ \A r \in SharedRunIds : PlaceKept(r) /\ LossKept(r)
  BY DEF RunsInv
<1>2. LostOnlyByTwins
  <2> SUFFICES ASSUME NEW u \in Live \ Findable PROVE HasTwin(u)
    BY DEF LostOnlyByTwins, HasTwin
  <2>1. u \in SharedRunIds /\ runtimes[u] = "loaded" /\ u \notin KeptOnes
    BY <1>1 DEF Live, Findable, PlaceKept
  <2> QED BY <1>1, <2>1 DEF TwinsKept
<1>3. OneAtATime
  <2>1. ASSUME NEW u \in Live \cap Findable, NEW v \in Live \cap Findable, u # v
        PROVE  Met(u, v)
    <3>1. /\ u \in SharedRunIds /\ (u \in KeptOnes \/ at[u] = "load")
          /\ v \in SharedRunIds /\ (v \in KeptOnes \/ at[v] = "load")
      BY <2>1 DEF Live, Findable
    <3>2. CASE u \in KeptOnes /\ v \in KeptOnes
      BY <1>1, <2>1, <3>2 DEF KeptMet
    <3>3. CASE at[u] = "load" /\ v \in KeptOnes
      BY <1>1, <3>1, <3>3 DEF KeptMet
    <3>4. CASE u \in KeptOnes /\ at[v] = "load"
      <4>1. Met(v, u) /\ {u, v} = {v, u}
        BY <1>1, <3>1, <3>4 DEF KeptMet
      <4> QED BY <4>1 DEF Met
    <3>5. CASE at[u] = "load" /\ at[v] = "load"
      <4>1. u \in UnderWay /\ v \in UnderWay
        BY <3>1, <3>5 DEF UnderWay
      <4> QED BY <1>1, <2>1, <4>1 DEF PairsMet
    <3> QED BY <3>1, <3>2, <3>3, <3>4, <3>5
  <2> QED BY <1>1, <2>1 DEF OneAtATime, DeviceMet
<1>4. RunsAloneAreAlone
  <2> SUFFICES ASSUME NEW r \in UnderWay
               PROVE  /\ using[r] # 0 /\ runtimes[using[r]] = "destroyed" => HasRival(r)
                      /\ at[r] = "read" /\ ToSet(rows[using[r]]) # {r} => HasTwin(r)
    BY DEF RunsAloneAreAlone, HasTwin, HasRival
  <2>1. r \in SharedRunIds /\ PlaceKept(r) /\ LossKept(r)
    BY <1>1 DEF UnderWay
  <2>2. ASSUME at[r] = "read", ~HasTwin(r)
        PROVE  ToSet(rows[using[r]]) = {r}
    <3>1. using[r] # 0 /\ step[r] > 0
      BY <2>1, <2>2 DEF PlaceKept
    <3>2. OnlyOf(rows[using[r]], r) /\ rows[using[r]] \in Seq(SharedRunIds)
      BY <1>1, <2>1, <2>2, <3>1 DEF LossKept, RunTypes
    <3> PICK s \in Seq(SharedRunIds) : s = rows[using[r]]
      BY <3>2
    <3>3. s # <<>> /\ \A i \in DOMAIN s : s[i] = r
      BY <3>2 DEF OnlyOf
    <3>4. 1 \in DOMAIN s
      BY <3>3
    <3>5. ToSet(s) = {r}
      BY <3>3, <3>4 DEF ToSet
    <3> QED BY <3>5
  <2> QED BY <2>1, <2>2 DEF LossKept
<1> QED BY <1>1, <1>2, <1>3, <1>4 DEF RuntimesAreShared

\* Any number of runs of one page, in any order, with any of their loads and
\* devices failing: what is kept is loaded and is what it says, a runtime is lost
\* to the next run only where two of one key met, two can be found only where their
\* runs met, and a run that met no other has its own runtime and its own tokens
\* (RunState in sdk/src/run.ts).
THEOREM RuntimesStayShared == SRSpec => []RuntimesAreShared
<1>1. SRInit => RunsInv /\ TokenizerAsked
  <2>1. SRInit => TokenizerAsked
    BY DEF SRInit, TokenizerAsked
  <2> QED BY <2>1, RunsInitInv, SharedRunsAssumption
<1>2. RunsInv /\ TokenizerAsked /\ [SRNext]_srVars => (RunsInv /\ TokenizerAsked)'
  <2>1. RunsInv /\ TokenizerAsked /\ [SRNext]_srVars => TokenizerAsked'
    BY TokenizerStaysAsked DEF RunsInv
  <2> QED BY <2>1, RunsStepInv, SharedRunsAssumption
<1>3. RunsInv => RuntimesAreShared
  BY RunsInvIsShared, SharedRunsAssumption
<1> QED BY <1>1, <1>2, <1>3, PTL DEF SRSpec

(***************************************************************************)
(* SharedStore                                                             *)
(***************************************************************************)

Opened == {"cross-site", "per-site", "none"}

LoadRecords ==
  [at : {"idle", "waiting", "loading", "uncached", "done"}, promise : Nat,
   store : Opened, mode : Opened, words : Nat]

StoreTypes ==
  /\ stores \in Seq({"pending"} \cup Opened) /\ storePromise \in Nat
  /\ cacheDisabled \in BOOLEAN
  /\ loads \in [StoreLoads -> LoadRecords] /\ words \in Seq({"quota", "granted"})

\* What the Dianome has follows from what was last said.
SessionKept ==
  /\ words = <<>> => /\ ~cacheDisabled
                     /\ storePromise = Len(stores) /\ Len(stores) \in {0, 1}
  /\ words # <<>> /\ words[Len(words)] = "quota" => cacheDisabled
  /\ words # <<>> /\ words[Len(words)] = "granted" =>
       ~cacheDisabled /\ storePromise \in 1..Len(stores) /\ stores[storePromise] = "cross-site"

\* And what a load has, or waits for, from what had been said when it asked.
LoadStoreKept(l) ==
  /\ loads[l].at = "idle" => loads[l].store = "none"
  /\ loads[l].words <= Len(words)
  /\ loads[l].at = "waiting" => loads[l].promise \in 1..Len(stores)
  /\ loads[l].words = 0 =>
       /\ loads[l].at = "waiting" => loads[l].promise = 1
       /\ Begun(l) => Len(stores) > 0 /\ stores[1] # "pending" /\ loads[l].store = stores[1]
  /\ loads[l].words > 0 /\ words[loads[l].words] = "quota" =>
       loads[l].at # "waiting" /\ loads[l].store = "none"
  /\ loads[l].words > 0 /\ words[loads[l].words] = "granted" =>
       /\ loads[l].at = "waiting" => stores[loads[l].promise] = "cross-site"
       /\ Begun(l) => loads[l].store = "cross-site"

StoreInv == StoreTypes /\ SessionKept /\ \A l \in StoreLoads : LoadStoreKept(l)

LEMMA StoreInitInv ==
  ASSUME STInit
  PROVE  StoreInv
<1>1. StoreTypes
  <2>1. <<>> \in Seq({"pending"} \cup Opened) /\ <<>> \in Seq({"quota", "granted"})
    OBVIOUS
  <2>2. loads \in [StoreLoads -> LoadRecords]
    BY DEF STInit, LoadRecords, Opened
  <2> QED BY <2>1, <2>2 DEF STInit, StoreTypes
<1>2. SessionKept /\ \A l \in StoreLoads : LoadStoreKept(l)
  BY DEF STInit, SessionKept, LoadStoreKept, Begun
<1> QED BY <1>1, <1>2 DEF StoreInv

\* A load whose record stays is kept where promises only settle and words only
\* come after the ones there were.
LEMMA QuietLoad ==
  ASSUME StoreTypes, StoreTypes', NEW l \in StoreLoads, LoadStoreKept(l),
         loads'[l] = loads[l], Len(stores) <= Len(stores'), Len(words) <= Len(words'),
         \A i \in 1..Len(stores) : stores[i] # "pending" => stores'[i] = stores[i],
         \A i \in 1..Len(words) : words'[i] = words[i]
  PROVE  LoadStoreKept(l)'
<1>1. loads[l].words \in Nat /\ loads[l].promise \in Nat
  BY DEF StoreTypes, LoadRecords
<1>2. Len(stores) \in Nat /\ Len(stores') \in Nat /\ Len(words) \in Nat /\ Len(words') \in Nat
  BY DEF StoreTypes
<1>3. loads[l].words <= Len(words') /\ (Begun(l)' <=> Begun(l))
  BY <1>1, <1>2 DEF LoadStoreKept, Begun
<1>4. loads[l].words > 0 => words'[loads[l].words] = words[loads[l].words]
  BY <1>1, <1>2 DEF LoadStoreKept
<1>5. loads[l].at = "waiting" => loads[l].promise \in 1..Len(stores')
  BY <1>1, <1>2 DEF LoadStoreKept
<1>6. loads[l].words = 0 /\ Begun(l) =>
        Len(stores') > 0 /\ stores'[1] # "pending" /\ loads[l].store = stores'[1]
  BY <1>1, <1>2 DEF LoadStoreKept
<1>7. loads[l].at = "waiting" /\ stores[loads[l].promise] = "cross-site" =>
        stores'[loads[l].promise] = "cross-site"
  BY <1>1, <1>2 DEF LoadStoreKept
<1> QED BY <1>3, <1>4, <1>5, <1>6, <1>7 DEF LoadStoreKept

LEMMA AskStoreKeeps ==
  ASSUME StoreInv, NEW l \in StoreLoads, AskStore(l)
  PROVE  StoreInv'
<1>1. StoreTypes /\ SessionKept /\ LoadStoreKept(l) /\ (\A m \in StoreLoads : LoadStoreKept(m))
  BY DEF StoreInv
<1>2. /\ loads[l] \in LoadRecords /\ loads[l].at = "idle" /\ loads[l].store = "none"
      /\ Len(words) \in Nat /\ Len(stores) \in Nat
      /\ words' = words /\ cacheDisabled' = cacheDisabled
  BY <1>1 DEF StoreTypes, AskStore, LoadStoreKept
<1>3. words # <<>> => words[Len(words)] \in {"quota", "granted"} /\ Len(words) > 0
  BY <1>1 DEF StoreTypes
<1>3a. words = <<>> <=> Len(words) = 0
  BY <1>1 DEF StoreTypes
<1>4. CASE cacheDisabled
  <2> PICK rec : rec = [loads[l] EXCEPT !.at = "loading", !.words = Len(words)]
    OBVIOUS
  <2>1. /\ loads' = [loads EXCEPT ![l] = rec] /\ stores' = stores /\ storePromise' = storePromise
    BY <1>4 DEF AskStore
  <2>2. /\ rec \in LoadRecords /\ rec.at = "loading" /\ rec.words = Len(words)
        /\ rec.store = "none"
    BY <1>2 DEF LoadRecords
  <2>3. loads'[l] = rec /\ (\A m \in StoreLoads \ {l} : loads'[m] = loads[m])
        /\ loads' \in [StoreLoads -> LoadRecords]
    BY <1>1, <2>1, <2>2 DEF StoreTypes
  <2>4. StoreTypes' /\ SessionKept'
    BY <1>1, <1>2, <2>1, <2>3 DEF StoreTypes, SessionKept
  <2>5. words # <<>> /\ words[Len(words)] = "quota"
    BY <1>1, <1>3, <1>4 DEF SessionKept
  <2>6. LoadStoreKept(l)'
    BY <1>2, <1>3, <2>2, <2>3, <2>5 DEF LoadStoreKept, Begun
  <2>7. ASSUME NEW m \in StoreLoads \ {l} PROVE LoadStoreKept(m)'
    BY <1>1, <1>2, <2>1, <2>3, <2>4, QuietLoad DEF StoreTypes
  <2> QED BY <2>4, <2>6, <2>7 DEF StoreInv
<1>5. CASE ~cacheDisabled
  <2> PICK p : p = IF storePromise = 0 THEN Len(stores) + 1 ELSE storePromise
    OBVIOUS
  <2> PICK rec : rec = [loads[l] EXCEPT !.at = "waiting", !.words = Len(words), !.promise = p]
    OBVIOUS
  <2>1. /\ loads' = [loads EXCEPT ![l] = rec] /\ storePromise' = p
        /\ stores' = IF storePromise = 0 THEN Append(stores, "pending") ELSE stores
    BY <1>5 DEF AskStore
  <2>2. p \in Nat /\ p > 0
    BY <1>1, <1>2 DEF StoreTypes
  <2>3. /\ rec \in LoadRecords /\ rec.at = "waiting" /\ rec.words = Len(words)
        /\ rec.store = "none" /\ rec.promise = p
    BY <1>2, <2>2 DEF LoadRecords
  <2>4. loads'[l] = rec /\ (\A m \in StoreLoads \ {l} : loads'[m] = loads[m])
        /\ loads' \in [StoreLoads -> LoadRecords]
    BY <1>1, <2>1, <2>3 DEF StoreTypes
  <2>5. /\ stores' \in Seq({"pending"} \cup Opened)
        /\ Len(stores') = (IF storePromise = 0 THEN Len(stores) + 1 ELSE Len(stores))
        /\ \A i \in 1..Len(stores) : stores'[i] = stores[i]
    BY <1>1, <2>1 DEF StoreTypes, Opened
  <2>6. StoreTypes'
    BY <1>1, <1>2, <2>1, <2>2, <2>4, <2>5 DEF StoreTypes
  <2>7. words = <<>> => p = 1 /\ Len(stores') = 1
    BY <1>1, <1>2, <2>5 DEF SessionKept
  <2>8. words # <<>> =>
          /\ words[Len(words)] = "granted" /\ p = storePromise
          /\ p \in 1..Len(stores) /\ stores[p] = "cross-site"
    BY <1>1, <1>3, <1>5 DEF SessionKept
  <2>9. words # <<>> => p \in 1..Len(stores') /\ stores'[p] = "cross-site"
    BY <1>2, <2>5, <2>8
  <2>10. SessionKept'
    BY <1>2, <1>5, <2>1, <2>7, <2>8, <2>9 DEF SessionKept
  <2>11. p \in 1..Len(stores')
    <3>1. words = <<>> => p \in 1..Len(stores')
      BY <2>7
    <3> QED BY <2>9, <3>1
  <2>12. LoadStoreKept(l)'
    BY <1>2, <1>3, <1>3a, <2>3, <2>4, <2>7, <2>8, <2>9, <2>11 DEF LoadStoreKept, Begun
  <2>13. ASSUME NEW m \in StoreLoads \ {l} PROVE LoadStoreKept(m)'
    BY <1>1, <1>2, <2>4, <2>5, <2>6, QuietLoad
  <2> QED BY <2>6, <2>10, <2>12, <2>13 DEF StoreInv
<1> QED BY <1>4, <1>5

LEMMA StoreOpensKeeps ==
  ASSUME StoreInv, StoreOpens
  PROVE  StoreInv'
<1>1. StoreTypes /\ SessionKept /\ (\A m \in StoreLoads : LoadStoreKept(m))
  BY DEF StoreInv
<1>2. PICK n \in DOMAIN stores, s \in Opened :
        stores[n] = "pending" /\ stores' = [stores EXCEPT ![n] = s]
        /\ storePromise' = storePromise
  BY DEF StoreOpens, KeepsOpened, Opened
<1>3. cacheDisabled' = cacheDisabled /\ loads' = loads /\ words' = words
      /\ Len(stores) \in Nat /\ Len(words) \in Nat
  BY <1>1 DEF StoreOpens, StoreTypes
<1>4. /\ stores' \in Seq({"pending"} \cup Opened) /\ Len(stores') = Len(stores)
      /\ \A i \in 1..Len(stores) : stores[i] # "pending" => stores'[i] = stores[i]
  BY <1>1, <1>2 DEF StoreTypes
<1>5. StoreTypes'
  BY <1>1, <1>2, <1>3, <1>4 DEF StoreTypes
<1>6. SessionKept'
  BY <1>1, <1>2, <1>3, <1>4 DEF SessionKept
<1>7. ASSUME NEW m \in StoreLoads PROVE LoadStoreKept(m)'
  BY <1>1, <1>3, <1>4, <1>5, QuietLoad
<1> QED BY <1>5, <1>6, <1>7 DEF StoreInv

LEMMA StartLoadKeeps ==
  ASSUME StoreInv, NEW l \in StoreLoads, StartLoad(l)
  PROVE  StoreInv'
<1>1. StoreTypes /\ SessionKept /\ LoadStoreKept(l) /\ (\A m \in StoreLoads : LoadStoreKept(m))
  BY DEF StoreInv
<1> PICK s : s = stores[loads[l].promise]
  OBVIOUS
<1>2. /\ loads[l] \in LoadRecords /\ loads[l].at = "waiting" /\ s # "pending"
      /\ Len(words) \in Nat /\ Len(stores) \in Nat
      /\ words' = words /\ cacheDisabled' = cacheDisabled /\ stores' = stores
      /\ storePromise' = storePromise
  BY <1>1 DEF StoreTypes, StartLoad
<1>3. loads[l].promise \in 1..Len(stores) /\ s \in Opened
  BY <1>1, <1>2 DEF StoreTypes, LoadStoreKept
<1> PICK rec : rec = [loads[l] EXCEPT !.at = "loading", !.store = s]
  OBVIOUS
<1>4. /\ rec \in LoadRecords /\ rec.at = "loading" /\ rec.store = s
      /\ rec.words = loads[l].words
  BY <1>2, <1>3 DEF LoadRecords
<1>5. /\ loads'[l] = rec /\ (\A m \in StoreLoads \ {l} : loads'[m] = loads[m])
      /\ loads' \in [StoreLoads -> LoadRecords]
  BY <1>1, <1>4 DEF StoreTypes, StartLoad
<1>6. StoreTypes' /\ SessionKept'
  BY <1>1, <1>2, <1>5 DEF StoreTypes, SessionKept
<1>7. LoadStoreKept(l)'
  <2>1. loads[l].words = 0 => loads[l].promise = 1 /\ Len(stores) > 0 /\ s = stores[1]
    BY <1>1, <1>2, <1>3 DEF LoadStoreKept
  <2>2. loads[l].words > 0 => words[loads[l].words] # "quota"
    BY <1>1, <1>2 DEF LoadStoreKept
  <2>3. loads[l].words > 0 /\ words[loads[l].words] = "granted" => s = "cross-site"
    BY <1>1, <1>2 DEF LoadStoreKept
  <2>4. loads[l].words <= Len(words)
    BY <1>1 DEF LoadStoreKept
  <2> QED BY <1>2, <1>4, <1>5, <2>1, <2>2, <2>3, <2>4 DEF LoadStoreKept
<1>8. ASSUME NEW m \in StoreLoads \ {l} PROVE LoadStoreKept(m)'
  BY <1>1, <1>2, <1>5, <1>6, QuietLoad
<1> QED BY <1>6, <1>7, <1>8 DEF StoreInv

\* A load that has its store has it until it ends.
LEMMA LaterLoad ==
  ASSUME StoreTypes, NEW l \in StoreLoads, LoadStoreKept(l), Begun(l),
         NEW rec \in LoadRecords, loads' = [loads EXCEPT ![l] = rec],
         rec.at \notin {"idle", "waiting"}, rec.store = loads[l].store,
         rec.words = loads[l].words, stores' = stores, NEW w \in {"quota", "granted"},
         words' = words \/ words' = Append(words, w)
  PROVE  /\ loads' \in [StoreLoads -> LoadRecords]
         /\ words' \in Seq({"quota", "granted"}) /\ LoadStoreKept(l)'
         /\ \A m \in StoreLoads \ {l} : LoadStoreKept(m) => LoadStoreKept(m)'
<1>1. /\ Len(words) \in Nat /\ loads[l].words \in Nat /\ loads[l].words <= Len(words)
      /\ words' \in Seq({"quota", "granted"}) /\ Len(words') \in Nat
      /\ Len(words) <= Len(words') /\ (\A i \in 1..Len(words) : words'[i] = words[i])
  <2>1. loads[l].words \in Nat /\ loads[l].words <= Len(words) /\ words \in Seq({"quota", "granted"})
    BY DEF StoreTypes, LoadRecords, LoadStoreKept
  <2>2. CASE words' = words
    BY <2>1, <2>2
  <2>3. CASE words' = Append(words, w)
    <3>1. /\ words' \in Seq({"quota", "granted"}) /\ Len(words') = Len(words) + 1
          /\ \A i \in 1..Len(words) : words'[i] = words[i]
      BY <2>1, <2>3
    <3> QED BY <2>1, <3>1
  <2> QED BY <2>2, <2>3
<1>2. /\ loads'[l] = rec /\ (\A m \in StoreLoads \ {l} : loads'[m] = loads[m])
      /\ loads' \in [StoreLoads -> LoadRecords]
  BY DEF StoreTypes
<1>3. LoadStoreKept(l)'
  <2>1. loads[l].words > 0 => words'[loads[l].words] = words[loads[l].words]
    BY <1>1
  <2>2. loads[l].words <= Len(words') /\ Begun(l)'
    BY <1>1, <1>2 DEF Begun
  <2> QED BY <1>1, <1>2, <2>1, <2>2 DEF LoadStoreKept
<1>4. ASSUME NEW m \in StoreLoads \ {l}, LoadStoreKept(m)
      PROVE  LoadStoreKept(m)'
  <2>1. loads[m].words \in Nat /\ loads[m].words <= Len(words)
    BY <1>4 DEF StoreTypes, LoadRecords, LoadStoreKept
  <2>2. loads[m].words > 0 => words'[loads[m].words] = words[loads[m].words]
    BY <1>1, <2>1
  <2>3. loads[m].words <= Len(words') /\ loads'[m] = loads[m] /\ (Begun(m)' <=> Begun(m))
    BY <1>1, <1>2, <2>1 DEF Begun
  <2> QED BY <1>4, <2>2, <2>3 DEF LoadStoreKept
<1> QED BY <1>1, <1>2, <1>3, <1>4

LEMMA MeetQuotaKeeps ==
  ASSUME StoreInv, NEW l \in StoreLoads, MeetQuota(l)
  PROVE  StoreInv'
<1>1. StoreTypes /\ SessionKept /\ LoadStoreKept(l) /\ (\A m \in StoreLoads : LoadStoreKept(m))
  BY DEF StoreInv
<1> PICK rec : rec = [loads[l] EXCEPT !.at = "uncached"]
  OBVIOUS
<1>2. /\ loads[l] \in LoadRecords /\ loads[l].at = "loading"
      /\ loads' = [loads EXCEPT ![l] = rec] /\ cacheDisabled' = TRUE /\ storePromise' = 0
      /\ words' = Append(words, "quota") /\ stores' = stores
  BY <1>1 DEF StoreTypes, MeetQuota, DisabledByQuota
<1>3. /\ rec \in LoadRecords /\ rec.at = "uncached" /\ rec.store = loads[l].store
      /\ rec.words = loads[l].words
  BY <1>2 DEF LoadRecords
<1>4. /\ loads' \in [StoreLoads -> LoadRecords] /\ words' \in Seq({"quota", "granted"})
      /\ LoadStoreKept(l)' /\ \A m \in StoreLoads \ {l} : LoadStoreKept(m) => LoadStoreKept(m)'
  BY <1>1, <1>2, <1>3, LaterLoad DEF Begun
<1>5. StoreTypes'
  BY <1>1, <1>2, <1>4 DEF StoreTypes
<1>6. words' # <<>> /\ Len(words') = Len(words) + 1 /\ words'[Len(words')] = "quota"
  BY <1>1, <1>2 DEF StoreTypes
<1>7. SessionKept'
  BY <1>2, <1>6 DEF SessionKept
<1> QED BY <1>1, <1>4, <1>5, <1>7 DEF StoreInv

LEMMA EndLoadKeeps ==
  ASSUME StoreInv, NEW l \in StoreLoads, EndLoad(l)
  PROVE  StoreInv'
<1>1. StoreTypes /\ SessionKept /\ LoadStoreKept(l) /\ (\A m \in StoreLoads : LoadStoreKept(m))
  BY DEF StoreInv
<1> PICK mode : mode = IF loads[l].at = "uncached" THEN "none" ELSE loads[l].store
  OBVIOUS
<1> PICK rec : rec = [loads[l] EXCEPT !.at = "done", !.mode = mode]
  OBVIOUS
<1>2. /\ loads[l] \in LoadRecords /\ loads[l].at \in {"loading", "uncached"}
      /\ loads' = [loads EXCEPT ![l] = rec] /\ cacheDisabled' = cacheDisabled
      /\ storePromise' = storePromise /\ words' = words /\ stores' = stores
  BY <1>1 DEF StoreTypes, EndLoad
<1>3. /\ rec \in LoadRecords /\ rec.at = "done" /\ rec.store = loads[l].store
      /\ rec.words = loads[l].words
  BY <1>2 DEF LoadRecords, Opened
<1>4. /\ loads' \in [StoreLoads -> LoadRecords]
      /\ LoadStoreKept(l)' /\ \A m \in StoreLoads \ {l} : LoadStoreKept(m) => LoadStoreKept(m)'
  BY <1>1, <1>2, <1>3, LaterLoad DEF Begun
<1>5. StoreTypes' /\ SessionKept'
  BY <1>1, <1>2, <1>4 DEF StoreTypes, SessionKept
<1> QED BY <1>1, <1>4, <1>5 DEF StoreInv

LEMMA AdoptKeeps ==
  ASSUME StoreInv, AdoptStore
  PROVE  StoreInv'
<1>1. StoreTypes /\ SessionKept /\ (\A m \in StoreLoads : LoadStoreKept(m))
  BY DEF StoreInv
<1>2. /\ stores' = Append(stores, "cross-site") /\ storePromise' = Len(stores) + 1
      /\ cacheDisabled' = FALSE /\ words' = Append(words, "granted") /\ loads' = loads
  BY DEF AdoptStore
<1>3. /\ stores' \in Seq({"pending"} \cup Opened) /\ Len(stores) \in Nat
      /\ Len(stores') = Len(stores) + 1 /\ stores'[Len(stores) + 1] = "cross-site"
      /\ \A i \in 1..Len(stores) : stores'[i] = stores[i]
  BY <1>1, <1>2 DEF StoreTypes, Opened
<1>4. /\ words' \in Seq({"quota", "granted"}) /\ Len(words) \in Nat
      /\ Len(words') = Len(words) + 1 /\ words'[Len(words')] = "granted"
      /\ (\A i \in 1..Len(words) : words'[i] = words[i]) /\ words' # <<>>
  BY <1>1, <1>2 DEF StoreTypes
<1>5. StoreTypes'
  <2>1. storePromise' \in Nat
    <3>1. Len(stores) + 1 \in Nat
      BY <1>3
    <3> QED BY <1>2, <3>1, Zenon
  <2>2. cacheDisabled' \in BOOLEAN
    BY <1>2, Zenon
  <2>3. loads' \in [StoreLoads -> LoadRecords]
    BY <1>1, <1>2 DEF StoreTypes
  <2> QED BY <1>3, <1>4, <2>1, <2>2, <2>3 DEF StoreTypes
<1>6. SessionKept'
  BY <1>2, <1>3, <1>4 DEF SessionKept
<1>7. ASSUME NEW m \in StoreLoads PROVE LoadStoreKept(m)'
  BY <1>1, <1>2, <1>3, <1>4, <1>5, QuietLoad
<1> QED BY <1>5, <1>6, <1>7 DEF StoreInv

LEMMA StoreInvIsLastWord ==
  ASSUME StoreInv
  PROVE  StoreIsTheLastWord
<1>1. ASSUME NEW l \in StoreLoads
      PROVE  /\ LoadStoreKept(l) /\ loads[l].words \in Nat
             /\ loads[l].words > 0 => words[loads[l].words] \in {"quota", "granted"}
  <2>1. LoadStoreKept(l) /\ loads[l].words \in Nat
    BY DEF StoreInv, StoreTypes, LoadRecords
  <2>2. loads[l].words > 0 => words[loads[l].words] \in {"quota", "granted"}
    BY <2>1 DEF StoreInv, StoreTypes, LoadStoreKept
  <2> QED BY <2>1, <2>2
<1>2. ASSUME NEW l \in StoreLoads, NEW m \in StoreLoads, Begun(l), Begun(m),
             loads[m].words = loads[l].words
      PROVE  loads[m].store = loads[l].store
  BY <1>1, <1>2 DEF LoadStoreKept
<1> QED BY <1>1, <1>2 DEF StoreIsTheLastWord, LoadStoreKept

\* Any number of loads, quotas met and permissions given, in any order: a load that
\* began has the store that was last spoken of before it asked for one, and loads
\* with nothing said between them have the same (store, openStore and adopt,
\* sdk/src/index.ts).
THEOREM StoreStaysTheLastWord == STSpec => []StoreIsTheLastWord
<1>1. StoreInv /\ [STNext]_stVars => StoreInv'
  <2>1. CASE UNCHANGED stVars
    <3>1. StoreTypes' <=> StoreTypes
      BY <2>1 DEF stVars, StoreTypes
    <3>2. SessionKept' <=> SessionKept
      BY <2>1 DEF stVars, SessionKept
    <3>3. ASSUME NEW l \in StoreLoads PROVE LoadStoreKept(l)' <=> LoadStoreKept(l)
      BY <2>1 DEF stVars, LoadStoreKept, Begun
    <3> QED BY <3>1, <3>2, <3>3 DEF StoreInv
  <2> QED BY <2>1, AskStoreKeeps, StoreOpensKeeps, StartLoadKeeps, MeetQuotaKeeps,
             EndLoadKeeps, AdoptKeeps DEF STNext
<1> QED BY <1>1, StoreInitInv, StoreInvIsLastWord, PTL DEF STSpec

\* What the calls on one Dianome share, with any number of runs and loads side by
\* side: the two theorems together.
THEOREM SharedStateStays == DianomeSpec => []SharedStateIsKept
BY RuntimesStayShared, StoreStaysTheLastWord, PTL DEF DianomeSpec, SharedStateIsKept

(***************************************************************************)
(* FrameChannel                                                            *)
(***************************************************************************)

Bodies == {"none", "good", "bad"}
Cdns == CdnAnswers \cup {"none"}
Codes == {"internal", "quota", "bad_request", "network", "http_404", "http_503"}

Values ==
  {"null"} \cup [chunk : FrameChunks, body : Bodies]
  \cup [chunk : FrameChunks, body : Bodies, fromCache : BOOLEAN, quota : BOOLEAN]

Results == [ok : {TRUE}, value : Values] \cup [ok : {FALSE}, code : Codes]

Tellings ==
  [kind : {"ok"}, value : Values] \cup [kind : {"chunk_http"}, status : Codes]
  \cup [kind : {"quota", "chunk_network", "frame_error"}]

Settlements ==
  [how : {"timeout", "abort", "closed"}]
  \cup [how : {"answer"}, n : Nat, cdn : Cdns, told : Tellings]

Calls == [op : FrameOps, chunk : FrameChunks, settled : Seq(Settlements)]
Asked == [id : Nat, form : {"good", "malformed"}, n : Nat]
Answers == [id : Nat, n : Nat, cdn : Cdns, res : Results]
Works == [id : Nat, n : Nat, at : {"store", "cdn", "keep"}, body : Bodies]

FrameTypes ==
  /\ posted \in Seq(Calls) /\ closed \in BOOLEAN
  /\ toFrame \in Seq(Asked) /\ toPage \in Seq(Answers) /\ serving \subseteq Works
  /\ frameCache \in [FrameChunks -> Bodies]

\* The number of a call is its place.
PendingKept == DOMAIN pending \subseteq 1..Len(posted) /\ \A id \in DOMAIN pending : pending[id] = id

\* What the page makes of an answer to a fetch is what the CDN's answer asks for.
FetchPassedOn(chunk, told, cdn) ==
  IF told.kind = "ok"
  THEN /\ told.value.chunk = chunk
       /\ told.value.fromCache <=> cdn = "none"
       /\ cdn # "none" => told.value.body = cdn
  ELSE Retried(told) <=> RetriedDirectly(cdn)

\* A message, or work, is of a call that was made, under the call's number.
Numbered(m, calls) == m.id = m.n /\ m.n \in 1..Len(calls)

RequestsKept == \A i \in DOMAIN toFrame : Numbered(toFrame[i], posted)

WorkKept == \A s \in serving : Numbered(s, posted) /\ (s.at = "keep" => s.body # "none")

AnswerFits(m, calls) ==
  /\ Numbered(m, calls)
  /\ calls[m.n].op = "fetch" => FetchPassedOn(calls[m.n].chunk, Told("fetch", m.res), m.cdn)

AnswersKept == \A i \in DOMAIN toPage : AnswerFits(toPage[i], posted)

IsUnderWay(n) ==
  \/ \E i \in DOMAIN toFrame : toFrame[i].n = n
  \/ \E i \in DOMAIN toPage : toPage[i].n = n
  \/ \E s \in serving : s.n = n

\* A settlement is of its own call, and says what the CDN said.
SettledFits(n, call) ==
  \A k \in DOMAIN call.settled :
    LET a == call.settled[k]
    IN  a.how = "answer" =>
          a.n = n /\ (call.op = "fetch" => FetchPassedOn(call.chunk, a.told, a.cdn))

CallKept(n) ==
  /\ n \in DOMAIN pending => posted[n].settled = <<>> /\ IsUnderWay(n)
  /\ n \notin DOMAIN pending => Len(posted[n].settled) = 1
  /\ SettledFits(n, posted[n])

FrameInv ==
  /\ FrameTypes /\ PendingKept /\ (closed => DOMAIN pending = {})
  /\ RequestsKept /\ WorkKept /\ AnswersKept
  /\ \A n \in 1..Len(posted) : CallKept(n)

LEMMA FrameInitInv ==
  ASSUME FCInit
  PROVE  FrameInv
<1>1. <<>> \in Seq(Calls) /\ <<>> \in Seq(Asked) /\ <<>> \in Seq(Answers)
  OBVIOUS
<1>2. FrameTypes
  BY <1>1 DEF FCInit, FrameTypes, Bodies
<1>3. DOMAIN pending = {}
  BY DEF FCInit
<1>4. PendingKept /\ RequestsKept /\ WorkKept /\ AnswersKept
  BY <1>3 DEF FCInit, PendingKept, RequestsKept, WorkKept, AnswersKept
<1>5. Len(posted) = 0
  BY DEF FCInit
<1> QED BY <1>2, <1>3, <1>4, <1>5 DEF FrameInv

\* What a store's caller is told.
LEMMA ToldCases ==
  ASSUME NEW op \in FrameOps, NEW res \in Results
  PROVE  /\ Told(op, res) \in Tellings
         /\ res.ok => Told(op, res) = [kind |-> "ok", value |-> res.value]
         /\ ~res.ok /\ op = "fetch" =>
              /\ res.code \in {"http_404", "http_503"} =>
                   Told(op, res) = [kind |-> "chunk_http", status |-> res.code]
              /\ res.code = "network" => Told(op, res) = [kind |-> "chunk_network"]
              /\ res.code \notin {"http_404", "http_503", "network"} =>
                   Told(op, res) = [kind |-> "frame_error"]
<1>1. CASE res \in [ok : {TRUE}, value : Values]
  <2>1. res.ok /\ res.value \in Values
    BY <1>1
  <2>2. Told(op, res) = [kind |-> "ok", value |-> res.value]
    BY <2>1 DEF Told
  <2> QED BY <2>1, <2>2 DEF Tellings
<1>2. CASE res \in [ok : {FALSE}, code : Codes]
  <2>1. ~res.ok /\ res.code \in Codes
    BY <1>2
  <2>2. CASE op = "put" /\ res.code = "quota"
    <3>1. Told(op, res) = [kind |-> "quota"]
      BY <2>1, <2>2 DEF Told
    <3> QED BY <2>1, <2>2, <3>1 DEF Tellings
  <2>3. CASE op = "fetch" /\ res.code \in {"http_404", "http_503"}
    <3>1. Told(op, res) = [kind |-> "chunk_http", status |-> res.code]
      BY <2>1, <2>3 DEF Told
    <3> QED BY <2>1, <2>3, <3>1 DEF Tellings
  <2>4. CASE op = "fetch" /\ res.code = "network"
    <3>1. Told(op, res) = [kind |-> "chunk_network"]
      BY <2>1, <2>4 DEF Told
    <3> QED BY <2>1, <2>4, <3>1 DEF Tellings
  <2>5. CASE /\ ~(op = "put" /\ res.code = "quota")
             /\ ~(op = "fetch" /\ res.code \in {"http_404", "http_503", "network"})
    <3>1. Told(op, res) = [kind |-> "frame_error"]
      BY <2>1, <2>5 DEF Told
    <3> QED BY <2>1, <2>5, <3>1 DEF Tellings
  <2> QED BY <2>2, <2>3, <2>4, <2>5
<1> QED BY <1>1, <1>2 DEF Results

\* A refused fetch is tried again as the CDN's own answer would be.
LEMMA RefusedPassesOn ==
  ASSUME NEW chunk, NEW code \in Codes, NEW cdn \in Cdns,
         \/ code \in {"internal", "bad_request"} /\ cdn = "none"
         \/ code = "network" /\ cdn \in {"short", "down"}
         \/ code \in {"http_404", "http_503"} /\ cdn = code
  PROVE  Refused(code) \in Results /\ FetchPassedOn(chunk, Told("fetch", Refused(code)), cdn)
<1> PICK res : res = Refused(code)
  OBVIOUS
<1>1. res \in Results /\ ~res.ok /\ res.code = code
  BY DEF Refused, Results
<1>2. "fetch" \in FrameOps
  BY DEF FrameOps
<1>3. CASE code \in {"internal", "bad_request"}
  <2>1. Told("fetch", res) = [kind |-> "frame_error"]
    BY <1>1, <1>2, <1>3, ToldCases
  <2>2. cdn = "none"
    BY <1>3
  <2> QED BY <1>1, <2>1, <2>2 DEF FetchPassedOn, Retried, RetriedDirectly
<1>4. CASE code = "network"
  <2>1. Told("fetch", res) = [kind |-> "chunk_network"]
    BY <1>1, <1>2, <1>4, ToldCases
  <2>2. cdn \in {"short", "down"}
    BY <1>4
  <2> QED BY <1>1, <2>1, <2>2 DEF FetchPassedOn, Retried, RetriedDirectly
<1>5. CASE code \in {"http_404", "http_503"}
  <2>1. Told("fetch", res) = [kind |-> "chunk_http", status |-> code]
    BY <1>1, <1>2, <1>5, ToldCases
  <2>2. cdn = code
    BY <1>5
  <2> QED BY <1>1, <1>5, <2>1, <2>2 DEF FetchPassedOn, Retried, RetriedDirectly
<1> QED BY <1>3, <1>4, <1>5

LEMMA OkPassesOn ==
  ASSUME NEW chunk \in FrameChunks, NEW body \in Bodies, NEW fromCache \in BOOLEAN,
         NEW quota \in BOOLEAN, NEW cdn \in Cdns, fromCache <=> cdn = "none",
         cdn # "none" => body = cdn
  PROVE  LET res == Ok([chunk |-> chunk, body |-> body, fromCache |-> fromCache, quota |-> quota])
         IN  res \in Results /\ FetchPassedOn(chunk, Told("fetch", res), cdn)
<1> PICK v : v = [chunk |-> chunk, body |-> body, fromCache |-> fromCache, quota |-> quota]
  OBVIOUS
<1>1. /\ v \in [chunk : FrameChunks, body : Bodies, fromCache : BOOLEAN, quota : BOOLEAN]
      /\ v.chunk = chunk /\ v.body = body /\ v.fromCache = fromCache
  OBVIOUS
<1> PICK res : res = Ok(v)
  OBVIOUS
<1>2. res \in Results /\ res.ok /\ res.value = v
  BY <1>1 DEF Ok, Results, Values
<1>3. Told("fetch", res) = [kind |-> "ok", value |-> v]
  BY <1>2, ToldCases DEF FrameOps
<1>4. FetchPassedOn(chunk, Told("fetch", res), cdn)
  BY <1>1, <1>3 DEF FetchPassedOn
<1> QED BY <1>2, <1>4

\* Calls are only added, and only how they are settled changes.
Grows(p, q) ==
  /\ Len(p) <= Len(q)
  /\ \A n \in 1..Len(p) : q[n].op = p[n].op /\ q[n].chunk = p[n].chunk

LEMMA FitsStay ==
  ASSUME NEW p \in Seq(Calls), NEW q \in Seq(Calls), Grows(p, q), NEW m
  PROVE  (Numbered(m, p) => Numbered(m, q)) /\ (AnswerFits(m, p) => AnswerFits(m, q))
<1>1. Len(p) \in Nat /\ Len(q) \in Nat /\ Len(p) <= Len(q)
  BY DEF Grows
<1>2. Numbered(m, p) => Numbered(m, q)
  BY <1>1 DEF Numbered
<1>3. AnswerFits(m, p) => AnswerFits(m, q)
  BY <1>2 DEF AnswerFits, Numbered, Grows
<1> QED BY <1>2, <1>3

LEMMA MessagesStay ==
  ASSUME posted \in Seq(Calls), posted' \in Seq(Calls), Grows(posted, posted'),
         RequestsKept, WorkKept, AnswersKept
  PROVE  /\ toFrame' = toFrame => RequestsKept'
         /\ serving' = serving => WorkKept'
         /\ toPage' = toPage => AnswersKept'
<1>1. ASSUME NEW m
      PROVE  /\ Numbered(m, posted) => Numbered(m, posted')
             /\ AnswerFits(m, posted) => AnswerFits(m, posted')
  BY FitsStay
<1>2. toFrame' = toFrame => RequestsKept'
  BY <1>1 DEF RequestsKept
<1>3. serving' = serving => WorkKept'
  BY <1>1 DEF WorkKept
<1>4. toPage' = toPage => AnswersKept'
  BY <1>1 DEF AnswersKept
<1> QED BY <1>2, <1>3, <1>4

LEMMA PostKeeps ==
  ASSUME FrameInv, NEW op \in FrameOps, NEW chunk \in FrameChunks,
         NEW form \in {"good", "malformed"}, Post(op, chunk, form)
  PROVE  FrameInv'
<1> PICK n \in Nat : n = Len(posted) + 1
  BY DEF FrameInv, FrameTypes
<1>1. /\ FrameTypes /\ PendingKept /\ (closed => DOMAIN pending = {})
      /\ RequestsKept /\ WorkKept /\ AnswersKept
      /\ closed' = closed /\ toPage' = toPage /\ serving' = serving /\ frameCache' = frameCache
  BY DEF FrameInv, Post
<1> PICK call : call = [op |-> op, chunk |-> chunk,
                        settled |-> IF closed THEN <<[how |-> "closed"]>> ELSE <<>>]
  OBVIOUS
<1>2. call \in Calls /\ call.op = op /\ call.chunk = chunk
      /\ call.settled = (IF closed THEN <<[how |-> "closed"]>> ELSE <<>>)
  <2>1. [how |-> "closed"] \in Settlements
    BY DEF Settlements
  <2>2. <<[how |-> "closed"]>> \in Seq(Settlements) /\ <<>> \in Seq(Settlements)
    BY <2>1
  <2> QED BY <2>2 DEF Calls
<1>3. posted' = Append(posted, call)
  BY DEF Post
<1>4. /\ posted' \in Seq(Calls) /\ Len(posted') = n /\ posted'[n] = call /\ Len(posted) = n - 1
      /\ \A i \in 1..Len(posted) : posted'[i] = posted[i]
  BY <1>1, <1>2, <1>3 DEF FrameTypes
<1>5. Grows(posted, posted')
  BY <1>4 DEF Grows
<1>6. WorkKept' /\ AnswersKept'
  BY <1>1, <1>4, <1>5, MessagesStay DEF FrameTypes
<1>7. SettledFits(n, call)
  <2>1. \A k \in DOMAIN call.settled : call.settled[k].how = "closed"
    BY <1>2
  <2> QED BY <2>1 DEF SettledFits
<1>8. CASE closed
  <2>1. pending' = pending /\ toFrame' = toFrame /\ DOMAIN pending = {}
    BY <1>1, <1>8 DEF Post
  <2>2. FrameTypes' /\ PendingKept' /\ (closed => DOMAIN pending = {})' /\ RequestsKept'
    BY <1>1, <1>4, <1>5, <2>1, MessagesStay DEF FrameTypes, PendingKept
  <2>3. ASSUME NEW i \in 1..Len(posted') PROVE CallKept(i)'
    <3>1. CASE i = n
      <4>1. Len(posted'[i].settled) = 1
        BY <1>2, <1>4, <1>8, <3>1
      <4> QED BY <1>4, <1>7, <2>1, <3>1, <4>1 DEF CallKept
    <3>2. CASE i # n
      <4>1. i \in 1..Len(posted) /\ posted'[i] = posted[i]
        BY <1>4, <3>2
      <4> QED BY <2>1, <4>1 DEF FrameInv, CallKept
    <3> QED BY <3>1, <3>2
  <2> QED BY <1>6, <2>2, <2>3 DEF FrameInv
<1>9. CASE ~closed
  <2> PICK ask : ask = [id |-> n, form |-> form, n |-> n]
    OBVIOUS
  <2>1. /\ pending' = [id \in DOMAIN pending \cup {n} |-> IF id = n THEN n ELSE pending[id]]
        /\ toFrame' = Append(toFrame, ask)
    BY <1>9 DEF Post, NextId
  <2>2. ask \in Asked /\ ask.n = n /\ Numbered(ask, posted')
    BY <1>4 DEF Asked, Numbered
  <2>3. /\ toFrame' \in Seq(Asked) /\ Len(toFrame') = Len(toFrame) + 1 /\ Len(toFrame) \in Nat
        /\ toFrame'[Len(toFrame) + 1] = ask
        /\ \A i \in 1..Len(toFrame) : toFrame'[i] = toFrame[i]
    BY <1>1, <2>1, <2>2 DEF FrameTypes
  <2>4. FrameTypes'
    BY <1>1, <1>4, <2>3 DEF FrameTypes
  <2>5. PendingKept'
    BY <1>1, <1>4, <2>1 DEF PendingKept
  <2>6. RequestsKept'
    <3> SUFFICES ASSUME NEW i \in DOMAIN toFrame' PROVE Numbered(toFrame'[i], posted')
      BY DEF RequestsKept
    <3>1. CASE i \in 1..Len(toFrame)
      <4>1. Numbered(toFrame[i], posted)
        BY <1>1, <3>1 DEF RequestsKept, FrameTypes
      <4> QED BY <1>1, <1>4, <1>5, <2>3, <3>1, <4>1, FitsStay DEF FrameTypes
    <3>2. CASE i = Len(toFrame) + 1
      BY <2>2, <2>3, <3>2
    <3> QED BY <2>3, <3>1, <3>2
  <2>7. \A i : IsUnderWay(i) => IsUnderWay(i)'
    <3>1. \A i \in DOMAIN toFrame : i \in DOMAIN toFrame' /\ toFrame'[i] = toFrame[i]
      BY <1>1, <2>3 DEF FrameTypes
    <3> QED BY <1>1, <3>1 DEF IsUnderWay
  <2>8. ASSUME NEW i \in 1..Len(posted') PROVE CallKept(i)'
    <3>1. CASE i = n
      <4>1. IsUnderWay(i)'
        BY <2>2, <2>3, <3>1 DEF IsUnderWay
      <4>2. posted'[i] = call /\ call.settled = <<>> /\ i \in DOMAIN pending'
        BY <1>2, <1>4, <1>9, <2>1, <3>1
      <4> QED BY <1>7, <3>1, <4>1, <4>2 DEF CallKept
    <3>2. CASE i # n
      <4>1. i \in 1..Len(posted) /\ posted'[i] = posted[i]
        BY <1>4, <3>2
      <4>2. i \in DOMAIN pending' <=> i \in DOMAIN pending
        BY <2>1, <3>2
      <4> QED BY <2>7, <4>1, <4>2 DEF FrameInv, CallKept
    <3> QED BY <3>1, <3>2
  <2> QED BY <1>1, <1>6, <1>9, <2>4, <2>5, <2>6, <2>8 DEF FrameInv
<1> QED BY <1>8, <1>9

LEMMA OneIsASeq ==
  ASSUME NEW S, NEW e \in S
  PROVE  <<e>> \in Seq(S)
OBVIOUS

\* Calls are settled that were waiting, with something that is their own.
LEMMA SettleKeeps ==
  ASSUME FrameInv, NEW ids \in SUBSET DOMAIN pending, NEW as \in Settlements, Settle(ids, as),
         \A id \in ids : SettledFits(id, [posted[id] EXCEPT !.settled = <<as>>]),
         closed' => ids = DOMAIN pending \/ closed,
         closed' \in BOOLEAN, toFrame' \in Seq(Asked), toPage' \in Seq(Answers),
         serving' \subseteq Works, frameCache' \in [FrameChunks -> Bodies],
         \A i \in DOMAIN toFrame' : \E j \in DOMAIN toFrame : toFrame'[i] = toFrame[j],
         \A i \in DOMAIN toPage' : \E j \in DOMAIN toPage : toPage'[i] = toPage[j],
         serving' \subseteq serving,
         \A n \in DOMAIN pending \ ids : IsUnderWay(n) => IsUnderWay(n)'
  PROVE  FrameInv'
<1>1. /\ FrameTypes /\ PendingKept /\ (closed => DOMAIN pending = {})
      /\ RequestsKept /\ WorkKept /\ AnswersKept
  BY DEF FrameInv
<1>2. ids \subseteq 1..Len(posted) /\ {pending[id] : id \in ids} = ids
  BY <1>1 DEF PendingKept
<1>3. /\ posted' = [n \in 1..Len(posted) |->
                      IF n \in ids THEN [posted[n] EXCEPT !.settled = Append(@, as)] ELSE posted[n]]
      /\ pending' = [id \in DOMAIN pending \ ids |-> pending[id]]
  <2>1. DOMAIN posted = 1..Len(posted)
    BY <1>1 DEF FrameTypes
  <2> QED BY <1>2, <2>1 DEF Settle
<1>4. ASSUME NEW n \in 1..Len(posted)
      PROVE  /\ posted'[n] \in Calls /\ posted'[n].op = posted[n].op
             /\ posted'[n].chunk = posted[n].chunk
             /\ n \notin ids => posted'[n] = posted[n]
             /\ n \in ids => posted'[n] = [posted[n] EXCEPT !.settled = <<as>>]
  <2>0. posted[n] \in Calls
    BY <1>1 DEF FrameTypes
  <2>1. posted'[n] = (IF n \in ids
                        THEN [posted[n] EXCEPT !.settled = Append(@, as)] ELSE posted[n])
    BY <1>3
  <2>2. n \in ids => posted[n].settled = <<>>
    BY DEF FrameInv, CallKept
  <2>3. Append(<<>>, as) = <<as>> /\ <<as>> \in Seq(Settlements)
    <3>1. <<as>> \in Seq(Settlements)
      BY OneIsASeq
    <3>2. Append(<<>>, as) = <<as>>
      OBVIOUS
    <3> QED BY <3>1, <3>2
  <2> PICK call : call = posted[n]
    OBVIOUS
  <2>4. [call EXCEPT !.settled = <<as>>] \in Calls
    BY <2>0, <2>3 DEF Calls
  <2>5. n \in ids => posted'[n] = [call EXCEPT !.settled = <<as>>]
    BY <2>1, <2>2, <2>3
  <2>6. call \in Calls
    BY <2>0
  <2>7. CASE n \in ids
    <3>1. posted'[n].op = call.op /\ posted'[n].chunk = call.chunk
      BY <2>5, <2>6, <2>7 DEF Calls
    <3> QED BY <2>4, <2>5, <2>7, <3>1
  <2>8. CASE n \notin ids
    BY <2>0, <2>1, <2>8
  <2> QED BY <2>7, <2>8
<1>5. posted' \in Seq(Calls) /\ Len(posted') = Len(posted)
  <2>1. DOMAIN posted' = 1..Len(posted) /\ Len(posted) \in Nat
    BY <1>1, <1>3 DEF FrameTypes
  <2>2. posted' \in [1..Len(posted) -> Calls]
    BY <1>3, <1>4, <2>1
  <2> QED BY <2>1, <2>2, SeqDef, LenProperties
<1>6. Grows(posted, posted')
  <2>1. Len(posted) \in Nat /\ Len(posted) <= Len(posted')
    BY <1>1, <1>5 DEF FrameTypes
  <2>2. \A n \in 1..Len(posted) : posted'[n].op = posted[n].op /\ posted'[n].chunk = posted[n].chunk
    BY <1>4
  <2> QED BY <2>1, <2>2 DEF Grows
<1>7. FrameTypes'
  BY <1>5 DEF FrameTypes
<1>8. PendingKept' /\ (closed => DOMAIN pending = {})'
  <2>1. DOMAIN pending' = DOMAIN pending \ ids
    BY <1>3
  <2> QED BY <1>1, <1>3, <1>5, <2>1 DEF PendingKept
<1>9. ASSUME NEW m
      PROVE  /\ Numbered(m, posted) => Numbered(m, posted')
             /\ AnswerFits(m, posted) => AnswerFits(m, posted')
  BY <1>1, <1>5, <1>6, FitsStay DEF FrameTypes
<1>10. RequestsKept' /\ WorkKept' /\ AnswersKept'
  <2>1. RequestsKept'
    BY <1>1, <1>9 DEF RequestsKept
  <2>2. AnswersKept'
    BY <1>1, <1>9 DEF AnswersKept
  <2>3. WorkKept'
    BY <1>1, <1>9 DEF WorkKept
  <2> QED BY <2>1, <2>2, <2>3
<1>11. ASSUME NEW n \in 1..Len(posted') PROVE CallKept(n)'
  <2>1. n \in 1..Len(posted) /\ CallKept(n)
    BY <1>5 DEF FrameInv
  <2>2. n \in DOMAIN pending' <=> n \in DOMAIN pending /\ n \notin ids
    BY <1>3
  <2>3. CASE n \in ids
    <3>0. posted[n] \in Calls
      BY <1>1, <2>1 DEF FrameTypes
    <3>1. posted'[n] = [posted[n] EXCEPT !.settled = <<as>>]
      BY <1>4, <2>1, <2>3
    <3>2. posted'[n].settled = <<as>>
      BY <3>0, <3>1 DEF Calls
    <3>3. Len(posted'[n].settled) = 1
      BY <3>2
    <3> QED BY <2>2, <2>3, <3>1, <3>3 DEF CallKept
  <2>4. CASE n \notin ids
    <3>1. posted'[n] = posted[n]
      BY <1>4, <2>1, <2>4
    <3> QED BY <2>1, <2>2, <2>4, <3>1 DEF CallKept
  <2> QED BY <2>3, <2>4
<1> QED BY <1>7, <1>8, <1>10, <1>11 DEF FrameInv

LEMMA GiveUpKeeps ==
  ASSUME FrameInv, NEW how \in {"timeout", "abort"}, GiveUp(how)
  PROVE  FrameInv'
<1>1. PICK id \in DOMAIN pending : Settle({id}, [how |-> how])
  BY DEF GiveUp
<1>2. UNCHANGED <<closed, toFrame, toPage, serving, frameCache>> /\ FrameTypes
  BY DEF GiveUp, FrameInv
<1>3. PendingKept /\ (closed => DOMAIN pending = {})
  BY DEF FrameInv
<1> PICK as : as = [how |-> how]
  OBVIOUS
<1>4. as \in Settlements /\ as.how # "answer"
  BY DEF Settlements
<1>5. SettledFits(id, [posted[id] EXCEPT !.settled = <<as>>])
  <2>1. posted[id] \in Calls
    BY <1>2, <1>3 DEF PendingKept, FrameTypes
  <2>2. [posted[id] EXCEPT !.settled = <<as>>].settled = <<as>>
    BY <2>1 DEF Calls
  <2>3. \A k \in DOMAIN <<as>> : <<as>>[k] = as
    OBVIOUS
  <2> QED BY <1>4, <2>2, <2>3 DEF SettledFits
<1>6. \A n : IsUnderWay(n) => IsUnderWay(n)'
  BY <1>2 DEF IsUnderWay
<1>7. /\ closed' = closed /\ toFrame' = toFrame /\ toPage' = toPage /\ serving' = serving
      /\ frameCache' = frameCache
  BY <1>2
<1>8. closed' \in BOOLEAN /\ toFrame' \in Seq(Asked) /\ toPage' \in Seq(Answers)
      /\ serving' \subseteq Works /\ frameCache' \in [FrameChunks -> Bodies]
  BY <1>2, <1>7 DEF FrameTypes
<1> PICK ids \in SUBSET DOMAIN pending : ids = {id}
  OBVIOUS
<1>9. Settle(ids, as) /\ \A i \in ids : SettledFits(i, [posted[i] EXCEPT !.settled = <<as>>])
  BY <1>1, <1>5
<1>10. /\ \A i \in DOMAIN toFrame' : \E j \in DOMAIN toFrame : toFrame'[i] = toFrame[j]
       /\ \A i \in DOMAIN toPage' : \E j \in DOMAIN toPage : toPage'[i] = toPage[j]
  BY <1>7
<1> QED BY <1>4, <1>6, <1>7, <1>8, <1>9, <1>10, SettleKeeps

LEMMA CloseKeeps ==
  ASSUME FrameInv, CloseClient
  PROVE  FrameInv'
<1> PICK as : as = [how |-> "closed"]
  OBVIOUS
<1>1. /\ Settle(DOMAIN pending, as) /\ closed' = TRUE /\ toFrame' = <<>> /\ toPage' = <<>>
      /\ serving' = {} /\ frameCache' = frameCache /\ FrameTypes /\ PendingKept
  BY DEF CloseClient, FrameInv
<1>2. as \in Settlements /\ as.how # "answer"
  BY DEF Settlements
<1>3. ASSUME NEW id \in DOMAIN pending
      PROVE  SettledFits(id, [posted[id] EXCEPT !.settled = <<as>>])
  <2>1. posted[id] \in Calls
    BY <1>1 DEF PendingKept, FrameTypes
  <2>2. [posted[id] EXCEPT !.settled = <<as>>].settled = <<as>>
    BY <2>1 DEF Calls
  <2>3. \A k \in DOMAIN <<as>> : <<as>>[k] = as
    OBVIOUS
  <2> QED BY <1>2, <2>2, <2>3 DEF SettledFits
<1>4. toFrame' \in Seq(Asked) /\ toPage' \in Seq(Answers) /\ serving' \subseteq Works
      /\ frameCache' \in [FrameChunks -> Bodies] /\ closed' \in BOOLEAN
  <2>1. toFrame' \in Seq(Asked) /\ toPage' \in Seq(Answers)
    BY <1>1
  <2>2. closed' \in BOOLEAN
    BY <1>1
  <2> QED BY <1>1, <2>1, <2>2 DEF FrameTypes
<1>5. DOMAIN toFrame' = {} /\ DOMAIN toPage' = {}
  BY <1>1
<1> QED BY <1>1, <1>2, <1>3, <1>4, <1>5, SettleKeeps

LEMMA FirstOfSeq ==
  ASSUME NEW S, NEW s \in Seq(S), s # <<>>
  PROVE  /\ Tail(s) \in Seq(S) /\ Head(s) \in S /\ Head(s) = s[1] /\ 1 \in DOMAIN s
         /\ \A i \in DOMAIN Tail(s) : i + 1 \in DOMAIN s /\ Tail(s)[i] = s[i + 1]
         /\ \A i \in DOMAIN s : i = 1 \/ (i - 1 \in DOMAIN Tail(s) /\ Tail(s)[i - 1] = s[i])
<1>1. Len(s) \in Nat /\ Len(s) > 0 /\ DOMAIN s = 1..Len(s)
  OBVIOUS
<1>2. /\ Tail(s) \in Seq(S) /\ Head(s) = s[1] /\ Len(Tail(s)) = Len(s) - 1
      /\ \A i \in 1..(Len(s) - 1) : Tail(s)[i] = s[i + 1]
  BY <1>1, HeadTailProperties
<1>3. DOMAIN Tail(s) = 1..(Len(s) - 1)
  BY <1>1, <1>2
<1>4. \A i \in 1..Len(s) : i = 1 \/ (i - 1 \in 1..(Len(s) - 1) /\ (i - 1) + 1 = i)
  BY <1>1
<1>5. \A i \in DOMAIN s : i = 1 \/ (i - 1 \in DOMAIN Tail(s) /\ Tail(s)[i - 1] = s[i])
  BY <1>1, <1>2, <1>3, <1>4
<1> QED BY <1>1, <1>2, <1>3, <1>5

LEMMA ReceiveKeeps ==
  ASSUME FrameInv, ReceiveAnswer
  PROVE  FrameInv'
<1> PICK m : m = Head(toPage)
  OBVIOUS
<1>1. /\ FrameTypes /\ PendingKept /\ (closed => DOMAIN pending = {})
      /\ RequestsKept /\ WorkKept /\ AnswersKept
      /\ toPage # <<>> /\ toPage' = Tail(toPage)
      /\ closed' = closed /\ toFrame' = toFrame /\ serving' = serving /\ frameCache' = frameCache
  BY DEF FrameInv, ReceiveAnswer
<1>2. /\ toPage' \in Seq(Answers) /\ m \in Answers /\ m = toPage[1] /\ 1 \in DOMAIN toPage
      /\ \A i \in DOMAIN toPage' : i + 1 \in DOMAIN toPage /\ toPage'[i] = toPage[i + 1]
      /\ \A i \in DOMAIN toPage : i = 1 \/ (i - 1 \in DOMAIN toPage' /\ toPage'[i - 1] = toPage[i])
  BY <1>1, FirstOfSeq DEF FrameTypes
<1>3. AnswerFits(m, posted) /\ m.id = m.n
  BY <1>1, <1>2 DEF AnswersKept, AnswerFits, Numbered
<1>4. \A i \in DOMAIN toPage' : \E j \in DOMAIN toPage : toPage'[i] = toPage[j]
  BY <1>2
<1>5. \A n : IsUnderWay(n) /\ n # m.n => IsUnderWay(n)'
  BY <1>1, <1>2 DEF IsUnderWay
<1>6. closed' \in BOOLEAN /\ toFrame' \in Seq(Asked) /\ serving' \subseteq Works
      /\ frameCache' \in [FrameChunks -> Bodies]
  BY <1>1 DEF FrameTypes
<1>7. \A i \in DOMAIN toFrame' : \E j \in DOMAIN toFrame : toFrame'[i] = toFrame[j]
  BY <1>1
<1>8. CASE m.id \in DOMAIN pending
  <2> PICK told : told = Told(posted[m.id].op, m.res)
    OBVIOUS
  <2> PICK as : as = [how |-> "answer", n |-> m.n, cdn |-> m.cdn, told |-> told]
    OBVIOUS
  <2>1. pending[m.id] = m.id /\ m.id \in 1..Len(posted) /\ posted[m.id] \in Calls
    BY <1>1, <1>8 DEF PendingKept, FrameTypes
  <2>2. Settle({m.id}, as)
    BY <1>8, <2>1 DEF ReceiveAnswer
  <2>3. as \in Settlements
    <3>1. posted[m.id].op \in FrameOps /\ m.res \in Results /\ m.cdn \in Cdns /\ m.n \in Nat
      BY <1>2, <2>1 DEF Calls, Answers
    <3>2. told \in Tellings
      BY <3>1, ToldCases
    <3> QED BY <3>1, <3>2 DEF Settlements
  <2>4. SettledFits(m.id, [posted[m.id] EXCEPT !.settled = <<as>>])
    <3> PICK call : call = [posted[m.id] EXCEPT !.settled = <<as>>]
      OBVIOUS
    <3>1. call.settled = <<as>> /\ call.op = posted[m.id].op /\ call.chunk = posted[m.id].chunk
      BY <2>1 DEF Calls
    <3>2. as.n = m.id /\ as.told = told /\ as.cdn = m.cdn
      BY <1>3
    <3>3. call.op = "fetch" => FetchPassedOn(call.chunk, as.told, as.cdn)
      BY <1>3, <3>1, <3>2 DEF AnswerFits
    <3>4. \A k \in DOMAIN call.settled : call.settled[k] = as
      BY <3>1
    <3> QED BY <3>2, <3>3, <3>4 DEF SettledFits
  <2> PICK ids \in SUBSET DOMAIN pending : ids = {m.id}
    BY <1>8
  <2>5. Settle(ids, as) /\ \A i \in ids : SettledFits(i, [posted[i] EXCEPT !.settled = <<as>>])
    BY <2>2, <2>4
  <2>6. \A n \in DOMAIN pending \ ids : IsUnderWay(n) => IsUnderWay(n)'
    BY <1>3, <1>5
  <2> QED BY <1>1, <1>2, <1>4, <1>6, <1>7, <2>3, <2>5, <2>6, SettleKeeps
<1>9. CASE m.id \notin DOMAIN pending
  <2>1. posted' = posted /\ pending' = pending
    BY <1>9 DEF ReceiveAnswer
  <2>2. FrameTypes' /\ PendingKept' /\ (closed => DOMAIN pending = {})'
    BY <1>1, <1>2, <2>1 DEF FrameTypes, PendingKept
  <2>3. RequestsKept' /\ WorkKept' /\ AnswersKept'
    BY <1>1, <1>2, <2>1 DEF RequestsKept, WorkKept, AnswersKept
  <2>4. ASSUME NEW n \in 1..Len(posted') PROVE CallKept(n)'
    <3>1. CallKept(n)
      BY <2>1 DEF FrameInv
    <3>2. n \in DOMAIN pending => IsUnderWay(n)'
      BY <1>3, <1>5, <1>9, <3>1 DEF CallKept
    <3> QED BY <2>1, <3>1, <3>2 DEF CallKept
  <2> QED BY <2>2, <2>3, <2>4 DEF FrameInv
<1> QED BY <1>8, <1>9

\* The frame's steps leave the page as it is.
LEMMA FrameWorks ==
  ASSUME FrameInv, FrameTypes', RequestsKept', WorkKept', AnswersKept',
         posted' = posted, pending' = pending, closed' = closed,
         \A n : IsUnderWay(n) => IsUnderWay(n)'
  PROVE  FrameInv'
<1>1. PendingKept' /\ (closed => DOMAIN pending = {})'
  BY DEF FrameInv, PendingKept
<1>2. ASSUME NEW n \in 1..Len(posted') PROVE CallKept(n)'
  BY DEF FrameInv, CallKept
<1> QED BY <1>1, <1>2 DEF FrameInv

\* An answer is sent.
LEMMA ReplyFacts ==
  ASSUME FrameInv, NEW ask, NEW res \in Results, NEW cdn \in Cdns, Reply(ask, res, cdn),
         ask.id \in Nat, ask.n \in Nat, Numbered(ask, posted),
         posted[ask.n].op = "fetch" => FetchPassedOn(posted[ask.n].chunk, Told("fetch", res), cdn),
         posted' = posted
  PROVE  /\ toPage' \in Seq(Answers) /\ AnswersKept'
         /\ \A i \in DOMAIN toPage : i \in DOMAIN toPage' /\ toPage'[i] = toPage[i]
         /\ \E i \in DOMAIN toPage' : toPage'[i].n = ask.n
<1> PICK m : m = [id |-> ask.id, n |-> ask.n, cdn |-> cdn, res |-> res]
  OBVIOUS
<1>1. m \in Answers /\ m.id = ask.id /\ m.n = ask.n /\ m.cdn = cdn /\ m.res = res
  BY DEF Answers
<1>2. AnswerFits(m, posted)
  BY <1>1 DEF AnswerFits, Numbered
<1>3. toPage' = Append(toPage, m) /\ toPage \in Seq(Answers)
  BY DEF Reply, FrameInv, FrameTypes
<1>4. /\ toPage' \in Seq(Answers) /\ Len(toPage') = Len(toPage) + 1 /\ Len(toPage) \in Nat
      /\ DOMAIN toPage = 1..Len(toPage) /\ DOMAIN toPage' = 1..(Len(toPage) + 1)
      /\ (\A i \in 1..Len(toPage) : toPage'[i] = toPage[i]) /\ toPage'[Len(toPage) + 1] = m
  BY <1>1, <1>3
<1>5. \A i \in DOMAIN toPage' : i \in DOMAIN toPage \/ i = Len(toPage) + 1
  BY <1>4
<1>6. AnswersKept'
  BY <1>2, <1>4, <1>5 DEF FrameInv, AnswersKept
<1> QED BY <1>1, <1>4, <1>6

LEMMA TakeRequestKeeps ==
  ASSUME FrameInv, TakeRequest
  PROVE  FrameInv'
<1> PICK ask : ask = Head(toFrame)
  OBVIOUS
<1>1. /\ FrameTypes /\ RequestsKept /\ WorkKept /\ AnswersKept
      /\ toFrame # <<>> /\ toFrame' = Tail(toFrame)
      /\ posted' = posted /\ pending' = pending /\ closed' = closed /\ frameCache' = frameCache
  BY DEF FrameInv, TakeRequest
<1>2. /\ toFrame' \in Seq(Asked) /\ ask \in Asked /\ ask = toFrame[1] /\ 1 \in DOMAIN toFrame
      /\ \A i \in DOMAIN toFrame' : i + 1 \in DOMAIN toFrame /\ toFrame'[i] = toFrame[i + 1]
      /\ \A i \in DOMAIN toFrame :
           i = 1 \/ (i - 1 \in DOMAIN toFrame' /\ toFrame'[i - 1] = toFrame[i])
  BY <1>1, FirstOfSeq DEF FrameTypes
<1>3. Numbered(ask, posted) /\ RequestsKept'
  BY <1>1, <1>2 DEF RequestsKept
<1>4. CASE ask.form = "malformed"
  <2> PICK res : res = Refused("bad_request")
    OBVIOUS
  <2>1. Reply(ask, res, "none") /\ serving' = serving
    BY <1>4 DEF TakeRequest
  <2>2. "bad_request" \in Codes /\ "none" \in Cdns
    BY DEF Codes, Cdns
  <2>3. res \in Results /\ FetchPassedOn(posted[ask.n].chunk, Told("fetch", res), "none")
    BY <2>2, RefusedPassesOn
  <2>4. ask.id \in Nat /\ ask.n \in Nat
    BY <1>2 DEF Asked
  <2>5. /\ toPage' \in Seq(Answers) /\ AnswersKept'
        /\ \A i \in DOMAIN toPage : i \in DOMAIN toPage' /\ toPage'[i] = toPage[i]
        /\ \E i \in DOMAIN toPage' : toPage'[i].n = ask.n
    BY <1>1, <1>3, <2>1, <2>2, <2>3, <2>4, ReplyFacts
  <2>6. \A n : IsUnderWay(n) => IsUnderWay(n)'
    BY <1>2, <2>1, <2>5 DEF IsUnderWay
  <2>7. FrameTypes' /\ WorkKept'
    BY <1>1, <1>2, <2>1, <2>5 DEF FrameTypes, WorkKept
  <2> QED BY <1>1, <1>3, <2>5, <2>6, <2>7, FrameWorks
<1>5. CASE ask.form # "malformed"
  <2> PICK s : s = [id |-> ask.id, n |-> ask.n, at |-> "store", body |-> "none"]
    OBVIOUS
  <2>1. serving' = serving \cup {s} /\ toPage' = toPage
    BY <1>5 DEF TakeRequest
  <2>2. s \in Works /\ s.n = ask.n /\ s.id = ask.id /\ s.at = "store"
    BY <1>2 DEF Asked, Works, Bodies
  <2>3. Numbered(s, posted)
    BY <1>3, <2>2 DEF Numbered
  <2>4. FrameTypes'
    <3>1. serving' \subseteq Works
      BY <1>1, <2>1, <2>2 DEF FrameTypes
    <3> QED BY <1>1, <1>2, <2>1, <3>1 DEF FrameTypes
  <2>5. WorkKept' /\ AnswersKept'
    BY <1>1, <2>1, <2>2, <2>3 DEF WorkKept, AnswersKept
  <2>6. \A n : IsUnderWay(n) => IsUnderWay(n)'
    BY <1>2, <2>1, <2>2 DEF IsUnderWay
  <2> QED BY <1>1, <1>3, <2>4, <2>5, <2>6, FrameWorks
<1> QED BY <1>4, <1>5

\* Work ends in an answer.
LEMMA ServedKeeps ==
  ASSUME FrameInv, NEW s \in serving, NEW res \in Results, NEW cdn \in Cdns, Served(s, res, cdn),
         posted[s.n].op = "fetch" => FetchPassedOn(posted[s.n].chunk, Told("fetch", res), cdn),
         frameCache' \in [FrameChunks -> Bodies], UNCHANGED <<posted, pending, closed, toFrame>>
  PROVE  FrameInv'
<1>1. /\ FrameTypes /\ RequestsKept /\ WorkKept /\ AnswersKept
      /\ serving' = serving \ {s} /\ Reply(s, res, cdn)
      /\ posted' = posted /\ pending' = pending /\ closed' = closed /\ toFrame' = toFrame
  BY DEF FrameInv, Served
<1>2. s.id \in Nat /\ s.n \in Nat /\ Numbered(s, posted)
  BY <1>1 DEF FrameTypes, Works, WorkKept
<1>3. /\ toPage' \in Seq(Answers) /\ AnswersKept'
      /\ \A i \in DOMAIN toPage : i \in DOMAIN toPage' /\ toPage'[i] = toPage[i]
      /\ \E i \in DOMAIN toPage' : toPage'[i].n = s.n
  BY <1>1, <1>2, ReplyFacts
<1>4. FrameTypes' /\ WorkKept' /\ RequestsKept'
  BY <1>1, <1>3 DEF FrameTypes, WorkKept, RequestsKept
<1>5. \A n : IsUnderWay(n) => IsUnderWay(n)'
  BY <1>1, <1>3 DEF IsUnderWay
<1> QED BY <1>1, <1>3, <1>4, <1>5, FrameWorks

\* Or goes on, for the same call.
LEMMA WorkGoesOn ==
  ASSUME FrameInv, NEW s \in serving, NEW t \in Works, t.id = s.id, t.n = s.n,
         t.at = "keep" => t.body # "none", serving' = (serving \ {s}) \cup {t},
         toPage' = toPage, frameCache' = frameCache, UNCHANGED <<posted, pending, closed, toFrame>>
  PROVE  FrameInv'
<1>1. /\ FrameTypes /\ RequestsKept /\ WorkKept /\ AnswersKept
      /\ posted' = posted /\ pending' = pending /\ closed' = closed /\ toFrame' = toFrame
  BY DEF FrameInv
<1>2. Numbered(t, posted)
  BY <1>1 DEF WorkKept, Numbered
<1>3. serving' \subseteq Works
  BY <1>1 DEF FrameTypes
<1>4. FrameTypes'
  BY <1>1, <1>3 DEF FrameTypes
<1>5. RequestsKept' /\ WorkKept' /\ AnswersKept'
  BY <1>1, <1>2 DEF RequestsKept, WorkKept, AnswersKept
<1>6. \A n : IsUnderWay(n) => IsUnderWay(n)'
  BY <1>1 DEF IsUnderWay
<1> QED BY <1>1, <1>4, <1>5, <1>6, FrameWorks

LEMMA ServeKeeps ==
  ASSUME FrameInv, Serve
  PROVE  FrameInv'
<1>1. PICK s \in serving : ServeStore(s) \/ FetchCached(s) \/ FetchFromCdn(s) \/ KeepFetched(s)
  BY DEF Serve
<1>2. /\ FrameTypes /\ WorkKept /\ UNCHANGED <<posted, pending, closed, toFrame>>
  BY DEF Serve, FrameInv
<1>3. s \in Works /\ s.n \in 1..Len(posted) /\ posted[s.n] \in Calls
  BY <1>2 DEF FrameTypes, WorkKept, Numbered
<1> PICK c : c = Chunk(s)
  OBVIOUS
<1>4. c \in FrameChunks /\ c = posted[s.n].chunk /\ Op(s) = posted[s.n].op
      /\ frameCache[c] \in Bodies
  BY <1>2, <1>3 DEF Chunk, Op, Calls, FrameTypes
<1>5. "none" \in Cdns /\ "none" \in Bodies /\ "good" \in Bodies /\ "internal" \in Codes
      /\ "quota" \in Codes
  BY DEF Cdns, Bodies, Codes
<1>6. CASE Fails(s)
  <2>1. Refused("internal") \in Results
        /\ FetchPassedOn(c, Told("fetch", Refused("internal")), "none")
    BY <1>5, RefusedPassesOn
  <2> QED BY <1>2, <1>4, <1>5, <1>6, <2>1, ServedKeeps DEF Fails, FrameTypes
<1>7. CASE ServeStore(s)
  <2>1. posted[s.n].op # "fetch"
    BY <1>4, <1>7 DEF ServeStore
  <2>2. Ok([chunk |-> c, body |-> frameCache[c]]) \in Results /\ Ok("null") \in Results
    BY <1>4 DEF Ok, Results, Values
  <2>3. Refused("quota") \in Results
    BY <1>5 DEF Refused, Results
  <2>4. CASE Served(s, Ok([chunk |-> c, body |-> frameCache[c]]), "none") /\ UNCHANGED frameCache
    BY <1>2, <1>5, <2>1, <2>2, <2>4, ServedKeeps DEF FrameTypes
  <2>5. CASE Served(s, Ok("null"), "none") /\ frameCache' = [frameCache EXCEPT ![c] = "good"]
    <3>1. frameCache' \in [FrameChunks -> Bodies]
      BY <1>2, <1>5, <2>5 DEF FrameTypes
    <3> QED BY <1>2, <1>5, <2>1, <2>2, <2>5, <3>1, ServedKeeps
  <2>6. CASE Served(s, Refused("quota"), "none") /\ UNCHANGED frameCache
    BY <1>2, <1>5, <2>1, <2>3, <2>6, ServedKeeps DEF FrameTypes
  <2>7. CASE Served(s, Ok("null"), "none") /\ frameCache' = [frameCache EXCEPT ![c] = "none"]
    <3>1. frameCache' \in [FrameChunks -> Bodies]
      BY <1>2, <1>5, <2>7 DEF FrameTypes
    <3> QED BY <1>2, <1>5, <2>1, <2>2, <2>7, <3>1, ServedKeeps
  <2> QED BY <1>6, <1>7, <2>4, <2>5, <2>6, <2>7 DEF ServeStore
<1>8. CASE FetchCached(s)
  <2>1. CASE Served(s, Fetched(s, frameCache[c], TRUE, FALSE), "none") /\ UNCHANGED frameCache
    <3> PICK res : res = Fetched(s, frameCache[c], TRUE, FALSE)
      OBVIOUS
    <3>1. res \in Results /\ FetchPassedOn(c, Told("fetch", res), "none")
      BY <1>4, <1>5, OkPassesOn DEF Fetched
    <3> QED BY <1>2, <1>4, <1>5, <2>1, <3>1, ServedKeeps DEF FrameTypes
  <2>2. CASE /\ serving' = (serving \ {s}) \cup {[s EXCEPT !.at = "cdn"]}
             /\ UNCHANGED <<toPage, frameCache>>
    <3> PICK t : t = [s EXCEPT !.at = "cdn"]
      OBVIOUS
    <3>1. t \in Works /\ t.id = s.id /\ t.n = s.n /\ t.at = "cdn"
      BY <1>3 DEF Works
    <3> QED BY <1>2, <2>2, <3>1, WorkGoesOn
  <2> QED BY <1>6, <1>8, <2>1, <2>2 DEF FetchCached
<1>9. CASE FetchFromCdn(s)
  <2>1. PICK cdn \in CdnAnswers :
          CASE cdn \in {"good", "bad"} ->
                 /\ serving' = (serving \ {s}) \cup {[s EXCEPT !.at = "keep", !.body = cdn]}
                 /\ UNCHANGED toPage
            [] cdn \in {"short", "down"} -> Served(s, Refused("network"), cdn)
            [] OTHER -> Served(s, Refused(cdn), cdn)
    BY <1>9 DEF FetchFromCdn
  <2>2. frameCache' = frameCache /\ cdn \in Cdns
    BY <1>9 DEF FetchFromCdn, Cdns
  <2>3. CASE cdn \in {"good", "bad"}
    <3> PICK t : t = [s EXCEPT !.at = "keep", !.body = cdn]
      OBVIOUS
    <3>1. serving' = (serving \ {s}) \cup {t} /\ toPage' = toPage
      BY <2>1, <2>3
    <3>2. t \in Works /\ t.id = s.id /\ t.n = s.n /\ t.body # "none"
      <4>1. cdn \in Bodies /\ cdn # "none"
        BY <2>3 DEF Bodies
      <4> QED BY <1>3, <4>1 DEF Works
    <3> QED BY <1>2, <2>2, <3>1, <3>2, WorkGoesOn
  <2>4. CASE cdn \in {"short", "down"}
    <3>1. Served(s, Refused("network"), cdn)
      BY <2>1, <2>4
    <3>2. Refused("network") \in Results
          /\ FetchPassedOn(c, Told("fetch", Refused("network")), cdn)
      BY <2>2, <2>4, RefusedPassesOn DEF Codes
    <3> QED BY <1>2, <1>4, <2>2, <3>1, <3>2, ServedKeeps DEF FrameTypes
  <2>5. CASE cdn \in {"http_404", "http_503"}
    <3>1. Served(s, Refused(cdn), cdn)
      BY <2>1, <2>5
    <3>2. Refused(cdn) \in Results /\ FetchPassedOn(c, Told("fetch", Refused(cdn)), cdn)
      BY <2>2, <2>5, RefusedPassesOn DEF Codes
    <3> QED BY <1>2, <1>4, <2>2, <3>1, <3>2, ServedKeeps DEF FrameTypes
  <2> QED BY <2>3, <2>4, <2>5 DEF CdnAnswers
<1>10. CASE KeepFetched(s)
  <2>1. s.at = "keep" /\ s.body \in Bodies \ {"none"} /\ s.body \in Cdns
    BY <1>2, <1>3, <1>10 DEF KeepFetched, WorkKept, Works, Bodies, Cdns, CdnAnswers
  <2>2. PICK quota \in BOOLEAN : Served(s, Fetched(s, s.body, FALSE, quota), s.body)
    BY <1>10 DEF KeepFetched
  <2>3. frameCache' \in [FrameChunks -> Bodies]
    BY <1>2, <1>4, <1>10, <2>1 DEF KeepFetched, FrameTypes
  <2> PICK res : res = Fetched(s, s.body, FALSE, quota)
    OBVIOUS
  <2>4. res \in Results /\ FetchPassedOn(c, Told("fetch", res), s.body)
    <3>1. s.body # "none" /\ s.body \in Bodies
      BY <2>1
    <3> QED BY <1>4, <2>1, <3>1, OkPassesOn DEF Fetched
  <2> QED BY <1>2, <1>4, <2>1, <2>2, <2>3, <2>4, ServedKeeps
<1> QED BY <1>1, <1>7, <1>8, <1>9, <1>10

LEMMA FrameInvIsSound ==
  ASSUME FrameInv
  PROVE  FrameCallsAreSound
<1>1. DOMAIN posted = 1..Len(posted) /\ \A n \in 1..Len(posted) : posted[n] \in Calls /\ CallKept(n)
  BY DEF FrameInv, FrameTypes
<1>2. ASSUME NEW n \in DOMAIN posted
      PROVE  Len(posted[n].settled) <= 1 /\ SettledFits(n, posted[n])
  <2>1. CASE n \in DOMAIN pending
    <3>1. Len(posted[n].settled) = 0
      BY <1>1, <2>1 DEF CallKept
    <3> QED BY <1>1, <3>1 DEF CallKept
  <2>2. CASE n \notin DOMAIN pending
    <3>1. CallKept(n)
      BY <1>1
    <3>2. Len(posted[n].settled) = 1 /\ SettledFits(n, posted[n])
      BY <2>2, <3>1 DEF CallKept
    <3> QED BY <3>2
  <2> QED BY <2>1, <2>2
<1>3. AnswersAreTheirOwn
  BY <1>2 DEF AnswersAreTheirOwn, SettledFits
<1>4. NoCallIsForgotten
  <2> SUFFICES ASSUME NEW n \in DOMAIN posted, posted[n].settled = <<>>
               PROVE  \/ \E m \in ToSet(toFrame) \cup ToSet(toPage) : m.n = n
                      \/ \E s \in serving : s.n = n
    BY DEF NoCallIsForgotten
  <2>1. Len(posted[n].settled) = 0
    OBVIOUS
  <2>2. IsUnderWay(n)
    <3>1. CallKept(n)
      BY <1>1
    <3>2. n \in DOMAIN pending
      BY <2>1, <3>1 DEF CallKept
    <3> QED BY <3>1, <3>2 DEF CallKept
  <2> QED BY <2>2 DEF IsUnderWay, ToSet
<1>5. FramePassesOnTheNetwork
  BY <1>2 DEF FramePassesOnTheNetwork, SettledFits, FetchPassedOn
<1> QED BY <1>3, <1>4, <1>5 DEF FrameCallsAreSound

\* Any number of calls of a page on its frame, served in any order, with timers,
\* signals and the client's end at any moment: a call is settled once and by its
\* own answer, one that waits has its request, work or answer under way, and what
\* a fetch is told is what the CDN said (FrameClient and CrossSiteStore,
\* cache/crosssite.ts; FrameServer, cache/frameServer.ts).
THEOREM FrameCallsStaySound == FCSpec => []FrameCallsAreSound
<1>1. FrameInv /\ [FCNext]_fcVars => FrameInv'
  <2>1. CASE UNCHANGED fcVars
    <3>1. FrameTypes' <=> FrameTypes
      BY <2>1 DEF fcVars, FrameTypes
    <3>2. (PendingKept' <=> PendingKept) /\ (RequestsKept' <=> RequestsKept)
          /\ (WorkKept' <=> WorkKept) /\ (AnswersKept' <=> AnswersKept)
      BY <2>1 DEF fcVars, PendingKept, RequestsKept, WorkKept, AnswersKept
    <3>3. ASSUME NEW n PROVE CallKept(n)' <=> CallKept(n)
      BY <2>1 DEF fcVars, CallKept, IsUnderWay
    <3>4. posted' = posted /\ closed' = closed /\ pending' = pending
      BY <2>1 DEF fcVars
    <3> QED BY <3>1, <3>2, <3>3, <3>4 DEF FrameInv
  <2> QED BY <2>1, PostKeeps, GiveUpKeeps, CloseKeeps, ReceiveKeeps, TakeRequestKeeps,
             ServeKeeps DEF FCNext
<1> QED BY <1>1, FrameInitInv, FrameInvIsSound, PTL DEF FCSpec

=============================================================================
