---------------------------- MODULE FrameChannel ----------------------------
(***************************************************************************)
(* Calls of a page on the cache frame it has opened and been granted:      *)
(* FrameClient and CrossSiteStore in the page (cache/crosssite.ts), the    *)
(* messages both ways (cache/protocol.ts), and FrameServer in the frame    *)
(* (cache/frameServer.ts, cache-frame/src/frame.ts).                       *)
(*                                                                         *)
(* Messages keep their order on the way; the frame works on all requests   *)
(* at once. CrossSite has how a frame is opened and granted, PerSiteStore  *)
(* what a step of its store is made of: here it is one, and may throw.     *)
(* A body is "good" or "bad" (the right length, the wrong bytes).          *)
(***************************************************************************)
EXTENDS Integers, Sequences, SequencesExt, FiniteSetsExt

CONSTANTS
  FrameChunks,       \* the chunks asked for
  MaxPosts           \* bound: the calls a page makes

VARIABLES
  posted,             \* the calls in order: [op, chunk, settled]; settled is how
  pending,           \* FrameClient.pending: id -> the call's place in `posted`
  closed,            \* FrameClient.closed
  toFrame,           \* messages under way: [id, form, n]; n, their call, is not
  toPage,            \* in the message (only the properties and Op look at it)
  serving,           \* what the frame works on: [id, n, at, body]
  frameCache             \* the frame's cache: chunk -> body, or "none"

fcVars == <<posted, pending, closed, toFrame, toPage, serving, frameCache>>

FrameOps == {"get", "put", "evict", "fetch"}

FCInit ==
  /\ posted = <<>> /\ pending = <<>> /\ closed = FALSE
  /\ toFrame = <<>> /\ toPage = <<>> /\ serving = {}
  /\ frameCache = [c \in FrameChunks |-> "none"]

-----------------------------------------------------------------------------
(* The page.                                                               *)

\* Seeded fault: a number is used again once its call is settled.
NextFreeId == Cardinality(DOMAIN pending) + 1

NextId == Len(posted) + 1

\* callWithMeta: of a request the frame can read, or cannot (a name that is no
\* SHA-256, a length of zero).
Post(op, chunk, form) ==
  /\ Len(posted) < MaxPosts
  /\ LET call == [op |-> op, chunk |-> chunk, settled |-> <<>>]
     IN  IF closed
         THEN /\ posted' = Append(posted, [call EXCEPT !.settled = <<[how |-> "closed"]>>])
              /\ UNCHANGED <<pending, toFrame>>
         ELSE /\ posted' = Append(posted, call)
              /\ pending' = [id \in DOMAIN pending \cup {NextId} |->
                               IF id = NextId THEN Len(posted) + 1 ELSE pending[id]]
              /\ toFrame' = Append(toFrame, [id |-> NextId, form |-> form, n |-> Len(posted) + 1])
  /\ UNCHANGED <<closed, toPage, serving, frameCache>>

Settle(ids, as) ==
  LET placed == {pending[id] : id \in ids}
  IN  /\ posted' = [n \in DOMAIN posted |->
                     IF n \in placed THEN [posted[n] EXCEPT !.settled = Append(@, as)] ELSE posted[n]]
      /\ pending' = [id \in DOMAIN pending \ ids |-> pending[id]]

\* The call's timer fires, or its signal.
GiveUp(how) ==
  /\ \E id \in DOMAIN pending : Settle({id}, [how |-> how])
  /\ UNCHANGED <<closed, toFrame, toPage, serving, frameCache>>

\* close(): the frame's document goes, and all that was under way with it.
CloseClient ==
  /\ ~closed /\ closed' = TRUE
  /\ Settle(DOMAIN pending, [how |-> "closed"])
  /\ toFrame' = <<>> /\ toPage' = <<>> /\ serving' = {}
  /\ UNCHANGED frameCache

\* Seeded fault: an error of the CDN is an error of the frame like any other.
ToldNoStatus(op, res) ==
  CASE res.ok -> [kind |-> "ok", value |-> res.value]
    [] ~res.ok /\ op = "put" /\ res.code = "quota" -> [kind |-> "quota"]
    [] OTHER -> [kind |-> "frame_error"]

\* What the store's caller is told: CrossSiteStore.put and fetch translate.
Told(op, res) ==
  CASE res.ok -> [kind |-> "ok", value |-> res.value]
    [] ~res.ok /\ op = "put" /\ res.code = "quota" -> [kind |-> "quota"]
    [] ~res.ok /\ op = "fetch" /\ res.code \in {"http_404", "http_503"} ->
         [kind |-> "chunk_http", status |-> res.code]
    [] ~res.ok /\ op = "fetch" /\ res.code = "network" -> [kind |-> "chunk_network"]
    [] OTHER -> [kind |-> "frame_error"]

\* onMessage: an answer nobody waits for is dropped.
ReceiveAnswer ==
  /\ toPage # <<>>
  /\ LET m == Head(toPage)
     IN  IF m.id \in DOMAIN pending
         THEN Settle({m.id}, [how |-> "answer", n |-> m.n, cdn |-> m.cdn,
                              told |-> Told(posted[pending[m.id]].op, m.res)])
         ELSE UNCHANGED <<posted, pending>>
  /\ toPage' = Tail(toPage)
  /\ UNCHANGED <<closed, toFrame, serving, frameCache>>

-----------------------------------------------------------------------------
(* The frame.                                                              *)

Reply(req, res, cdn) == toPage' = Append(toPage, [id |-> req.id, n |-> req.n, cdn |-> cdn, res |-> res])

Ok(value) == [ok |-> TRUE, value |-> value]
Refused(code) == [ok |-> FALSE, code |-> code]

\* The message handler: a request is served, or answered at once.
TakeRequest ==
  /\ toFrame # <<>> /\ toFrame' = Tail(toFrame)
  /\ LET req == Head(toFrame)
     IN  IF req.form = "malformed"
         THEN Reply(req, Refused("bad_request"), "none") /\ UNCHANGED serving
         ELSE /\ serving' = serving \cup {[id |-> req.id, n |-> req.n, at |-> "store",
                                           body |-> "none"]}
              /\ UNCHANGED toPage
  /\ UNCHANGED <<posted, pending, closed, frameCache>>

Op(s) == posted[s.n].op
Chunk(s) == posted[s.n].chunk

Served(s, res, cdn) == serving' = serving \ {s} /\ Reply(s, res, cdn)

\* Seeded fault: a request whose store throws is not answered.
FailsSilently(s) == serving' = serving \ {s} /\ UNCHANGED <<toPage, frameCache>>

\* handle() answers for whatever a step throws.
Fails(s) == Served(s, Refused("internal"), "none") /\ UNCHANGED frameCache

\* dispatch, but for fetch. The page puts bytes it has verified.
ServeStore(s) ==
  /\ s.at = "store" /\ Op(s) # "fetch"
  /\ \/ Fails(s)
     \/ /\ Op(s) = "get"
        /\ Served(s, Ok([chunk |-> Chunk(s), body |-> frameCache[Chunk(s)]]), "none")
        /\ UNCHANGED frameCache
     \/ /\ Op(s) = "put"
        /\ \/ Served(s, Ok("null"), "none") /\ frameCache' = [frameCache EXCEPT ![Chunk(s)] = "good"]
           \/ Served(s, Refused("quota"), "none") /\ UNCHANGED frameCache
     \/ /\ Op(s) = "evict"
        /\ Served(s, Ok("null"), "none") /\ frameCache' = [frameCache EXCEPT ![Chunk(s)] = "none"]

Fetched(s, body, fromCache, quota) ==
  Ok([chunk |-> Chunk(s), body |-> body, fromCache |-> fromCache, quota |-> quota])

\* fetchChunk, first: the frame's own cache.
FetchCached(s) ==
  /\ s.at = "store" /\ Op(s) = "fetch"
  /\ \/ Fails(s)
     \/ /\ frameCache[Chunk(s)] # "none"
        /\ Served(s, Fetched(s, frameCache[Chunk(s)], TRUE, FALSE), "none")
     \/ /\ frameCache[Chunk(s)] = "none"
        /\ serving' = (serving \ {s}) \cup {[s EXCEPT !.at = "cdn"]}
        /\ UNCHANGED toPage
  /\ UNCHANGED frameCache

CdnAnswers == {"good", "bad", "short", "down", "http_404", "http_503"}

\* Then the CDN: its status, and the length of what came.
FetchFromCdn(s) ==
  /\ s.at = "cdn"
  /\ \E cdn \in CdnAnswers :
       CASE cdn \in {"good", "bad"} ->
              /\ serving' = (serving \ {s}) \cup {[s EXCEPT !.at = "keep", !.body = cdn]}
              /\ UNCHANGED toPage
         [] cdn \in {"short", "down"} -> Served(s, Refused("network"), cdn)
         [] OTHER -> Served(s, Refused(cdn), cdn)
  /\ UNCHANGED frameCache

\* The chunk is delivered whatever becomes of the put.
KeepFetched(s) ==
  /\ s.at = "keep"
  /\ \/ /\ frameCache' = [frameCache EXCEPT ![Chunk(s)] = s.body]
        /\ Served(s, Fetched(s, s.body, FALSE, FALSE), s.body)
     \/ /\ UNCHANGED frameCache
        /\ \E quota \in BOOLEAN : Served(s, Fetched(s, s.body, FALSE, quota), s.body)

Serve ==
  /\ \E s \in serving : ServeStore(s) \/ FetchCached(s) \/ FetchFromCdn(s) \/ KeepFetched(s)
  /\ UNCHANGED <<posted, pending, closed, toFrame>>

FCNext ==
  \/ \E op \in FrameOps, chunk \in FrameChunks, form \in {"good", "malformed"} :
       Post(op, chunk, form)
  \/ GiveUp("timeout") \/ GiveUp("abort") \/ CloseClient \/ ReceiveAnswer
  \/ TakeRequest \/ Serve

FCSpec == FCInit /\ [][FCNext]_fcVars

-----------------------------------------------------------------------------
\* A call is settled once, and by nothing but the answer to its own request,
\* its timer, its signal or the end of the client: an answer that comes after
\* its call gave up settles no other ("correlates replies", crosssite.test.ts).
AnswersAreTheirOwn ==
  \A n \in DOMAIN posted :
    /\ Len(posted[n].settled) <= 1
    /\ \A k \in DOMAIN posted[n].settled :
         posted[n].settled[k].how = "answer" => posted[n].settled[k].n = n

\* A call that is still waiting has its request, the frame's work on it or its
\* answer under way: no timer is needed but for a frame that is gone.
NoCallIsForgotten ==
  \A n \in DOMAIN posted :
    posted[n].settled = <<>> =>
      \/ \E m \in ToSet(toFrame) \cup ToSet(toPage) : m.n = n
      \/ \E s \in serving : s.n = n

\* What fetchChunkOnce would have made of the same answer of the CDN: whether
\* withRetry tries again.
RetriedDirectly(cdn) == cdn \in {"short", "down", "http_503"}

Retried(told) ==
  told.kind = "chunk_network" \/ (told.kind = "chunk_http" /\ told.status = "http_503")

\* The frame stands for the network: a fetch through it that failed at the CDN
\* is tried again exactly when the page's own request would be, and one that did
\* not ask the CDN never is; what it delivers is said to come from the cache
\* exactly when the CDN was not asked ("maps http/network codes to ChunkError").
FramePassesOnTheNetwork ==
  \A n \in DOMAIN posted :
    \A k \in DOMAIN posted[n].settled :
      LET a == posted[n].settled[k]
      IN  posted[n].op = "fetch" /\ a.how = "answer" =>
            IF a.told.kind = "ok"
            THEN /\ a.told.value.chunk = posted[n].chunk
                 /\ a.told.value.fromCache <=> a.cdn = "none"
                 /\ a.cdn # "none" => a.told.value.body = a.cdn
            ELSE Retried(a.told) <=> RetriedDirectly(a.cdn)

\* A page's calls on the frame: all three.
FrameCallsAreSound == AnswersAreTheirOwn /\ NoCallIsForgotten /\ FramePassesOnTheNetwork
=============================================================================
