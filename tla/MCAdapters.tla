----------------------------- MODULE MCAdapters -----------------------------
(***************************************************************************)
(* The adapters: every prewarm of a small artifact that is stopped and run *)
(* again over every cache, and every short sequence of calls on the cache  *)
(* of Transformers.js.                                                     *)
(***************************************************************************)
EXTENDS Bench, Adapters

MlcFiles == <<ConfigFile, <<"shard_0.bin">>, <<"README.md">>, <<"tokenizer.json">>>>

ModelUrls ==
  {<<"cdn", "mlc">>, <<"hub", "m", "resolve", "v1">>, <<"hub", "m", "resolve">>}

PrewarmTasks ==
  UNION {[kind : {"prewarm"}, url : {url},
          asked : {MlcFiles, <<ConfigFile, <<"tokenizer.json">>>>, <<<<"other.bin">>, ConfigFile>>},
          held : SUBSET UNION {ToSet(CacheTargets(MlcFiles[n], url)) : n \in {1, 2, 4}},
          puts : 0..4] : url \in ModelUrls}

\* Once as it is stopped, once to its end.
PrewarmTwice ==
  Run("prewarm",
    LET first  == Prewarm(MlcFiles, task.asked, task.url, task.held, task.puts)
        second == Prewarm(MlcFiles, task.asked, task.url, first.held, 2 * Len(MlcFiles))
    IN  [first |-> first, second |-> second])

\* Where WebLLM looks: its configuration in a cache of its own, everything else
\* in the model's; the prewarm of an artifact that is there streams nothing.
WebLLMFinds(file, url, held) ==
  [cache |-> IF file = ConfigFile THEN "config" ELSE "model",
   url   |-> NormalizeModelUrl(url) \o file] \in held

\* However an earlier prewarm ended, the next one that returns leaves every file
\* WebLLM asks for in each of its caches, having streamed just the files of
\* which a cache lacked one; nothing else is put, and a third run would stream
\* nothing ("finds every shard already cached and fetches nothing from the model
\* URL", webllm.ts). A URL made canonical stays as it is.
PrewarmIsComplete ==
  Ran("prewarm") =>
    LET r     == result.second
        url   == task.url
        asked == {f \in ToSet(task.asked) : f # <<"README.md">>}
        all(files) == UNION {ToSet(CacheTargets(f, url)) : f \in files}
    IN  /\ NormalizeModelUrl(NormalizeModelUrl(url)) = NormalizeModelUrl(url)
        /\ r.failed <=> ~(asked \subseteq ToSet(MlcFiles))
        /\ ~r.failed =>
             /\ r.held = task.held \cup all(asked)
             /\ \A f \in asked : WebLLMFinds(f, url, r.held)
             /\ ToSet(Prewarm(MlcFiles, task.asked, url, r.held, 0).skipped) = asked
        /\ \A f \in asked :
             f \in ToSet(r.files) <=> ~(ToSet(CacheTargets(f, url)) \subseteq result.first.held)
        /\ ~result.first.failed => r.files = <<>>

-----------------------------------------------------------------------------
OnnxFiles == <<<<"config.json">>, <<"model.onnx">>, <<"onnx", "model.onnx">>>>

CachePaths ==
  {<<"config.json">>, <<"m", "config.json">>, <<"m", "onnx", "model.onnx">>,
   <<"m", "tokenizer.json">>, <<"m", "config.json", "raw">>}

CacheCalls ==
  [op : {"match", "put"}, path : CachePaths, manifest : BOOLEAN, stream : {TRUE}]
    \cup [op : {"match"}, path : CachePaths, manifest : {TRUE}, stream : {FALSE}]

CacheTasks == [kind : {"cache"}, calls : UNION {[1..n -> CacheCalls] : n \in 1..2}]

CallCache ==
  Run("cache", FoldLeft(LAMBDA s, call : CacheCall(s, call, OnnxFiles), CacheStart, task.calls))

\* The artifact and the fallback never answer for each other: a key that ends in
\* the name of a file, at a segment's boundary, gets the longest such file and is
\* never stored beside it; any other key gets what was put under it. A call fails
\* only for its own requests: a manifest that could not be had is asked for again.
CacheKeepsApart ==
  Ran("cache") =>
    \A n \in DOMAIN task.calls :
      LET call    == task.calls[n]
          a       == result.answers[n]
          covered == {f \in ToSet(OnnxFiles) : \E k \in DOMAIN call.path :
                        SubSeq(call.path, k, Len(call.path)) = f}
          had     == \E k \in 1..n : task.calls[k].manifest
      IN  /\ covered # {} => call.path \notin result.fallback
          /\ a.kind = "file" => a.file \in covered /\ \A f \in covered : Len(f) <= Len(a.file)
          /\ a.kind = "failed" <=> ~had \/ (call.op = "match" /\ covered # {} /\ ~call.stream)
          /\ call.op = "match" /\ a.kind # "failed" =>
               /\ (a.kind = "file") <=> (covered # {})
               /\ (a.kind = "fallback") <=>
                    \E k \in 1..(n - 1) :
                      /\ task.calls[k].op = "put" /\ task.calls[k].path = call.path
                      /\ result.answers[k].kind = "done" /\ covered = {}

\* Other libraries get the artifact's files and their own: both.
AdaptersServeTheArtifact == PrewarmIsComplete /\ CacheKeepsApart

-----------------------------------------------------------------------------
AdapterTasks == PrewarmTasks \cup CacheTasks

Adapting == PrewarmTwice \/ CallCache
=============================================================================
