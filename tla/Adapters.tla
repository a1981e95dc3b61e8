------------------------------ MODULE Adapters ------------------------------
(***************************************************************************)
(* The SDK's adapters: prewarmWebLLM, which puts an artifact's files where *)
(* WebLLM looks for them (adapters/webllm.ts), and dianomeCache, the cache *)
(* Transformers.js is given (adapters/transformersjs.ts). A URL or a path  *)
(* is the sequence of its segments; a file's name too; a stream of files   *)
(* gives them in the order asked for.                                      *)
(***************************************************************************)
EXTENDS Naturals, Sequences, SequencesExt, FiniteSets

-----------------------------------------------------------------------------
(* WebLLM.                                                                 *)

\* cleanModelUrl of WebLLM: a revision is named, or it is main.
NormalizeModelUrl(url) ==
  IF \E i \in 1..(Len(url) - 1) : url[i] = "resolve" THEN url ELSE url \o <<"resolve", "main">>

ConfigFile == <<"mlc-chat-config.json">>

\* Seeded fault: every file goes to the one cache of the model.
CacheTargetsOnce(file, url) ==
  <<[cache |-> "model", url |-> NormalizeModelUrl(url) \o file]>>

CacheTargets(file, url) ==
  LET at(cache) == [cache |-> cache, url |-> NormalizeModelUrl(url) \o file]
  IN  IF file = ConfigFile THEN <<at("config"), at("model")>> ELSE <<at("model")>>

IsWebLLMFile(file) == Head(file) \notin {"README.md", ".gitattributes", "LICENSE"}

\* Seeded fault: a file is there when one of its caches has it.
PresentSomewhere(file, url, held) ==
  \E n \in DOMAIN CacheTargets(file, url) : CacheTargets(file, url)[n] \in held

Present(file, url, held) == ToSet(CacheTargets(file, url)) \subseteq held

\* prewarmWebLLM of the files `asked`, of an artifact of `files`, over caches
\* that hold `held`; the stream, a put or the signal ends it after `puts` puts.
Prewarm(files, asked, url, held, puts) ==
  LET wanted  == SelectSeq(asked, IsWebLLMFile)
      todo    == SelectSeq(wanted, LAMBDA f : ~Present(f, url, held))
      due     == FlattenSeq([n \in DOMAIN todo |-> CacheTargets(todo[n], url)])
      unknown == ~(ToSet(todo) \subseteq ToSet(files))
      ended   == unknown \/ puts < Len(due)
  IN  [files   |-> todo,
       skipped |-> SelectSeq(wanted, LAMBDA f : Present(f, url, held)),
       held    |-> held \cup (IF unknown THEN {}
                              ELSE {due[n] : n \in {n \in DOMAIN due : n <= puts}}),
       failed  |-> ended]

-----------------------------------------------------------------------------
(* Transformers.js.                                                        *)

\* Seeded fault: the first file that fits, not the longest.
ResolveFirst(path, files) ==
  LET fit == SelectSeq(files, LAMBDA f : IsSuffix(f, path))
  IN  IF fit = <<>> THEN <<>> ELSE Head(fit)

\* The file whose name ends the path, the longest; or <<>>.
ResolveFile(path, files) ==
  FoldLeft(LAMBDA best, f : IF IsSuffix(f, path) /\ Len(f) > Len(best) THEN f ELSE best,
           <<>>, files)

\* Calls on one cache, one after another: `manifest` and `stream` are whether
\* those requests succeed, if they are made. What the fallback cache holds is
\* by key; `known` is the manifest's promise, dropped when it fails.
CacheStart == [known |-> FALSE, fallback |-> {}, answers |-> <<>>]

CacheCall(s, call, files) ==
  LET known  == s.known \/ call.manifest
      file   == ResolveFile(call.path, files)
      answer == CASE ~known -> [kind |-> "failed"]
                  [] known /\ call.op = "match" /\ file # <<>> ->
                       IF call.stream THEN [kind |-> "file", file |-> file] ELSE [kind |-> "failed"]
                  [] known /\ call.op = "match" /\ file = <<>> ->
                       IF call.path \in s.fallback THEN [kind |-> "fallback"] ELSE [kind |-> "nothing"]
                  [] OTHER -> [kind |-> "done"]
  IN  [known    |-> known,
       fallback |-> IF known /\ call.op = "put" /\ file = <<>>
                    THEN s.fallback \cup {call.path} ELSE s.fallback,
       answers  |-> Append(s.answers, answer)]
=============================================================================
