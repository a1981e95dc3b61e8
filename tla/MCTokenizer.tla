---------------------------- MODULE MCTokenizer -----------------------------
(***************************************************************************)
(* Text to tokens and back, on every short text: merges against the greedy *)
(* definition, added tokens, the chat template, streamed text, and the     *)
(* tokenizer's files from the store.                                       *)
(***************************************************************************)
EXTENDS MCAlgorithms, Tokenizer

-----------------------------------------------------------------------------
(* Byte pair encoding: every list of three merges of what there was before *)
(* ("a" and "b", then earlier merges), every piece of five letters.        *)

Made(merges) == {<<"a">>, <<"b">>} \cup {merges[m][1] \o merges[m][2] : m \in DOMAIN merges}

Grown(lists) == UNION {{Append(l, pair) : pair \in Made(l) \X Made(l)} : l \in lists}

MergeLists == {l \in Grown(Grown(Grown({<<>>}))) : IsInjective(l)}

BpeTasks == [kind : {"bpe"}, merges : MergeLists, piece : BoundedSeq({"a", "b"}, 5)]

EncodePiece == Run("bpe", [symbols |-> Bpe(task.merges, task.piece)])

\* Byte pair encoding as it is defined: one pair at a time, of the lowest rank,
\* the leftmost.
RECURSIVE Greedy(_, _)
Greedy(merges, symbols) ==
  LET ranks == {r \in DOMAIN merges : merges[r] \in PairsOf(symbols)}
      pair  == merges[Min(ranks)]
      at    == Min({i \in 1..(Len(symbols) - 1) : <<symbols[i], symbols[i + 1]>> = pair})
  IN  IF ranks = {} THEN symbols
      ELSE Greedy(merges, SubSeq(symbols, 1, at - 1) \o <<pair[1] \o pair[2]>>
                          \o SubSeq(symbols, at + 2, Len(symbols)))

\* Joining every occurrence of a pair at once, as bpe() does, gives the tokens
\* that the definition gives pair by pair, whatever the merges make of each
\* other and however their occurrences overlap ("encodes all 200 cases exactly
\* like the HF tokenizer", tokenizer.test.ts).
BpeIsGreedy ==
  Ran("bpe") => result.symbols = Greedy(task.merges, SymbolsOf(task.piece))

-----------------------------------------------------------------------------
(* Texts of four characters, with added tokens of which one begins another *)
(* and merges that join spaces, letters and half characters.               *)

ByteList == <<"a", "b", "S", "1", " ", "\n", "'", "^", "<", ">", "x", "y">>

Merges ==
  <<<<<<" ">>, <<"a">>>>, <<<<"y">>, <<"a">>>>, <<<<"a">>, <<"b">>>>, <<<<" ", "a">>, <<"b">>>>,
    <<<<" ">>, <<" ">>>>, <<<<">">>, <<"\n">>>>>>

Tk == TokenizerOf(ByteList, Merges, <<<<"<">>, ImEnd, ImStart>>)

TextTasks == [kind : {"text"}, text : BoundedSeq(Alphabet, 4)]

EncodeAll ==
  Run("text", LET first == Encode(Tk, <<>>, task.text)
                  again == Encode(Tk, first.cache, task.text)
              IN  [ids |-> first.out, again |-> again.out, text |-> DecodeIds(Tk, first.out),
                   streamed |-> Deltas(Tk, first.out)])

\* Where an added token begins in the raw text: the leftmost, and there the
\* longest.
RECURSIVE Cuts(_, _)
Cuts(text, from) ==
  LET tokens == ToSet(Tk.added)
      here   == {i \in from..Len(text) : \E a \in tokens : MatchesAt(text, i, a)}
      i      == Min(here)
      n      == Max({Len(a) : a \in {a \in tokens : MatchesAt(text, i, a)}})
  IN  IF here = {} THEN <<>> ELSE <<<<i, i + n>>>> \o Cuts(text, i + n)

\* NFC between the cuts, and the cuts as they are.
Plain(text) ==
  LET cuts == Cuts(text, 1)
      from(c) == IF c = 0 THEN 1 ELSE cuts[c][2]
      to(c)   == IF c = Len(cuts) THEN Len(text) ELSE cuts[c + 1][1] - 1
  IN  FlattenSeq([c \in 1..(Len(cuts) + 1) |->
        (IF c = 1 THEN <<>> ELSE SubSeq(text, cuts[c - 1][1], cuts[c - 1][2] - 1))
        \o Normalized(SubSeq(text, from(c - 1), to(c - 1)))])

\* Encoding loses nothing and never breaks an added token up: decoded, a text
\* is itself, composed between its added tokens; and a cache that was filled,
\* or cleared on the way, changes no token ("round-trips unicode through
\* encode/decode", tokenizer.test.ts).
TextComesBack ==
  Ran("text") =>
    /\ result.text = Plain(task.text)
    /\ result.again = result.ids
    /\ Len(SelectSeq(result.ids, LAMBDA id : id > Len(Tk.vocab))) = Len(Cuts(task.text, 1))

\* A token that ends inside a character leaves its first byte for a later one.
CutAt(n) == /\ n < Len(result.ids)
            /\ result.ids[n] <= Len(Tk.vocab)
            /\ Last(Tk.vocab[result.ids[n]]) = "x"

\* The text that run() returns is the whole of what its tokens decode to, however
\* it grew; and where every token ends with a character, the deltas onToken was
\* given join to it, the replacements of lone bytes in the middle included.
WholeTokensAreTold ==
  Ran("text") =>
    /\ result.streamed.text = result.text
    /\ (\A n \in DOMAIN result.ids : ~CutAt(n)) => result.streamed.told = result.text

\* What run() tells onToken joins to the text it returns ("expect(r.text).
\* toBe(deltas.join(""))", run.test.ts; the pages append every delta to what they
\* show). Violated: of a character that two tokens share, the first delta is the
\* replacement, and the second, taken by its length, is empty.
DeltasAreTheText ==
  Ran("text") => result.streamed.told = result.text

\* Texts alone.
TextSpec == task \in TextTasks /\ result = <<>> /\ [][EncodeAll]_vars

-----------------------------------------------------------------------------
(* Conversations of up to three messages.                                  *)

ChatTasks ==
  [kind : {"chat"}, prompt : BOOLEAN,
   messages : BoundedSeq([role : {"S", "a", "1"}, content : {<<>>, <<"a", "b">>, <<"a", "^">>}], 3)]

Converse ==
  Run("chat", LET text == RenderChat(task.messages, task.prompt)
                  ids  == Encode(Tk, <<>>, text).out
              IN  [specials |-> SelectSeq(ids, LAMBDA id : id > Len(Tk.vocab)),
                   text |-> DecodeIds(Tk, ids)])

\* A conversation reaches the model with each message between its two special
\* tokens, a system message first in any case, and an open turn last when the
\* model is to go on ("add_generation_prompt", chat.ts).
ChatIsFramed ==
  Ran("chat") =>
    LET idOf(token) == AddedId(Tk, CHOOSE n \in DOMAIN Tk.added : Tk.added[n] = token)
        given  == task.messages # <<>> /\ task.messages[1].role = "S"
        turns  == Len(task.messages) + (IF given THEN 0 ELSE 1)
        frame  == FlattenSeq([t \in 1..turns |-> <<idOf(ImStart), idOf(ImEnd)>>])
    IN  /\ result.specials = frame \o (IF task.prompt THEN <<idOf(ImStart)>> ELSE <<>>)
        /\ \A m \in DOMAIN task.messages :
             \E i \in DOMAIN result.text :
               MatchesAt(result.text, i, ImStart \o <<task.messages[m].role, "\n">>
                                         \o Normalized(task.messages[m].content) \o ImEnd)
        /\ result.text[Len(ImStart) + 1] = "S"

-----------------------------------------------------------------------------
(* Files as the ingest publishes them, with one answer of the CDN that may *)
(* be missing or wrong.                                                    *)

StoreTasks ==
  [kind : {"store"}, bytes : BoundedSeq({0, 1}, MaxFile), broken : 0..2, as : {"lost", "other"}]

FetchFile ==
  Run("store",
    LET file == PackFile(task.bytes)
        sick == {file.chunks[c] : c \in {task.broken} \cap DOMAIN file.chunks}
        other(chunk) == [ok |-> task.as = "other", body |-> [i \in DOMAIN chunk |-> 2]]
    IN  FetchStoreFile(file.segments,
          [chunk \in ToSet(file.chunks) |->
             IF chunk \in sick THEN other(chunk) ELSE [ok |-> TRUE, body |-> chunk]]))

\* The tokenizer is built from the bytes that were published, or not at all,
\* whatever the CDN answers for one chunk; an empty file is no exception here.
FileIsVerified ==
  Ran("store") =>
    LET broken == task.broken \in DOMAIN PackFile(task.bytes).chunks
    IN  /\ result.failed <=> broken
        /\ ~result.failed => result.bytes = task.bytes

\* Text goes to the model and comes back as it should: all five.
TokenizerIsExact ==
  BpeIsGreedy /\ TextComesBack /\ WholeTokensAreTold /\ ChatIsFramed /\ FileIsVerified

-----------------------------------------------------------------------------
TokenizerTasks == BpeTasks \cup TextTasks \cup ChatTasks \cup StoreTasks

Tokenizing == EncodePiece \/ EncodeAll \/ Converse \/ FetchFile
=============================================================================
