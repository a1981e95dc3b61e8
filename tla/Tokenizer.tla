----------------------------- MODULE Tokenizer ------------------------------
(***************************************************************************)
(* The byte-level BPE tokenizer (tokenizer.ts), the chat template          *)
(* (chat.ts), the tokenizer's files from the chunk store (loadTokenizer.ts)*)
(* and the text that run() streams from growing token lists (run.ts).      *)
(*                                                                         *)
(* Text is a sequence of characters of a small alphabet. "a^" is one       *)
(* character of two bytes, which NFC composes from "a" and the mark "^"; a *)
(* lone byte of it decodes to the replacement character. Tokens are byte   *)
(* sequences, ids are places in the vocabulary.                            *)
(***************************************************************************)
EXTENDS Integers, Sequences, SequencesExt, FiniteSetsExt

CONSTANTS
  CachedPieces       \* pieces the cache holds before it is cleared (50 000)

Letters == {"a", "b", "S", "a^"}
Digits == {"1"}
Newlines == {"\n"}
Spaces == {" "} \cup Newlines
Marks == {"'", "^", "<", ">"}
Alphabet == Letters \cup Digits \cup Spaces \cup Marks

Replacement == "?"

Utf8(c) == IF c = "a^" THEN <<"x", "y">> ELSE <<c>>

\* normalize("NFC").
Normalized(text) ==
  FoldLeft(LAMBDA out, c : IF c = "^" /\ out # <<>> /\ Last(out) = "a"
                           THEN Append(Front(out), "a^") ELSE Append(out, c),
           <<>>, text)

\* TextDecoder, not fatal.
TextOfBytes(bytes) ==
  LET joined == FoldLeft(LAMBDA out, b : IF b = "y" /\ out # <<>> /\ Last(out) = "x"
                                         THEN Append(Front(out), "a^") ELSE Append(out, b),
                         <<>>, bytes)
  IN  [i \in DOMAIN joined |-> IF joined[i] \in {"x", "y"} THEN Replacement ELSE joined[i]]

-----------------------------------------------------------------------------
(* The pre-tokenizer's pattern: its alternatives at position i, in order,  *)
(* each as the position after its match, or 0.                             *)

In(t, i, S) == i <= Len(t) /\ t[i] \in S

\* The end of a run of characters of S.
After(t, i, S) ==
  CHOOSE j \in i..(Len(t) + 1) : ~In(t, j, S) /\ \A k \in i..(j - 1) : In(t, k, S)

Alternatives(t, i) ==
  LET word    == IF t[i] \in Letters \cup Digits \cup Newlines THEN i ELSE i + 1
      marks   == IF t[i] = " " THEN i + 1 ELSE i
      blank   == After(t, i, Spaces)
      lines   == {j \in i..(blank - 1) : t[j] \in Newlines}
      wholly  == blank > i /\ blank > Len(t)
      allBut1 == blank > i + 1 /\ blank <= Len(t)
  IN  <<IF t[i] = "'" /\ In(t, i + 1, {"S"}) THEN i + 2 ELSE 0,      \* (?i:'s)
        IF In(t, word, Letters) THEN After(t, word, Letters) ELSE 0,
        IF t[i] \in Digits THEN i + 1 ELSE 0,
        IF In(t, marks, Marks) THEN After(t, After(t, marks, Marks), Newlines) ELSE 0,
        IF lines # {} THEN Max(lines) + 1 ELSE 0,                    \* \s*[\r\n]+
        CASE wholly -> blank [] allBut1 -> blank - 1 [] OTHER -> 0,  \* \s+(?!\S)
        IF blank > i THEN blank ELSE 0>>

MatchEnd(t, i) ==
  LET ends == Alternatives(t, i)
  IN  ends[Min({n \in DOMAIN ends : ends[n] > 0})]

\* matchAll.
Pieces(t) ==
  FoldLeft(LAMBDA s, i : IF i < s.next THEN s
                         ELSE [next |-> MatchEnd(t, i),
                               out |-> Append(s.out, SubSeq(t, i, MatchEnd(t, i) - 1))],
           [next |-> 1, out |-> <<>>], [i \in DOMAIN t |-> i]).out

-----------------------------------------------------------------------------
(* Byte pair encoding.                                                     *)

\* Seeded fault: pairs are taken from the right.
JoinedFromTheRight(symbols, pair) ==
  FoldRight(LAMBDA s, out : IF out # <<>> /\ out[1] = pair[2] /\ s = pair[1]
                            THEN <<pair[1] \o pair[2]>> \o Tail(out) ELSE <<s>> \o out,
            symbols, <<>>)

\* Every occurrence of a pair, from the left, becomes one symbol.
Joined(symbols, pair) ==
  FoldLeft(LAMBDA out, s : IF out # <<>> /\ Last(out) = pair[1] /\ s = pair[2]
                           THEN Append(Front(out), pair[1] \o pair[2]) ELSE Append(out, s),
           <<>>, symbols)

PairsOf(symbols) == {<<symbols[i], symbols[i + 1]>> : i \in 1..(Len(symbols) - 1)}

\* One turn of the loop: the pair of the lowest rank, or the end.
Merged(merges, symbols) ==
  LET ranks == {r \in DOMAIN merges : merges[r] \in PairsOf(symbols)}
  IN  IF ranks = {} THEN symbols ELSE Joined(symbols, merges[Min(ranks)])

SymbolsOf(piece) == FlattenSeq([i \in DOMAIN piece |->
                      LET bytes == Utf8(piece[i]) IN [b \in DOMAIN bytes |-> <<bytes[b]>>]])

\* bpe, as symbols; each has a place in the vocabulary.
Bpe(merges, piece) ==
  FoldLeft(LAMBDA symbols, turn : Merged(merges, symbols), SymbolsOf(piece), SymbolsOf(piece))

-----------------------------------------------------------------------------
(* A tokenizer: its vocabulary (bytes, then what the merges make), the     *)
(* merges, and its added tokens, whose ids follow.                         *)

\* Seeded fault: the added tokens stay in the order of the file.
LongestLast(added) == added

LongestFirst(added) == SortSeq(added, LAMBDA a, b : Len(a) > Len(b))

TokenizerOf(bytes, merges, added) ==
  [vocab |-> [b \in DOMAIN bytes |-> <<bytes[b]>>]
             \o [m \in DOMAIN merges |-> merges[m][1] \o merges[m][2]],
   merges |-> merges, added |-> LongestFirst(added)]

IdOf(tk, symbol) == CHOOSE id \in DOMAIN tk.vocab : tk.vocab[id] = symbol
AddedId(tk, n) == Len(tk.vocab) + n

\* encodeText: pieces by way of the cache, which is cleared when it is full.
EncodeText(tk, s, text) ==
  FoldLeft(LAMBDA st, piece :
             LET ids == IF piece \in DOMAIN st.cache THEN st.cache[piece]
                        ELSE LET symbols == Bpe(tk.merges, piece)
                             IN  [n \in DOMAIN symbols |-> IdOf(tk, symbols[n])]
                 kept == IF piece \notin DOMAIN st.cache
                            /\ Cardinality(DOMAIN st.cache) > CachedPieces
                         THEN {} ELSE DOMAIN st.cache
             IN  [out |-> st.out \o ids,
                  cache |-> [p \in kept \cup {piece} |-> IF p = piece THEN ids
                                                         ELSE st.cache[p]]],
           s, Pieces(Normalized(text)))

MatchesAt(text, i, token) == IsPrefix(token, SubSeq(text, i, Len(text)))

\* encode: the added tokens cut the raw text, from the left, the first that
\* matches; what lies between them is encoded.
Encode(tk, cache, text) ==
  LET scanned ==
        FoldLeft(LAMBDA s, i :
            LET here == {n \in DOMAIN tk.added : MatchesAt(text, i, tk.added[n])}
            IN  IF i < s.last \/ here = {} THEN s
                ELSE LET n    == Min(here)
                         done == EncodeText(tk, s.enc, SubSeq(text, s.last, i - 1))
                     IN  [last |-> i + Len(tk.added[n]),
                          enc |-> [done EXCEPT !.out = Append(@, AddedId(tk, n))]],
          [last |-> 1, enc |-> [out |-> <<>>, cache |-> cache]], [i \in DOMAIN text |-> i])
  IN  EncodeText(tk, scanned.enc, SubSeq(text, scanned.last, Len(text)))

\* decode: bytes are gathered up to the next added token.
DecodeIds(tk, ids) ==
  LET flushed(s) == [text |-> s.text \o TextOfBytes(s.bytes), bytes |-> <<>>]
      end == FoldLeft(LAMBDA s, id :
               IF id > Len(tk.vocab)
               THEN [flushed(s) EXCEPT !.text = @ \o tk.added[id - Len(tk.vocab)]]
               ELSE [s EXCEPT !.bytes = @ \o tk.vocab[id]],
               [text |-> <<>>, bytes |-> <<>>], ids)
  IN  flushed(end).text

-----------------------------------------------------------------------------
(* chat.ts and run.ts.                                                     *)

ImStart == <<"<", "b">>
ImEnd == <<">">>
DefaultSystem == <<"b">>

\* renderChat.
RenderChat(messages, prompt) ==
  LET turn(role, content) == ImStart \o <<role, "\n">> \o content \o ImEnd \o <<"\n">>
      opened == messages # <<>> /\ messages[1].role = "S"
  IN  (IF opened THEN <<>> ELSE turn("S", DefaultSystem))
      \o FlattenSeq([m \in DOMAIN messages |-> turn(messages[m].role, messages[m].content)])
      \o (IF prompt THEN ImStart \o <<"a", "\n">> ELSE <<>>)

\* run(): the text grows to what all tokens so far decode to, and onToken gets
\* what is new by its length.
Deltas(tk, ids) ==
  FoldLeft(LAMBDA s, n :
             LET full == DecodeIds(tk, SubSeq(ids, 1, n))
             IN  [text |-> full, told |-> s.told \o SubSeq(full, Len(s.text) + 1, Len(full))],
           [text |-> <<>>, told |-> <<>>], [n \in DOMAIN ids |-> n])

-----------------------------------------------------------------------------
(* loadTokenizer.ts.                                                       *)

\* The file's bytes from its chunks' answers, [ok, body], or the failure of one
\* of them. A chunk is named by its contents.
Assembled(file, answers, Fails(_)) ==
  IF \E s \in DOMAIN file : Fails(file[s].chunk) THEN [failed |-> TRUE]
  ELSE [failed |-> FALSE,
        bytes |-> FlattenSeq([s \in DOMAIN file |->
          SubSeq(answers[file[s].chunk].body, file[s].offset + 1,
                 file[s].offset + file[s].length)])]

\* Seeded fault: a chunk is taken whatever its hash.
FetchUnverified(file, answers) == Assembled(file, answers, LAMBDA chunk : ~answers[chunk].ok)

\* fetchStoreFile: every chunk of the file once, together, each checked.
FetchStoreFile(file, answers) ==
  Assembled(file, answers,
            LAMBDA chunk : ~answers[chunk].ok \/ answers[chunk].body # chunk)
=============================================================================
