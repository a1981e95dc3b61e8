----------------------------- MODULE Summarize ------------------------------
(***************************************************************************)
(* The summarise page (apps/site/src/summarize.ts): the context a document *)
(* is run with, and which runs stand beside the first when the modes are   *)
(* compared.                                                               *)
(***************************************************************************)
EXTENDS Planner

CONSTANTS
  LeastCtx, MostCtx, \* bounds of a context (1024 and 8192 positions)
  CtxStep,           \* contexts are multiples of it (256)
  NewTokens,         \* MAX_TOKENS (256)
  Spare              \* what is added to an estimate (32)

UpTo(n, step) == ((n + step - 1) \div step) * step


\* ctxFor: from the estimate by the document's length.
ContextFor(estimate) ==
  Min({MostCtx, Max({LeastCtx, UpTo(estimate + NewTokens + Spare, CtxStep)})})

\* prepare() throws before it plans when the prompt does not leave room.
Fits(tokens, ctx) == tokens + NewTokens <= ctx

\* runOnce: the contexts it tries, and whether a run came of the last one.
RunOnce(tokens, estimate) ==
  LET first == ContextFor(estimate)
      need  == UpTo(tokens + NewTokens + Spare, CtxStep)
  IN  CASE Fits(tokens, first)  -> [ran |-> TRUE, tried |-> <<first>>]
        [] ~Fits(tokens, first) /\ need > MostCtx -> [ran |-> FALSE, tried |-> <<first>>]
        [] OTHER -> [ran |-> Fits(tokens, need), tried |-> <<first, need>>]

\* compare: a card for each mode, with the run above, none, or a run of its own
\* that is forced to the candidate. The split is the last feasible one, or the
\* last if none is.
Cards(in, ran) ==
  LET splits == {c \in Candidates(in.L) : c.mode = "split"}
      able   == {c \in splits : Feasible(in, c)}
      split  == CHOOSE c \in splits :
                  \/ c \in able /\ \A d \in able : d.N <= c.N
                  \/ able = {} /\ \A d \in splits : d.N <= c.N
      card(c) == [cand |-> c,
                  shows |-> CASE c = ran \/ (c.mode = "local" /\ ran.mode = "local") -> "above"
                              [] ~(c = ran \/ (c.mode = "local" /\ ran.mode = "local"))
                                   /\ ~Feasible(in, c) -> "not feasible"
                              [] OTHER -> "run"]
  IN  <<card([mode |-> "server", N |-> 0]), card(split), card([mode |-> "local", N |-> in.L])>>
=============================================================================
