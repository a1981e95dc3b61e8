---------------------------- MODULE SplitRunProofs ----------------------------
(***************************************************************************)
(* Proofs about SplitRun for any model, prompts, limits and number of runs.*)
(*                                                                         *)
(* Replies carry no request id, so that a run takes the right one rests on *)
(* what may be under way at once: one question or its answer, and behind   *)
(* them the last word of a server that is gone. From there the server's    *)
(* positions follow the browser's, and from those everything else.         *)
(***************************************************************************)
EXTENDS SplitRun, TLAPS

Session == {"forward", "awaiting", "yielded", "stats"}

PlanKept ==
  /\ pc \in {"idle", "pinging", "planning", "loading", "opening"} \cup Session
  /\ runs \in 0..MaxRuns
  /\ T \in Prompts \cup {0}
  /\ pc # "idle" => T \in Prompts /\ T + MaxTokens <= MaxCtx
  /\ plan \in Plans \cup {NoPlan}
  /\ pc \in {"loading", "opening"} \cup Session =>
       plan \in Plans /\ (client <=> plan.mode # "local")
  /\ lastDone \in BOOLEAN /\ signal \in BOOLEAN /\ client \in BOOLEAN

\* Where a generation stands: the position follows the step, and the last
\* token is the last.
StepsKept ==
  /\ pc = "idle" => step \in 0..(MaxTokens + Pings) /\ pos \in 0..MaxCtx
  /\ pc \in {"pinging", "planning", "loading"} => step \in 1..Pings /\ pos = 0
  /\ pc = "opening" => step \in 0..Pings /\ pos = 0
  /\ pc \in Session => step \in 0..(MaxTokens - 1) /\ pos = T + step
  /\ pc = "yielded" /\ ~lastDone => step + 1 < MaxTokens
  /\ pc = "stats" => lastDone

\* The groups that make a runtime of the plan ready, and none after them.
HasGroups(p) ==
  /\ p.mode = "split" => got = 1 + p.N
  /\ p.mode = "local" => got >= L + 2 /\ (got >= L + 3 \/ Tied)

RuntimeKept ==
  /\ loaded \in Plans \cup {NoPlan}
  /\ loaded # NoPlan => loaded.N >= 1 /\ HasGroups(loaded)
  /\ got \in 0..(L + 3) /\ kv \in 0..MaxCtx
  /\ pc = "loading" => loaded = NoPlan /\ plan.N >= 1 /\ ~Ready(plan, got)
  /\ pc \in {"opening"} \cup Session /\ plan.N >= 1 => loaded = plan
  /\ pc = "forward" /\ step > 0 /\ plan.N >= 1 => kv = FedAt
  /\ pc \in {"awaiting", "yielded"} /\ plan.N >= 1 => kv = pos

OutcomeKept ==
  /\ outcome \in {"none", "resolved", "rejected"}
  /\ pc # "idle" => outcome = "none"
  /\ outcome = "resolved" =>
       /\ lastDone /\ step < MaxTokens
       /\ plan.N >= 1 => loaded = plan
       /\ ~client /\ ws # "open"

\* The run has asked something and waits for the answer.
Waiting ==
  \/ pc = "pinging"
  \/ pc = "opening" /\ step = 0
  \/ pc = "awaiting" /\ plan.mode # "local"
  \/ pc = "stats" /\ client

Question ==
  IF pc = "awaiting" THEN Feed(FedAt, pos)
  ELSE Msg(IF pc = "pinging" THEN "ping" ELSE IF pc = "opening" THEN "open" ELSE "stats")

\* What the server holds while a question, or nothing, is on its way to it.
BeforeAnswer ==
  /\ pc \in {"pinging", "planning", "loading", "opening"} => srvSeen = 0
  /\ pc \in {"forward", "awaiting"} =>
       /\ srvSeen = FedAt
       /\ step > 0 => pos <= srvCtx
  /\ pc = "yielded" => srvSeen = pos /\ (lastDone \/ pos < srvCtx)

\* The server's answer to the question, and what the server holds then.
Answered(m) ==
  \/ pc = "pinging" /\ m = Msg("pong") /\ srvSeen = 0
  \/ pc = "opening" /\ m = Msg("opened") /\ srvSeen = 0
  \/ pc = "awaiting" /\ m = Error("ctx_exceeded")
  \/ /\ pc = "awaiting" /\ m \in {Token(FALSE), Token(TRUE)}
     /\ srvSeen = pos /\ (m.done \/ pos < srvCtx)
  \/ pc = "stats" /\ m = Msg("stats")

\* One question, or its answer, is under way, and nothing when none was asked.
InConversation ==
  \/ /\ pc # "idle" => BeforeAnswer
     /\ inbox = <<>> /\ down = <<>>
     /\ up = (IF Waiting THEN <<Question>> ELSE <<>>)
  \/ /\ Waiting /\ up = <<>>
     /\ \E m \in {Msg("pong"), Msg("opened"), Msg("stats"), Error("ctx_exceeded"),
                  Token(FALSE), Token(TRUE)} :
          /\ Answered(m)
          /\ \/ inbox = <<m>> /\ down = <<>>
             \/ inbox = <<>> /\ down = <<m>>

\* The server is gone: what is left of the conversation, an answer and its
\* last word at most.
LeftBehind ==
  \/ /\ up = <<>> /\ Waiting /\ Len(inbox) + Len(down) <= 2
     /\ \A i \in DOMAIN inbox : i > 1 => inbox[i] = Error("shutdown")
     /\ \A i \in DOMAIN down : i > 1 \/ inbox # <<>> => down[i] = Error("shutdown")
  \/ /\ up = <<>> \/ (Len(up) = 1 /\ (pc = "idle" \/ Waiting))
     /\ Len(inbox) + Len(down) <= 1
     /\ \A i \in DOMAIN inbox : inbox[i] = Error("shutdown")
     /\ \A i \in DOMAIN down : down[i] = Error("shutdown")

Messages == [type : {"ping", "open", "stats", "close"}]
Frames == Messages \cup [type : {"feed"}, start : Nat, end : Nat]
Replies == [type : {"pong", "opened", "stats"}]
             \cup [type : {"token"}, done : BOOLEAN]
             \cup [type : {"error"}, code : {"refused", "shutdown", "ctx_exceeded"}]

ConversationKept ==
  /\ ws \in {"none", "open", "closed"} /\ srv \in {"gone", "connected", "open"}
  /\ srvSeen \in 0..MaxCtx /\ srvCtx \in ServerCtx \cup {0}
  /\ srv # "gone" => srvCtx \in ServerCtx
  /\ up \in Seq(Frames) /\ inbox \in Seq(Replies) /\ down \in Seq(Replies)
  /\ client /\ ws = "open" /\ srv # "gone" => InConversation
  /\ client /\ ws = "open" /\ srv = "gone" => LeftBehind
  /\ client => ws # "none"
  /\ client /\ ws = "closed" => srv = "gone" /\ up = <<>> /\ down = <<>> /\ Len(inbox) <= 2
  /\ ~client =>
       /\ ws # "open"
       /\ srv # "gone" => up = <<Msg("close")>> /\ inbox = <<>> /\ down = <<>>
       /\ srv = "gone" => Len(up) <= 2 /\ Len(inbox) + Len(down) <= 2
  /\ \A i \in DOMAIN down : down[i] = Error("ctx_exceeded") => T > srvCtx
  /\ Waiting => client

RunInv == PlanKept /\ StepsKept /\ RuntimeKept /\ OutcomeKept /\ ConversationKept

-----------------------------------------------------------------------------
(***************************************************************************)
(* Short sequences                                                         *)
(***************************************************************************)

LEMMA SingleFacts ==
  ASSUME NEW m
  PROVE  /\ <<m>> # <<>> /\ Head(<<m>>) = m /\ Tail(<<m>>) = <<>> /\ Len(<<m>>) = 1
         /\ Append(<<>>, m) = <<m>> /\ Len(<<>>) = 0
         /\ DOMAIN <<m>> = {1} /\ <<m>>[1] = m
  OBVIOUS

LEMMA SeqFacts ==
  ASSUME NEW S, NEW s \in Seq(S)
  PROVE  /\ Len(s) \in Nat /\ (s = <<>> <=> Len(s) = 0)
         /\ s # <<>> =>
              /\ Head(s) \in S /\ Head(s) = s[1] /\ 1 \in DOMAIN s
              /\ Tail(s) \in Seq(S) /\ Len(Tail(s)) = Len(s) - 1
              /\ \A i \in DOMAIN Tail(s) : i + 1 \in DOMAIN s /\ Tail(s)[i] = s[i + 1]
         /\ \A m \in S :
              /\ Append(s, m) \in Seq(S) /\ Len(Append(s, m)) = Len(s) + 1
              /\ \A i \in DOMAIN Append(s, m) :
                   (i \in DOMAIN s /\ Append(s, m)[i] = s[i]) \/ Append(s, m)[i] = m
  OBVIOUS

LEMMA ShortSeq ==
  ASSUME NEW S, NEW s \in Seq(S)
  PROVE  /\ Len(s) <= 1 => s = <<>> \/ Len(s) = 1
         /\ s = <<>> \/ Len(s) = 1 => Len(s) <= 1
         /\ Len(s) <= 1 => Len(s) + 1 <= 2
  <1> DEFINE n == Len(s)
             empty == s = <<>>
  <1>1. n \in Nat /\ (empty <=> n = 0)
    BY SeqFacts
  <1>2. (n <= 1 => empty \/ n = 1) /\ (empty \/ n = 1 => n <= 1) /\ (n <= 1 => n + 1 <= 2)
    <2> HIDE DEF n, empty
    <2> QED BY <1>1
  <1> QED BY <1>2

LEMMA FrameTypes ==
  /\ \A t \in {"ping", "open", "stats", "close"} : Msg(t) \in Frames
  /\ \A a, b \in Nat : Feed(a, b) \in Frames
  /\ \A t \in {"pong", "opened", "stats"} : Msg(t) \in Replies
  /\ \A d \in BOOLEAN : Token(d) \in Replies
  /\ \A e \in {"refused", "shutdown", "ctx_exceeded"} : Error(e) \in Replies
  BY DEF Msg, Feed, Token, Error, Frames, Messages, Replies

-----------------------------------------------------------------------------
(***************************************************************************)
(* The run's side of the conversation                                      *)
(***************************************************************************)

OnlyLastWord(s) == \A i \in DOMAIN s : s[i] = Error("shutdown")

\* What is taken while the server is there is the answer, and it was all that
\* was under way; a question the server no longer takes is answered by its
\* last word.
LEMMA TakeFacts ==
  ASSUME ConversationKept, client, Waiting, NEW m, Take(m)
  PROVE  /\ srv # "gone" => ws = "open" /\ Answered(m) /\ up = <<>> /\ inbox' = <<>> /\ down = <<>>
         /\ m \in Replies \cup {Error("closed")}
         /\ inbox' \in Seq(Replies) /\ Len(inbox') + Len(down) <= 1
         /\ Len(up) <= 1 /\ (ws = "closed" => up = <<>>)
         /\ up # <<>> => m = Error("shutdown")
         /\ ws = "open" => OnlyLastWord(inbox') /\ OnlyLastWord(down)
  <1>1. /\ inbox \in Seq(Replies) /\ down \in Seq(Replies) /\ up \in Seq(Frames)
        /\ Len(inbox) \in Nat /\ Len(down) \in Nat /\ Len(up) \in Nat
    BY SeqFacts DEF ConversationKept
  <1>2. CASE ws = "open" /\ srv # "gone"
    <2>1. InConversation
      BY <1>2 DEF ConversationKept
    <2>2. inbox # <<>>
      BY <1>2 DEF Take
    <2>3. PICK a \in Replies : /\ Answered(a) /\ up = <<>>
                               /\ inbox = <<a>> /\ down = <<>>
      BY <2>1, <2>2, FrameTypes DEF InConversation
    <2>4. m = a /\ inbox' = <<>>
      BY <2>2, <2>3, SingleFacts DEF Take
    <2>5. OnlyLastWord(inbox') /\ OnlyLastWord(down)
      BY <2>3, <2>4 DEF OnlyLastWord
    <2> QED BY <1>1, <1>2, <2>3, <2>4, <2>5, SingleFacts
  <1>3. CASE ws = "open" /\ srv = "gone"
    <2>1. LeftBehind
      BY <1>3 DEF ConversationKept
    <2>2. inbox # <<>> /\ m = Head(inbox) /\ inbox' = Tail(inbox)
      BY <1>3 DEF Take
    <2>3. /\ m \in Replies /\ inbox' \in Seq(Replies) /\ Len(inbox') = Len(inbox) - 1
          /\ m = inbox[1] /\ 1 \in DOMAIN inbox /\ Len(inbox) >= 1 /\ Len(inbox') \in Nat
          /\ \A i \in DOMAIN inbox' :
               i \in Nat \ {0} /\ i + 1 \in DOMAIN inbox /\ inbox'[i] = inbox[i + 1]
      BY <1>1, <2>2, SeqFacts
    <2>4. CASE /\ up = <<>> /\ Len(inbox) + Len(down) <= 2
               /\ \A i \in DOMAIN inbox : i > 1 => inbox[i] = Error("shutdown")
               /\ \A i \in DOMAIN down : i > 1 \/ inbox # <<>> => down[i] = Error("shutdown")
      <3>1. OnlyLastWord(inbox')
        BY <2>3, <2>4 DEF OnlyLastWord
      <3>2. OnlyLastWord(down)
        BY <2>2, <2>4 DEF OnlyLastWord
      <3> QED BY <1>1, <1>3, <2>3, <2>4, <3>1, <3>2, SingleFacts
    <2>5. CASE /\ up = <<>> \/ Len(up) = 1
               /\ Len(inbox) + Len(down) <= 1
               /\ \A i \in DOMAIN inbox : inbox[i] = Error("shutdown")
               /\ \A i \in DOMAIN down : down[i] = Error("shutdown")
      <3>1. OnlyLastWord(inbox') /\ OnlyLastWord(down)
        BY <2>3, <2>5 DEF OnlyLastWord
      <3> QED BY <1>1, <1>3, <2>3, <2>5, <3>1, SingleFacts
    <2> QED BY <2>1, <2>4, <2>5 DEF LeftBehind
  <1>4. CASE ws = "closed"
    <2>1. srv = "gone" /\ up = <<>> /\ down = <<>> /\ Len(inbox) <= 2
      BY <1>4 DEF ConversationKept
    <2>2. CASE inbox # <<>> /\ m = Head(inbox) /\ inbox' = Tail(inbox)
      <3>1. m \in Replies /\ inbox' \in Seq(Replies) /\ Len(inbox') = Len(inbox) - 1
        BY <1>1, <2>2, SeqFacts
      <3> QED BY <1>1, <1>4, <2>1, <3>1, SingleFacts
    <2>3. CASE inbox = <<>> /\ m = Error("closed") /\ inbox' = <<>>
      BY <1>1, <1>4, <2>1, <2>3, SingleFacts
    <2> QED BY <2>2, <2>3 DEF Take
  <1> QED BY <1>2, <1>3, <1>4 DEF ConversationKept

\* Taking an answer leaves nothing under way, so that the next question can be
\* asked; the server's last word ends the run.
LEMMA TakeKeeps ==
  ASSUME ConversationKept, client, Waiting, NEW m, Take(m),
         UNCHANGED <<client, ws, up, down, srv, srvSeen, srvCtx, T>>,
         ~Waiting', pc' = "idle" \/ m # Error("shutdown"),
         srv # "gone" /\ Answered(m) /\ pc' # "idle" => BeforeAnswer'
  PROVE  ConversationKept'
  <1>1. /\ srv # "gone" => ws = "open" /\ Answered(m) /\ up = <<>> /\ inbox' = <<>> /\ down = <<>>
        /\ inbox' \in Seq(Replies) /\ Len(inbox') + Len(down) <= 1
        /\ Len(up) <= 1 /\ (ws = "closed" => up = <<>>)
        /\ up # <<>> => m = Error("shutdown")
        /\ ws = "open" => OnlyLastWord(inbox') /\ OnlyLastWord(down)
    BY TakeFacts
  <1>2. /\ up \in Seq(Frames) /\ down \in Seq(Replies)
        /\ ws # "none" /\ (ws = "closed" => srv = "gone" /\ down = <<>>)
        /\ ws \in {"none", "open", "closed"} /\ srv \in {"gone", "connected", "open"}
        /\ srvSeen \in 0..MaxCtx /\ srvCtx \in ServerCtx \cup {0}
        /\ srv # "gone" => srvCtx \in ServerCtx
        /\ \A i \in DOMAIN down : down[i] = Error("ctx_exceeded") => T > srvCtx
    BY DEF ConversationKept
  <1>3. ws = "open" /\ srv # "gone" => InConversation'
    BY <1>1, <1>2 DEF InConversation
  <1>4. ws = "open" /\ srv = "gone" => LeftBehind'
    <2> SUFFICES ASSUME ws = "open" PROVE LeftBehind'
      OBVIOUS
    <2>2. up' = <<>> \/ (Len(up') = 1 /\ pc' = "idle")
      <3>1. up' = up
        OBVIOUS
      <3>2. up = <<>> \/ Len(up) = 1
        BY <1>1, <1>2, ShortSeq
      <3>3. up = <<>> \/ pc' = "idle"
        BY <1>1
      <3> QED BY <3>1, <3>2, <3>3
    <2>3. Len(inbox') + Len(down') <= 1 /\ OnlyLastWord(inbox') /\ OnlyLastWord(down')
      BY <1>1
    <2> QED BY <2>2, <2>3 DEF LeftBehind, OnlyLastWord
  <1>5. ws = "closed" => Len(inbox') <= 2
    <2>1. Len(inbox') \in Nat /\ Len(down) \in Nat
      BY <1>1, <1>2, SeqFacts
    <2> QED BY <1>1, <2>1
  <1> QED BY <1>1, <1>2, <1>3, <1>4, <1>5 DEF ConversationKept

\* A question is asked when nothing is under way; if the server is gone, it is
\* not served.
LEMMA AskKeeps ==
  ASSUME ConversationKept, client, pc # "idle", ~Waiting, Waiting',
         Ask(Question'), Question' \in Frames,
         UNCHANGED <<client, ws, inbox, down, srv, srvSeen, srvCtx, T>>,
         srv # "gone" /\ BeforeAnswer => BeforeAnswer'
  PROVE  ConversationKept'
  <1>1. /\ up \in Seq(Frames) /\ inbox \in Seq(Replies) /\ down \in Seq(Replies)
        /\ ws # "none" /\ (ws = "closed" => srv = "gone" /\ up = <<>> /\ down = <<>> /\ Len(inbox) <= 2)
        /\ ws \in {"none", "open", "closed"} /\ srv \in {"gone", "connected", "open"}
        /\ srvSeen \in 0..MaxCtx /\ srvCtx \in ServerCtx \cup {0}
        /\ srv # "gone" => srvCtx \in ServerCtx
        /\ \A i \in DOMAIN down : down[i] = Error("ctx_exceeded") => T > srvCtx
    BY DEF ConversationKept
  <1>2. CASE ws = "open" /\ srv # "gone"
    <2>1. InConversation
      BY <1>2 DEF ConversationKept
    <2>2. BeforeAnswer /\ inbox = <<>> /\ down = <<>> /\ up = <<>>
      BY <2>1 DEF InConversation
    <2>3. up' = <<Question'>>
      BY <1>2, <2>2, SingleFacts DEF Ask
    <2>4. BeforeAnswer' /\ inbox' = <<>> /\ down' = <<>>
      BY <1>2, <2>2
    <2>5. InConversation'
      BY <2>3, <2>4 DEF InConversation
    <2>6. up' \in Seq(Frames)
      BY <2>3
    <2> QED BY <1>1, <1>2, <2>5, <2>6 DEF ConversationKept
  <1>3. CASE ws = "open" /\ srv = "gone"
    <2>1. LeftBehind
      BY <1>3 DEF ConversationKept
    <2>2. /\ up = <<>> /\ Len(inbox) + Len(down) <= 1
          /\ OnlyLastWord(inbox) /\ OnlyLastWord(down)
      BY <2>1 DEF LeftBehind, OnlyLastWord
    <2>3. up' = <<Question'>> /\ Len(up') = 1 /\ up' \in Seq(Frames)
      BY <1>3, <2>2, SingleFacts DEF Ask
    <2>4. LeftBehind'
      BY <2>2, <2>3 DEF LeftBehind, OnlyLastWord
    <2> QED BY <1>1, <1>3, <2>3, <2>4 DEF ConversationKept
  <1>4. CASE ws = "closed"
    <2>1. up' = up
      BY <1>4 DEF Ask
    <2> QED BY <1>1, <1>4, <2>1 DEF ConversationKept
  <1> QED BY <1>1, <1>2, <1>3, <1>4

\* Steps that say nothing.
LEMMA QuietKeeps ==
  ASSUME ConversationKept, UNCHANGED <<wsVars, srvVars, T>>,
         ~Waiting, ~Waiting', pc # "idle",
         client /\ srv # "gone" /\ BeforeAnswer /\ pc' # "idle" => BeforeAnswer'
  PROVE  ConversationKept'
  <1>1. UNCHANGED <<client, ws, inbox, up, down, srv, srvSeen, srvCtx, T>>
    BY DEF wsVars, srvVars
  <1>2. client /\ ws = "open" /\ srv # "gone" => InConversation'
    BY <1>1 DEF InConversation, ConversationKept
  <1>3. client /\ ws = "open" /\ srv = "gone" => LeftBehind'
    BY <1>1 DEF LeftBehind, ConversationKept
  <1> QED BY <1>1, <1>2, <1>3 DEF ConversationKept

\* The run lets go of its client: the server is told, if it is there.
LEMMA CloseKeeps ==
  ASSUME ConversationKept, CloseClient, UNCHANGED <<down, srv, srvSeen, srvCtx, T>>,
         ~Waiting',
         \/ inbox' = inbox /\ ~Waiting
         \/ client /\ Waiting /\ \E m : Take(m)
  PROVE  ConversationKept'
  <1>1. /\ up \in Seq(Frames) /\ inbox \in Seq(Replies) /\ down \in Seq(Replies)
        /\ client => ws # "none"
        /\ client /\ ws = "closed" => srv = "gone" /\ up = <<>> /\ down = <<>> /\ Len(inbox) <= 2
        /\ ws \in {"none", "open", "closed"} /\ srv \in {"gone", "connected", "open"}
        /\ srvSeen \in 0..MaxCtx /\ srvCtx \in ServerCtx \cup {0}
        /\ srv # "gone" => srvCtx \in ServerCtx
        /\ \A i \in DOMAIN down : down[i] = Error("ctx_exceeded") => T > srvCtx
        /\ ~client => ws # "open"
        /\ ~client /\ srv # "gone" => up = <<Msg("close")>> /\ inbox = <<>> /\ down = <<>>
        /\ ~client /\ srv = "gone" => Len(up) <= 2 /\ Len(inbox) + Len(down) <= 2
    BY DEF ConversationKept
  <1>2. /\ client' = FALSE /\ ws' = (IF ws = "open" THEN "closed" ELSE ws)
        /\ up' = (IF ws = "open" THEN Append(up, Msg("close")) ELSE up)
    BY DEF CloseClient, Ask
  <1>3. /\ up' \in Seq(Frames) /\ Len(up) \in Nat /\ Len(down) \in Nat /\ Len(inbox) \in Nat
        /\ Len(up') = IF ws = "open" THEN Len(up) + 1 ELSE Len(up)
    BY <1>1, <1>2, FrameTypes, SeqFacts
  <1>4. /\ inbox' \in Seq(Replies)
        /\ srv # "gone" => up' = <<Msg("close")>> /\ inbox' = <<>> /\ down = <<>>
        /\ srv = "gone" => Len(up') <= 2 /\ Len(inbox') + Len(down) <= 2
    <2>1. CASE ~client
      BY <1>1, <1>2, <2>1
    <2>2. CASE client /\ inbox' = inbox /\ ~Waiting
      <3>1. CASE ws = "closed"
        BY <1>1, <1>2, <1>3, <2>2, <3>1, SingleFacts
      <3>2. CASE ws = "open" /\ srv # "gone"
        <4>1. InConversation
          BY <2>2, <3>2 DEF ConversationKept
        <4>2. up = <<>> /\ inbox = <<>> /\ down = <<>>
          BY <2>2, <4>1 DEF InConversation
        <4> QED BY <1>1, <1>2, <2>2, <3>2, <4>2, SingleFacts
      <3>3. CASE ws = "open" /\ srv = "gone"
        <4>1. LeftBehind
          BY <2>2, <3>3 DEF ConversationKept
        <4>2. (up = <<>> \/ Len(up) = 1) /\ Len(inbox) + Len(down) <= 1
          BY <2>2, <4>1 DEF LeftBehind
        <4>3. Len(up) <= 1 /\ Len(up) + 1 <= 2
          BY <1>1, <4>2, ShortSeq
        <4>4. Len(up') <= 2
          BY <1>3, <3>3, <4>3
        <4>5. Len(inbox') + Len(down) <= 2
          BY <1>3, <2>2, <4>2
        <4> QED BY <1>1, <2>2, <3>3, <4>4, <4>5
      <3> QED BY <1>1, <2>2, <3>1, <3>2, <3>3
    <2>3. CASE client /\ Waiting /\ \E m : Take(m)
      <3>1. PICK m : Take(m)
        BY <2>3
      <3>2. /\ srv # "gone" => ws = "open" /\ up = <<>> /\ inbox' = <<>> /\ down = <<>>
            /\ inbox' \in Seq(Replies) /\ Len(inbox') + Len(down) <= 1
            /\ Len(up) <= 1
        BY <2>3, <3>1, TakeFacts
      <3>3. srv # "gone" => up' = <<Msg("close")>>
        BY <1>2, <3>2, SingleFacts
      <3>4. Len(inbox') \in Nat
        BY <3>2, SeqFacts
      <3> QED BY <1>3, <3>2, <3>3, <3>4
    <2> QED BY <2>1, <2>2, <2>3
  <1> QED BY <1>1, <1>2, <1>3, <1>4 DEF ConversationKept

-----------------------------------------------------------------------------
(***************************************************************************)
(* The network and the server                                              *)
(***************************************************************************)

\* What the run keeps does not depend on the socket, once it is closed.
LEMMA RunUntouched ==
  ASSUME RunInv, UNCHANGED <<runVars, genVars, rtVars, client>>, ws' \in {ws, "closed"}
  PROVE  /\ PlanKept' /\ StepsKept' /\ RuntimeKept' /\ OutcomeKept'
         /\ (Waiting' <=> Waiting) /\ Question' = Question
         /\ UNCHANGED <<pc, outcome, runs, plan, T, lastDone, signal, step, pos, client>>
  <1>1. UNCHANGED <<pc, outcome, runs, plan, T, lastDone, signal, step, pos, loaded, got, kv, client>>
    BY DEF runVars, genVars, rtVars
  <1>2. PlanKept' /\ StepsKept'
    BY <1>1 DEF RunInv, PlanKept, StepsKept, Session
  <1>3. RuntimeKept'
    BY <1>1 DEF RunInv, RuntimeKept, HasGroups, Ready, FedAt, Session
  <1>4. OutcomeKept'
    BY <1>1 DEF RunInv, OutcomeKept
  <1>5. (Waiting' <=> Waiting) /\ Question' = Question
    BY <1>1 DEF Waiting, Question, FedAt
  <1> QED BY <1>1, <1>2, <1>3, <1>4, <1>5

LEMMA SocketFacts ==
  ASSUME ConversationKept
  PROVE  /\ up \in Seq(Frames) /\ inbox \in Seq(Replies) /\ down \in Seq(Replies)
         /\ client => ws # "none"
         /\ client /\ ws = "closed" => srv = "gone" /\ up = <<>> /\ down = <<>> /\ Len(inbox) <= 2
         /\ ws \in {"none", "open", "closed"} /\ srv \in {"gone", "connected", "open"}
         /\ srvSeen \in 0..MaxCtx /\ srvCtx \in ServerCtx \cup {0}
         /\ srv # "gone" => srvCtx \in ServerCtx
         /\ \A i \in DOMAIN down : down[i] = Error("ctx_exceeded") => T > srvCtx
         /\ ~client => ws # "open"
         /\ ~client /\ srv # "gone" => up = <<Msg("close")>> /\ inbox = <<>> /\ down = <<>>
         /\ ~client /\ srv = "gone" => Len(up) <= 2 /\ Len(inbox) + Len(down) <= 2
         /\ Waiting => client
         /\ client /\ ws = "open" /\ srv # "gone" => InConversation
         /\ client /\ ws = "open" /\ srv = "gone" => LeftBehind
  BY DEF ConversationKept

LEMMA Lengths ==
  ASSUME NEW n \in Nat, NEW m \in Nat
  PROVE  /\ n = 0 /\ m = 0 => n + m <= 1 /\ n + m <= 2
         /\ n + m <= 1 => n + m <= 2 /\ n <= 2
         /\ n + m <= 2 => n <= 2
         /\ n = 0 /\ m = 1 => n + m <= 1 /\ n + m <= 2
         /\ n = 1 /\ m = 0 => n + m <= 1 /\ n + m <= 2
         /\ n = 0 /\ m = 2 => n + m <= 2
         /\ n = 1 /\ m = 1 => n + m <= 2
         /\ n + m = (n + 1) + (m - 1)
  OBVIOUS

LEMMA LittleUnderWay ==
  ASSUME ConversationKept, client, ws = "open"
  PROVE  Len(inbox) <= 2 /\ Len(inbox) + Len(down) <= 2
  <1>1. Len(inbox) \in Nat /\ Len(down) \in Nat
    BY SeqFacts DEF ConversationKept
  <1>2. Len(inbox) + Len(down) <= 2
    <2>1. CASE srv = "gone"
      <3>1. Len(inbox) + Len(down) <= 2 \/ Len(inbox) + Len(down) <= 1
        BY <2>1 DEF ConversationKept, LeftBehind
      <3> QED BY <1>1, <3>1, Lengths
    <2>2. CASE srv # "gone"
      <3>1. InConversation
        BY <2>2 DEF ConversationKept
      <3>2. /\ Len(inbox) = 0 \/ Len(inbox) = 1
            /\ Len(down) = 0 \/ Len(down) = 1
        BY <3>1, SingleFacts DEF InConversation
      <3> QED BY <1>1, <3>2, Lengths
    <2> QED BY <2>1, <2>2
  <1> QED BY <1>1, <1>2, Lengths

LEMMA NetworkDropsKeeps ==
  ASSUME RunInv, NetworkDrops
  PROVE  RunInv'
  <1>1. /\ ws = "open" /\ ws' = "closed" /\ srv' = "gone" /\ up' = <<>> /\ down' = <<>>
        /\ UNCHANGED <<inbox, srvSeen, srvCtx>>
        /\ UNCHANGED <<runVars, genVars, rtVars, client>>
    BY DEF NetworkDrops
  <1>2. /\ PlanKept' /\ StepsKept' /\ RuntimeKept' /\ OutcomeKept'
        /\ UNCHANGED <<pc, T, client>>
    BY <1>1, RunUntouched
  <1>3. client /\ Len(inbox) <= 2
    BY <1>1, LittleUnderWay DEF RunInv, ConversationKept
  <1>4. ConversationKept'
    BY <1>1, <1>2, <1>3 DEF RunInv, ConversationKept
  <1> QED BY <1>2, <1>4 DEF RunInv

LEMMA SocketClosesKeeps ==
  ASSUME RunInv, SocketCloses
  PROVE  RunInv'
  <1>1. /\ ws = "open" /\ ws' = "closed" /\ srv = "gone" /\ up' = <<>> /\ down = <<>>
        /\ UNCHANGED <<inbox, down, srv, srvSeen, srvCtx>>
        /\ UNCHANGED <<runVars, genVars, rtVars, client>>
    BY DEF SocketCloses, srvVars
  <1>2. /\ PlanKept' /\ StepsKept' /\ RuntimeKept' /\ OutcomeKept'
        /\ UNCHANGED <<pc, T, client>>
    BY <1>1, RunUntouched
  <1>3. client /\ Len(inbox) <= 2
    BY <1>1, LittleUnderWay DEF RunInv, ConversationKept
  <1>4. ConversationKept'
    BY <1>1, <1>2, <1>3 DEF RunInv, ConversationKept
  <1> QED BY <1>2, <1>4 DEF RunInv

\* onmessage moves the first frame on its way to the end of the queue.
LEMMA ReceiveKeeps ==
  ASSUME RunInv, Receive
  PROVE  RunInv'
  <1>1. /\ ws = "open" /\ down # <<>> /\ inbox' = Append(inbox, Head(down)) /\ down' = Tail(down)
        /\ UNCHANGED <<ws, up, srv, srvSeen, srvCtx>>
        /\ UNCHANGED <<runVars, genVars, rtVars, client>>
    BY DEF Receive, srvVars
  <1>2. /\ PlanKept' /\ StepsKept' /\ RuntimeKept' /\ OutcomeKept'
        /\ (Waiting' <=> Waiting) /\ Question' = Question
        /\ UNCHANGED <<pc, outcome, runs, plan, T, lastDone, signal, step, pos, client>>
    BY <1>1, RunUntouched
  <1>3. /\ inbox \in Seq(Replies) /\ down \in Seq(Replies) /\ client
    BY <1>1 DEF RunInv, ConversationKept
  <1>4. /\ Head(down) \in Replies /\ Head(down) = down[1] /\ 1 \in DOMAIN down
        /\ down' \in Seq(Replies) /\ Len(down') = Len(down) - 1
        /\ \A i \in DOMAIN down' : i + 1 \in DOMAIN down /\ down'[i] = down[i + 1]
    BY <1>1, <1>3, SeqFacts
  <1>5. /\ inbox' \in Seq(Replies) /\ Len(inbox') = Len(inbox) + 1
        /\ \A i \in DOMAIN inbox' :
             (i \in DOMAIN inbox /\ inbox'[i] = inbox[i]) \/ inbox'[i] = down[1]
    BY <1>1, <1>3, <1>4, SeqFacts
  <1>6. Len(inbox') + Len(down') = Len(inbox) + Len(down)
    <2>1. Len(inbox) \in Nat /\ Len(down) \in Nat
      BY <1>3, SeqFacts
    <2> QED BY <1>4, <1>5, <2>1, Lengths
  <1>7. srv # "gone" => InConversation'
    <2> SUFFICES ASSUME srv # "gone" PROVE InConversation'
      OBVIOUS
    <2>1. InConversation
      BY <1>1, <1>3 DEF RunInv, ConversationKept
    <2>2. PICK m \in {Msg("pong"), Msg("opened"), Msg("stats"), Error("ctx_exceeded"),
                      Token(FALSE), Token(TRUE)} :
            Waiting /\ up = <<>> /\ Answered(m) /\ inbox = <<>> /\ down = <<m>>
      BY <1>1, <2>1 DEF InConversation
    <2>3. inbox' = <<m>> /\ down' = <<>>
      BY <1>1, <2>2, SingleFacts
    <2>4. Answered(m)'
      BY <1>1, <1>2, <2>2 DEF Answered
    <2> QED BY <1>1, <1>2, <2>2, <2>3, <2>4 DEF InConversation
  <1>8. srv = "gone" => LeftBehind'
    <2> SUFFICES ASSUME srv = "gone" PROVE LeftBehind'
      OBVIOUS
    <2>1. CASE /\ up = <<>> /\ Waiting /\ Len(inbox) + Len(down) <= 2
               /\ \A i \in DOMAIN inbox : i > 1 => inbox[i] = Error("shutdown")
               /\ \A i \in DOMAIN down : i > 1 \/ inbox # <<>> => down[i] = Error("shutdown")
      <3>1. \A i \in DOMAIN down' : i + 1 > 1
        BY <1>4, SeqFacts
      <3>2. \A i \in DOMAIN down' : down'[i] = Error("shutdown")
        BY <1>4, <2>1, <3>1
      <3>3. \A i \in DOMAIN inbox' : i > 1 => inbox'[i] = Error("shutdown")
        <4>1. CASE inbox = <<>>
          <5>1. inbox' = <<Head(down)>>
            BY <1>1, <4>1, SingleFacts
          <5>2. DOMAIN inbox' = {1}
            BY <5>1, SingleFacts
          <5> QED BY <5>2
        <4>2. CASE inbox # <<>>
          <5>1. down[1] = Error("shutdown")
            BY <1>4, <2>1, <4>2
          <5> QED BY <1>5, <2>1, <5>1
        <4> QED BY <4>1, <4>2
      <3> QED BY <1>1, <1>2, <1>6, <2>1, <3>2, <3>3 DEF LeftBehind
    <2>2. CASE /\ up = <<>> \/ (Len(up) = 1 /\ (pc = "idle" \/ Waiting))
               /\ Len(inbox) + Len(down) <= 1
               /\ \A i \in DOMAIN inbox : inbox[i] = Error("shutdown")
               /\ \A i \in DOMAIN down : down[i] = Error("shutdown")
      <3>1. /\ \A i \in DOMAIN inbox' : inbox'[i] = Error("shutdown")
            /\ \A i \in DOMAIN down' : down'[i] = Error("shutdown")
        BY <1>4, <1>5, <2>2
      <3> QED BY <1>1, <1>2, <1>6, <2>2, <3>1 DEF LeftBehind
    <2>3. LeftBehind
      BY <1>1, <1>3 DEF RunInv, ConversationKept
    <2> QED BY <2>1, <2>2, <2>3 DEF LeftBehind
  <1>9. \A i \in DOMAIN down' : down'[i] = Error("ctx_exceeded") => T > srvCtx
    BY <1>4 DEF RunInv, ConversationKept
  <1>10. ConversationKept'
    BY <1>1, <1>2, <1>3, <1>4, <1>5, <1>7, <1>8, <1>9 DEF RunInv, ConversationKept
  <1> QED BY <1>2, <1>10 DEF RunInv

\* A server that goes says at most one last word.
LEMMA ServerGoesKeeps ==
  ASSUME RunInv, ServerGoes
  PROVE  RunInv'
  <1>1. /\ srv # "gone" /\ srv' = "gone"
        /\ down' = down \/ down' = Append(down, Error("shutdown"))
        /\ UNCHANGED <<ws, inbox, up, srvSeen, srvCtx>>
        /\ UNCHANGED <<runVars, genVars, rtVars, client>>
    BY DEF ServerGoes
  <1>2. /\ PlanKept' /\ StepsKept' /\ RuntimeKept' /\ OutcomeKept'
        /\ (Waiting' <=> Waiting)
        /\ UNCHANGED <<pc, outcome, runs, plan, T, lastDone, signal, step, pos, client>>
    BY <1>1, RunUntouched
  <1>3. /\ inbox \in Seq(Replies) /\ down \in Seq(Replies)
        /\ Error("shutdown") \in Replies
        /\ Error("shutdown") # Error("ctx_exceeded")
    BY FrameTypes DEF RunInv, ConversationKept, Error
  <1>4. /\ down' \in Seq(Replies)
        /\ \A i \in DOMAIN down' : (i \in DOMAIN down /\ down'[i] = down[i])
                                     \/ down'[i] = Error("shutdown")
    <2>1. CASE down' = down
      BY <1>3, <2>1
    <2>2. CASE down' = Append(down, Error("shutdown"))
      BY <1>3, <2>2, SeqFacts
    <2> QED BY <1>1, <2>1, <2>2
  <1>5. CASE ~client
    <2>1. ws # "open" /\ up = <<Msg("close")>> /\ inbox = <<>> /\ down = <<>>
      BY <1>1, <1>5 DEF RunInv, ConversationKept
    <2>2. down' = <<>> \/ down' = <<Error("shutdown")>>
      BY <1>1, <2>1, SingleFacts
    <2>3. Len(up) <= 2 /\ Len(inbox) + Len(down') <= 2
      <3>1. Len(up) = 1 /\ Len(inbox) = 0 /\ (Len(down') = 0 \/ Len(down') = 1)
        BY <2>1, <2>2, SingleFacts
      <3>2. \A n, m \in Nat : n = 0 /\ (m = 0 \/ m = 1) => n + m <= 2 /\ 1 <= 2
        BY Lengths
      <3>3. 0 \in Nat /\ 1 \in Nat
        OBVIOUS
      <3> QED BY <3>1, <3>2, <3>3, Zenon
    <2>4. ConversationKept'
      BY <1>1, <1>2, <1>3, <1>4, <1>5, <2>1, <2>3 DEF RunInv, ConversationKept
    <2> QED BY <1>2, <2>4 DEF RunInv
  <1>6. CASE client
    <2>1. ws = "open" /\ InConversation
      BY <1>1, <1>6 DEF RunInv, ConversationKept
    <2>2. LeftBehind'
      <3>1. CASE /\ inbox = <<>> /\ down = <<>>
                 /\ up = (IF Waiting THEN <<Question>> ELSE <<>>)
        <4>1. down' = <<>> \/ down' = <<Error("shutdown")>>
          BY <1>1, <3>1, SingleFacts
        <4>2. Len(inbox') + Len(down') <= 1
          <5>1. Len(inbox') = 0 /\ (Len(down') = 0 \/ Len(down') = 1)
            BY <1>1, <3>1, <4>1, SingleFacts
          <5>2. Len(inbox') \in Nat /\ Len(down') \in Nat
            BY <1>1, <1>3, <1>4, SeqFacts
          <5> QED BY <5>1, <5>2, Lengths
        <4>3. up' = <<>> \/ (Len(up') = 1 /\ Waiting')
          BY <1>1, <1>2, <3>1, SingleFacts
        <4>4. /\ \A i \in DOMAIN inbox' : inbox'[i] = Error("shutdown")
              /\ \A i \in DOMAIN down' : down'[i] = Error("shutdown")
          BY <1>1, <1>4, <3>1
        <4> QED BY <4>2, <4>3, <4>4 DEF LeftBehind
      <3>2. CASE /\ Waiting /\ up = <<>>
                 /\ \E m : (inbox = <<m>> /\ down = <<>>) \/ (inbox = <<>> /\ down = <<m>>)
        <4>1. PICK m : (inbox = <<m>> /\ down = <<>>) \/ (inbox = <<>> /\ down = <<m>>)
          BY <3>2
        <4>2. Len(inbox') + Len(down') <= 2
          <5> DEFINE a == Len(inbox)
                     b == Len(down)
                     c == Len(down')
          <5>1. a \in Nat /\ b \in Nat /\ (c = b \/ c = b + 1)
            BY <1>1, <1>3, SeqFacts
          <5>2. (a = 1 /\ b = 0) \/ (a = 0 /\ b = 1)
            BY <4>1, SingleFacts
          <5>3. a + c <= 2
            <6> HIDE DEF a, b, c
            <6> QED BY <5>1, <5>2
          <5> QED BY <1>1, <5>3
        <4>3. \A i \in DOMAIN inbox' : i > 1 => inbox'[i] = Error("shutdown")
          <5>1. DOMAIN inbox' = {1} \/ DOMAIN inbox' = {}
            BY <1>1, <4>1, SingleFacts
          <5> QED BY <5>1
        <4>4. \A i \in DOMAIN down' : i > 1 \/ inbox' # <<>> => down'[i] = Error("shutdown")
          <5>1. CASE down = <<>>
            BY <1>4, <5>1
          <5>2. CASE down = <<m>> /\ inbox = <<>>
            <6>1. DOMAIN down = {1}
              BY <5>2, SingleFacts
            <6> QED BY <1>1, <1>4, <5>2, <6>1
          <5> QED BY <4>1, <5>1, <5>2
        <4> QED BY <1>1, <1>2, <3>2, <4>2, <4>3, <4>4 DEF LeftBehind
      <3>3. \/ /\ inbox = <<>> /\ down = <<>>
               /\ up = (IF Waiting THEN <<Question>> ELSE <<>>)
            \/ /\ Waiting /\ up = <<>>
               /\ \E m : (inbox = <<m>> /\ down = <<>>) \/ (inbox = <<>> /\ down = <<m>>)
        BY <2>1 DEF InConversation
      <3> QED BY <3>1, <3>2, <3>3
    <2>3. ConversationKept'
      BY <1>1, <1>2, <1>3, <1>4, <1>6, <2>1, <2>2 DEF RunInv, ConversationKept
    <2> QED BY <1>2, <2>3 DEF RunInv
  <1> QED BY <1>5, <1>6

\* An answer goes on its way, or the server's last word with it.
LEMMA AnswerKeeps ==
  ASSUME ConversationKept, Waiting, UNCHANGED <<ws, client, inbox, T, srvCtx>>, Waiting',
         ws = "open", inbox = <<>>, down = <<>>, up' = <<>>,
         NEW r \in {Msg("pong"), Msg("opened"), Msg("stats"), Error("ctx_exceeded"),
                    Token(FALSE), Token(TRUE), Error("refused")},
         down' = <<r>>, srv' \in {"gone", "connected", "open"}, srvSeen' \in 0..MaxCtx,
         srv # "gone",
         srv' # "gone" => r # Error("refused") /\ Answered(r)',
         r = Error("ctx_exceeded") => T > srvCtx
  PROVE  ConversationKept'
  <1>1. r \in Replies
    BY FrameTypes DEF Msg, Error, Token
  <1>2. down' \in Seq(Replies) /\ DOMAIN down' = {1} /\ down'[1] = r /\ up' \in Seq(Frames)
    BY <1>1, SingleFacts
  <1>3. srv' = "gone" => LeftBehind'
    <2>1. Len(inbox') = 0 /\ Len(down') = 1
      BY SingleFacts
    <2>2. Len(inbox') + Len(down') <= 2
      <3> HIDE DEF LeftBehind
      <3> QED BY <2>1, Lengths
    <2>3. DOMAIN inbox' = {} /\ inbox' = <<>>
      BY SingleFacts
    <2> QED BY <1>2, <2>2, <2>3 DEF LeftBehind
  <1>4. srv' # "gone" => InConversation'
    BY DEF InConversation
  <1> QED BY <1>1, <1>2, <1>3, <1>4 DEF ConversationKept

\* What the server does with a frame of each kind.
LEMMA ServeCases ==
  ASSUME Serve, NEW m, m = Head(up)
  PROVE  /\ m.type = "ping" => down' = Append(down, Msg("pong")) /\ UNCHANGED <<srv, srvSeen>>
         /\ m.type = "open" =>
              /\ UNCHANGED srvSeen
              /\ \/ down' = Append(down, Msg("opened")) /\ srv' = "open"
                 \/ down' = Append(down, Error("refused")) /\ srv' = "gone"
         /\ m.type = "stats" => down' = Append(down, Msg("stats")) /\ UNCHANGED <<srv, srvSeen>>
         /\ m.type = "close" => srv' = "gone" /\ UNCHANGED <<down, srvSeen>>
         /\ m.type = "feed" =>
              IF m.start # srvSeen
                THEN down' = Append(down, Error("bad_positions")) /\ UNCHANGED <<srv, srvSeen>>
              ELSE IF m.end > srvCtx
                THEN down' = Append(down, Error("ctx_exceeded")) /\ UNCHANGED <<srv, srvSeen>>
              ELSE /\ srvSeen' = m.end /\ srv' = srv
                   /\ \E d \in BOOLEAN : (m.end >= srvCtx => d) /\ down' = Append(down, Token(d))
  <1> DEFINE k == m.type
  <1>1. \/ k = "ping" /\ down' = Append(down, Msg("pong")) /\ srv' = srv /\ UNCHANGED srvSeen
        \/ k = "open" /\ down' = Append(down, Msg("opened")) /\ srv' = "open" /\ UNCHANGED srvSeen
        \/ k = "open" /\ down' = Append(down, Error("refused")) /\ srv' = "gone" /\ UNCHANGED srvSeen
        \/ k = "stats" /\ down' = Append(down, Msg("stats")) /\ srv' = srv /\ UNCHANGED srvSeen
        \/ k = "close" /\ srv' = "gone" /\ UNCHANGED <<down, srvSeen>>
        \/ /\ k = "feed"
           /\ IF m.start # srvSeen
                THEN down' = Append(down, Error("bad_positions")) /\ srv' = srv /\ UNCHANGED srvSeen
              ELSE IF m.end > srvCtx
                THEN down' = Append(down, Error("ctx_exceeded")) /\ srv' = srv /\ UNCHANGED srvSeen
              ELSE /\ srvSeen' = m.end
                   /\ \E d \in BOOLEAN : /\ m.end >= srvCtx => d
                                         /\ down' = Append(down, Token(d)) /\ srv' = srv
    BY Zenon DEF Serve
  <1> HIDE DEF k
  <1>2. /\ k = "ping" => down' = Append(down, Msg("pong")) /\ UNCHANGED <<srv, srvSeen>>
        /\ k = "open" =>
              /\ UNCHANGED srvSeen
              /\ \/ down' = Append(down, Msg("opened")) /\ srv' = "open"
                 \/ down' = Append(down, Error("refused")) /\ srv' = "gone"
        /\ k = "stats" => down' = Append(down, Msg("stats")) /\ UNCHANGED <<srv, srvSeen>>
        /\ k = "close" => srv' = "gone" /\ UNCHANGED <<down, srvSeen>>
    BY <1>1
  <1>3. k = "feed" =>
          IF m.start # srvSeen
            THEN down' = Append(down, Error("bad_positions")) /\ UNCHANGED <<srv, srvSeen>>
          ELSE IF m.end > srvCtx
            THEN down' = Append(down, Error("ctx_exceeded")) /\ UNCHANGED <<srv, srvSeen>>
          ELSE /\ srvSeen' = m.end /\ srv' = srv
               /\ \E d \in BOOLEAN : (m.end >= srvCtx => d) /\ down' = Append(down, Token(d))
    BY <1>1
  <1> QED BY <1>2, <1>3 DEF k

LEMMA ServeKeeps ==
  ASSUME RunInv, Serve
  PROVE  RunInv'
  <1>1. /\ srv # "gone" /\ up # <<>> /\ up' = Tail(up)
        /\ UNCHANGED <<ws, inbox, srvCtx>>
        /\ UNCHANGED <<runVars, genVars, rtVars, client>>
    BY DEF Serve
  <1>2. /\ PlanKept' /\ StepsKept' /\ RuntimeKept' /\ OutcomeKept'
        /\ (Waiting' <=> Waiting)
        /\ UNCHANGED <<pc, outcome, runs, plan, T, lastDone, signal, step, pos, client>>
    BY <1>1, RunUntouched
  <1>3. CASE ~client
    <2>1. ws # "open" /\ up = <<Msg("close")>> /\ inbox = <<>> /\ down = <<>>
      BY <1>1, <1>3 DEF RunInv, ConversationKept
    <2>2. Head(up) = Msg("close") /\ up' = <<>>
      BY <1>1, <2>1, SingleFacts
    <2>3. srv' = "gone" /\ UNCHANGED <<down, srvSeen>>
      BY <2>2, ServeCases DEF Msg
    <2>4. Len(up') <= 2 /\ Len(inbox') + Len(down') <= 2
      BY <1>1, <2>1, <2>2, <2>3, SingleFacts
    <2>5. ConversationKept'
      BY <1>1, <1>2, <1>3, <2>1, <2>2, <2>3, <2>4 DEF RunInv, ConversationKept
    <2> QED BY <1>2, <2>5 DEF RunInv
  <1>4. CASE client
    <2>1. ws = "open" /\ InConversation
      BY <1>1, <1>4 DEF RunInv, ConversationKept
    <2>2. /\ Waiting /\ BeforeAnswer /\ inbox = <<>> /\ down = <<>> /\ up = <<Question>>
      BY <1>1, <2>1 DEF InConversation, Waiting
    <2>3. Head(up) = Question /\ up' = <<>>
      BY <1>1, <2>2, SingleFacts
    <2>4. \A r : Append(down, r) = <<r>>
      BY <2>2, SingleFacts
    <2>5. /\ srvSeen \in 0..MaxCtx /\ ConversationKept
      BY DEF RunInv, ConversationKept
    <2>6. CASE pc = "pinging"
      <3>1. Question = Msg("ping") /\ srvSeen = 0
        BY <2>2, <2>6 DEF Question, BeforeAnswer
      <3>2. down' = <<Msg("pong")>> /\ UNCHANGED <<srv, srvSeen>>
        <4>1. Head(up).type = "ping"
          BY <2>3, <3>1 DEF Msg
        <4> QED BY <2>4, <4>1, ServeCases, Zenon
      <3>3. Answered(Msg("pong"))'
        BY <1>2, <2>6, <3>1, <3>2 DEF Answered
      <3>4. Msg("pong") # Error("refused") /\ Msg("pong") # Error("ctx_exceeded")
        BY DEF Msg, Error
      <3>5. ConversationKept'
        BY <1>1, <1>2, <2>1, <2>2, <2>3, <2>5, <3>2, <3>3, <3>4, AnswerKeeps, SocketFacts
      <3> QED BY <1>2, <3>5 DEF RunInv
    <2>7. CASE pc = "opening"
      <3>1. Question = Msg("open") /\ srvSeen = 0
        BY <2>2, <2>7 DEF Question, BeforeAnswer
      <3>2. /\ UNCHANGED srvSeen
            /\ \/ down' = <<Msg("opened")>> /\ srv' = "open"
               \/ down' = <<Error("refused")>> /\ srv' = "gone"
        <4>1. Head(up).type = "open"
          BY <2>3, <3>1 DEF Msg
        <4> QED BY <2>4, <4>1, ServeCases, Zenon
      <3>3. Answered(Msg("opened"))'
        BY <1>2, <2>7, <3>1, <3>2 DEF Answered
      <3>4. /\ Msg("opened") # Error("refused") /\ Msg("opened") # Error("ctx_exceeded")
            /\ Error("refused") # Error("ctx_exceeded")
        BY DEF Msg, Error
      <3>5. ConversationKept'
        BY <1>1, <1>2, <2>1, <2>2, <2>3, <2>5, <3>2, <3>3, <3>4, AnswerKeeps, SocketFacts
      <3> QED BY <1>2, <3>5 DEF RunInv
    <2>8. CASE pc = "stats"
      <3>1. Question = Msg("stats")
        BY <2>8 DEF Question
      <3>2. down' = <<Msg("stats")>> /\ UNCHANGED <<srv, srvSeen>>
        <4>1. Head(up).type = "stats"
          BY <2>3, <3>1 DEF Msg
        <4> QED BY <2>4, <4>1, ServeCases, Zenon
      <3>3. Answered(Msg("stats"))'
        BY <1>2, <2>8 DEF Answered
      <3>4. Msg("stats") # Error("refused") /\ Msg("stats") # Error("ctx_exceeded")
        BY DEF Msg, Error
      <3>5. ConversationKept'
        BY <1>1, <1>2, <2>1, <2>2, <2>3, <2>5, <3>2, <3>3, <3>4, AnswerKeeps, SocketFacts
      <3> QED BY <1>2, <3>5 DEF RunInv
    <2>9. CASE pc = "awaiting"
      <3>1. /\ Question = Feed(FedAt, pos) /\ srvSeen = FedAt
            /\ step > 0 => pos <= srvCtx
        BY <2>2, <2>9 DEF Question, BeforeAnswer
      <3>2. /\ step \in Nat /\ pos = T + step /\ T \in Nat /\ pos \in 0..MaxCtx
            /\ srvCtx \in Nat
        BY <2>9, RunAssumption, <2>5, <1>1
           DEF RunInv, PlanKept, StepsKept, Session, ConversationKept
      <3>3. \/ /\ pos > srvCtx /\ down' = <<Error("ctx_exceeded")>> /\ UNCHANGED <<srv, srvSeen>>
            \/ /\ ~(pos > srvCtx) /\ srvSeen' = pos /\ srv' = srv
               /\ \E d \in BOOLEAN : (pos >= srvCtx => d) /\ down' = <<Token(d)>>
        <4>1. Head(up).type = "feed" /\ Head(up).start = FedAt /\ Head(up).end = pos
          BY <2>3, <3>1 DEF Feed
        <4>2. IF Head(up).start # srvSeen
                THEN down' = Append(down, Error("bad_positions")) /\ UNCHANGED <<srv, srvSeen>>
              ELSE IF Head(up).end > srvCtx
                THEN down' = Append(down, Error("ctx_exceeded")) /\ UNCHANGED <<srv, srvSeen>>
              ELSE /\ srvSeen' = Head(up).end /\ srv' = srv
                   /\ \E d \in BOOLEAN : /\ Head(up).end >= srvCtx => d
                                         /\ down' = Append(down, Token(d))
          BY <4>1, ServeCases, Zenon
        <4>3. \/ /\ pos > srvCtx /\ down' = Append(down, Error("ctx_exceeded"))
                 /\ UNCHANGED <<srv, srvSeen>>
              \/ /\ ~(pos > srvCtx) /\ srvSeen' = pos /\ srv' = srv
                 /\ \E d \in BOOLEAN : (pos >= srvCtx => d) /\ down' = Append(down, Token(d))
          BY <3>1, <4>1, <4>2
        <4> QED BY <2>4, <4>3, Zenon
      <3>4. CASE pos > srvCtx /\ down' = <<Error("ctx_exceeded")>> /\ UNCHANGED <<srv, srvSeen>>
        <4>1. step = 0 /\ T > srvCtx
          BY <3>1, <3>2, <3>4
        <4>2. Answered(Error("ctx_exceeded"))'
          BY <1>2, <2>9 DEF Answered
        <4>3. Error("refused") # Error("ctx_exceeded")
          BY DEF Error
        <4>4. ConversationKept'
          BY <1>1, <1>2, <2>1, <2>2, <2>3, <2>5, <3>4, <4>1, <4>2, <4>3, AnswerKeeps, SocketFacts
        <4> QED BY <1>2, <4>4 DEF RunInv
      <3>5. CASE /\ ~(pos > srvCtx) /\ srvSeen' = pos /\ srv' = srv
                 /\ \E d \in BOOLEAN : (pos >= srvCtx => d) /\ down' = <<Token(d)>>
        <4>1. PICK d \in BOOLEAN : (pos >= srvCtx => d) /\ down' = <<Token(d)>>
          BY <3>5
        <4>2. Token(d) \in {Token(FALSE), Token(TRUE)} /\ Token(d).done = d
          BY DEF Token
        <4>3. d \/ pos < srvCtx
          BY <3>2, <4>1
        <4>4. Answered(Token(d))'
          BY <1>1, <1>2, <2>9, <3>5, <4>2, <4>3 DEF Answered
        <4>5. Token(d) # Error("refused") /\ Token(d) # Error("ctx_exceeded")
          BY DEF Token, Error
        <4>6. ConversationKept'
          <5>1. srvSeen' \in 0..MaxCtx
            BY <3>2, <3>5
          <5> QED BY <1>1, <1>2, <2>1, <2>2, <2>3, <2>5, <3>5, <4>1, <4>2, <4>4, <4>5, <5>1,
                     AnswerKeeps, SocketFacts
        <4> QED BY <1>2, <4>6 DEF RunInv
      <3> QED BY <3>3, <3>4, <3>5
    <2> QED BY <2>2, <2>6, <2>7, <2>8, <2>9 DEF Waiting
  <1> QED BY <1>3, <1>4

-----------------------------------------------------------------------------
(***************************************************************************)
(* The steps of the run                                                    *)
(***************************************************************************)

LEMMA PlanFacts ==
  /\ \A p \in Plans : /\ p.mode \in {"server", "local", "split"} /\ p.N \in 0..L
                      /\ p.mode \in {"local", "split"} => p.N >= 1
                      /\ p.mode = "server" => p.N = 0
  /\ NoPlan.N = 0 /\ NoPlan.mode = "none" /\ L \in Nat \ {0}
  BY RunAssumption DEF Plans, NoPlan

LEMMA Limits ==
  /\ MaxTokens \in Nat \ {0} /\ MaxCtx \in Nat /\ Pings \in Nat \ {0} /\ MaxRuns \in Nat
  /\ Prompts \subseteq Nat \ {0} /\ ServerCtx \subseteq Nat
  BY RunAssumption

LEMMA InitRunInv == Init => RunInv
  <1> SUFFICES ASSUME Init PROVE RunInv
    OBVIOUS
  <1>1. PlanKept /\ StepsKept /\ OutcomeKept
    <2>1. PlanKept
      <3>1. 0 \in 0..MaxRuns
        BY Limits
      <3>2. pc = "idle" /\ pc \notin {"loading", "opening"} \cup Session
        BY DEF Init, Session
      <3> QED BY <3>1, <3>2 DEF Init, PlanKept
    <2>2. 0 \in 0..(MaxTokens + Pings) /\ 0 \in 0..MaxCtx
      BY Limits
    <2>3. StepsKept
      BY <2>2 DEF Init, StepsKept, Session
    <2> QED BY <2>1, <2>3 DEF Init, OutcomeKept
  <1>2. RuntimeKept
    BY Limits, PlanFacts DEF Init, RuntimeKept, Session
  <1>3. ConversationKept
    <2>1. Len(up) <= 2 /\ Len(inbox) + Len(down) <= 2
      BY DEF Init
    <2>2. ~Waiting /\ DOMAIN down = {}
      BY DEF Init, Waiting
    <2> QED BY <2>1, <2>2, Limits DEF Init, ConversationKept
  <1> QED BY <1>1, <1>2, <1>3 DEF RunInv

LEMMA BeginKeeps ==
  ASSUME RunInv, Begin
  PROVE  RunInv'
  <1>1. /\ outcome' = "none" /\ runs' = runs + 1 /\ runs < MaxRuns
        /\ T' \in Prompts /\ T' + MaxTokens <= MaxCtx
        /\ signal' = FALSE /\ lastDone' = FALSE /\ plan' = NoPlan
        /\ step' = 1 /\ pos' = 0 /\ inbox' = <<>> /\ down' = <<>> /\ srvSeen' = 0
        /\ UNCHANGED <<loaded, got, kv>>
    BY DEF Begin, rtVars
  <1>2. \/ /\ client' = TRUE /\ ws' = "open" /\ up' = <<Msg("ping")>>
           /\ srv' = "connected" /\ srvCtx' \in ServerCtx /\ pc' = "pinging"
        \/ /\ client' = FALSE /\ ws' = "none" /\ up' = <<>>
           /\ srv' = "gone" /\ srvCtx' = 0 /\ pc' = "planning"
    BY DEF Begin
  <1>3. PlanKept' /\ StepsKept' /\ OutcomeKept'
    <2>1. pc' \in {"pinging", "planning"} /\ client' \in BOOLEAN
      BY <1>2
    <2>2. runs' \in 0..MaxRuns
      BY <1>1, Limits DEF RunInv, PlanKept
    <2>3. PlanKept'
      BY <1>1, <2>1, <2>2 DEF PlanKept, Session
    <2>4. 1 \in 1..Pings
      BY Limits
    <2>5. StepsKept'
      BY <1>1, <2>1, <2>4 DEF StepsKept, Session
    <2> QED BY <1>1, <2>3, <2>5 DEF OutcomeKept
  <1>4. RuntimeKept'
    BY <1>1, <1>2 DEF RunInv, RuntimeKept, HasGroups, Session
  <1>5. ConversationKept'
    <2>1. DOMAIN down' = {} /\ Len(inbox') + Len(down') <= 2 /\ Len(<<>>) <= 2
      BY <1>1
    <2>2. CASE pc' = "pinging"
      <3>1. /\ client' = TRUE /\ ws' = "open" /\ up' = <<Msg("ping")>>
            /\ srv' = "connected" /\ srvCtx' \in ServerCtx
        BY <1>2, <2>2
      <3>2. InConversation'
        BY <1>1, <2>2, <3>1 DEF InConversation, BeforeAnswer, Waiting, Question
      <3> QED BY <1>1, <2>1, <3>1, <3>2, FrameTypes, Limits DEF ConversationKept
    <2>3. CASE pc' = "planning"
      <3>1. client' = FALSE /\ ws' = "none" /\ up' = <<>> /\ srv' = "gone" /\ srvCtx' = 0
        BY <1>2, <2>3
      <3>2. ~Waiting'
        BY <2>3 DEF Waiting
      <3> QED BY <1>1, <2>1, <3>1, <3>2, Limits DEF ConversationKept
    <2> QED BY <1>2, <2>2, <2>3
  <1> QED BY <1>3, <1>4, <1>5 DEF RunInv

LEMMA PongKeeps ==
  ASSUME RunInv, Pong
  PROVE  RunInv'
  <1> DEFINE M == {Msg("pong"), Error("closed"), Error("shutdown")}
  <1>1. /\ pc = "pinging" /\ Waiting /\ client
        /\ UNCHANGED <<outcome, runs, plan, T, pos, lastDone, signal, loaded, got, kv, down,
                       srv, srvSeen, srvCtx>>
    BY DEF Pong, Waiting, RunInv, ConversationKept, rtVars, srvVars
  <1>2. PICK m \in M :
          /\ Take(m)
          /\ \/ /\ m.type = "error" /\ CloseClient /\ pc' = "planning" /\ UNCHANGED step
             \/ /\ m.type # "error" /\ step < Pings /\ Ask(Msg("ping")) /\ step' = step + 1
                /\ UNCHANGED <<pc, client, ws>>
             \/ /\ m.type # "error" /\ ~(step < Pings) /\ KeepClient /\ pc' = "planning"
                /\ UNCHANGED step
    BY DEF Pong
  <1>3. step \in 1..Pings /\ pos = 0 /\ step' \in 1..Pings /\ pc' \in {"pinging", "planning"}
        /\ client' \in BOOLEAN
    <2>1. step \in 1..Pings /\ pos = 0 /\ client \in BOOLEAN
      BY <1>1 DEF RunInv, StepsKept, PlanKept
    <2>2. step' = step \/ (step < Pings /\ step' = step + 1)
      BY <1>2
    <2>3. step' \in 1..Pings
      BY <2>1, <2>2, Limits
    <2>4. client' \in BOOLEAN
      BY <1>2, <2>1 DEF CloseClient, KeepClient
    <2>5. pc' \in {"pinging", "planning"}
      BY <1>1, <1>2
    <2> QED BY <2>1, <2>3, <2>4, <2>5
  <1>4. PlanKept' /\ StepsKept'
    BY <1>1, <1>3 DEF RunInv, PlanKept, StepsKept, Session
  <1>5. RuntimeKept' /\ OutcomeKept'
    BY <1>1, <1>3 DEF RunInv, RuntimeKept, HasGroups, OutcomeKept, Session
  <1>6. ConversationKept'
    <2>1. CASE m.type = "error" /\ CloseClient /\ pc' = "planning"
      <3>1. ~Waiting'
        BY <2>1 DEF Waiting
      <3> QED BY <1>1, <1>2, <2>1, <3>1, CloseKeeps DEF RunInv
    <2>2. CASE /\ m.type # "error" /\ KeepClient /\ pc' = "planning"
      <3>1. ~Waiting' /\ m = Msg("pong") /\ m # Error("shutdown")
        BY <1>2, <2>2 DEF Waiting, Msg, Error
      <3>2. Answered(m) => BeforeAnswer'
        BY <1>1, <2>2 DEF Answered, BeforeAnswer
      <3> QED BY <1>1, <1>2, <2>2, <3>1, <3>2, TakeKeeps DEF RunInv, KeepClient
    <2>3. CASE /\ m.type # "error" /\ step < Pings /\ Ask(Msg("ping"))
               /\ UNCHANGED <<pc, client, ws>>
      <3>1. Waiting' /\ m # Error("shutdown") /\ Question' = Msg("ping")
        BY <1>1, <2>3 DEF Waiting, Error, Question
      <3>2. /\ srv # "gone" => ws = "open" /\ Answered(m) /\ up = <<>> /\ inbox' = <<>> /\ down = <<>>
            /\ inbox' \in Seq(Replies) /\ Len(inbox') + Len(down) <= 1
            /\ up = <<>>
            /\ ws = "open" => OnlyLastWord(inbox') /\ OnlyLastWord(down)
        BY <1>1, <1>2, <3>1, TakeFacts DEF RunInv
      <3>3. /\ down \in Seq(Replies) /\ ws \in {"open", "closed"}
            /\ srv \in {"gone", "connected", "open"}
            /\ srvSeen \in 0..MaxCtx /\ srvCtx \in ServerCtx \cup {0}
            /\ srv # "gone" => srvCtx \in ServerCtx
            /\ \A i \in DOMAIN down : down[i] = Error("ctx_exceeded") => T > srvCtx
            /\ ws = "closed" => srv = "gone" /\ down = <<>>
        BY <1>1 DEF RunInv, ConversationKept
      <3>4. CASE ws = "open"
        <4>1. up' = <<Msg("ping")>> /\ up' \in Seq(Frames) /\ Len(up') = 1
          BY <2>3, <3>2, <3>4, SingleFacts, FrameTypes DEF Ask
        <4>2. srv # "gone" => InConversation'
          <5>1. srv # "gone" => BeforeAnswer'
            BY <1>1, <2>3, <3>2 DEF Answered, BeforeAnswer
          <5> QED BY <1>1, <3>1, <3>2, <4>1, <5>1 DEF InConversation
        <4>3. srv = "gone" => LeftBehind'
          BY <1>1, <3>1, <3>2, <3>4, <4>1 DEF LeftBehind, OnlyLastWord
        <4> QED BY <1>1, <2>3, <3>2, <3>3, <3>4, <4>1, <4>2, <4>3 DEF ConversationKept
      <3>5. CASE ws = "closed"
        <4>1. up' = <<>> /\ up' \in Seq(Frames)
          BY <2>3, <3>2, <3>5 DEF Ask
        <4>2. Len(inbox') <= 2
          <5>1. Len(inbox') \in Nat /\ Len(down) \in Nat
            BY <3>2, <3>3, SeqFacts
          <5> QED BY <3>2, <5>1, Lengths
        <4> QED BY <1>1, <2>3, <3>2, <3>3, <3>5, <4>1, <4>2 DEF ConversationKept
      <3> QED BY <3>3, <3>4, <3>5
    <2> QED BY <1>2, <2>1, <2>2, <2>3
  <1> QED BY <1>4, <1>5, <1>6 DEF RunInv

LEMMA PlanKeeps ==
  ASSUME RunInv, Plan
  PROVE  RunInv'
  <1>1. /\ pc = "planning"
        /\ UNCHANGED <<outcome, runs, T, step, pos, lastDone, signal, inbox, down, srv, srvSeen, srvCtx>>
    BY DEF Plan, genVars, srvVars
  <1>2. PICK p \in Plans :
          /\ p.mode # "local" => client
          /\ plan' = p
          /\ IF p.mode = "local" THEN CloseClient ELSE KeepClient
          /\ \/ /\ p.N = 0 \/ loaded = p
                /\ pc' = "opening" /\ UNCHANGED <<loaded, got, kv>>
             \/ /\ ~(p.N = 0 \/ loaded = p)
                /\ pc' = "loading" /\ loaded' = NoPlan /\ got' = 0 /\ kv' = 0
    BY DEF Plan, rtVars
  <1>3. client' \in BOOLEAN /\ (client' <=> p.mode # "local")
    BY <1>2 DEF CloseClient, KeepClient, RunInv, PlanKept
  <1>4. PlanKept'
    BY <1>1, <1>2, <1>3 DEF RunInv, PlanKept, Session
  <1>5. StepsKept'
    BY <1>1, <1>2, Limits DEF RunInv, StepsKept, Session
  <1>6. RuntimeKept'
    <2>1. p.N \in 0..L /\ p.mode \in {"server", "local", "split"} /\ NoPlan.N = 0 /\ L \in Nat
      BY PlanFacts
    <2>2. ~Ready(p, 0)
      BY <2>1 DEF Ready
    <2>3. CASE pc' = "opening" /\ UNCHANGED <<loaded, got, kv>>
      BY <1>2, <2>1, <2>3 DEF RunInv, RuntimeKept, HasGroups, Session
    <2>4. CASE /\ ~(p.N = 0 \/ loaded = p)
               /\ pc' = "loading" /\ loaded' = NoPlan /\ got' = 0 /\ kv' = 0
      BY <1>2, <2>1, <2>2, <2>4, Limits DEF RuntimeKept, Session
    <2> QED BY <1>2, <2>3, <2>4
  <1>7. OutcomeKept'
    BY <1>1, <1>2 DEF RunInv, OutcomeKept
  <1>8. ~Waiting /\ ~Waiting'
    <2>1. step \in 1..Pings
      BY <1>1 DEF RunInv, StepsKept
    <2>2. step # 0 /\ step' # 0
      BY <1>1, <2>1, Limits
    <2> QED BY <1>1, <1>2, <2>2 DEF Waiting
  <1>9. ConversationKept'
    <2>1. CASE CloseClient
      BY <1>1, <1>8, <2>1, CloseKeeps DEF RunInv
    <2>2. CASE KeepClient
      <3>1. BeforeAnswer => BeforeAnswer'
        BY <1>1, <1>2 DEF BeforeAnswer
      <3> QED BY <1>1, <1>8, <2>2, <3>1, QuietKeeps DEF RunInv, KeepClient, wsVars, srvVars
    <2> QED BY <1>2, <2>1, <2>2
  <1> QED BY <1>4, <1>5, <1>6, <1>7, <1>9 DEF RunInv

LEMMA NoPlanFitsKeeps ==
  ASSUME RunInv, NoPlanFits
  PROVE  RunInv'
  <1>1. /\ pc = "planning" /\ pc' = "idle" /\ outcome' = "rejected" /\ CloseClient
        /\ UNCHANGED <<runs, plan, T, step, pos, lastDone, signal, loaded, got, kv, inbox, down,
                       srv, srvSeen, srvCtx>>
    BY DEF NoPlanFits, Settle, genVars, rtVars, srvVars
  <1>2. client' \in BOOLEAN
    BY <1>1 DEF CloseClient
  <1>3. PlanKept'
    BY <1>1, <1>2 DEF RunInv, PlanKept, Session
  <1>4. StepsKept'
    <2>1. step \in 0..(MaxTokens + Pings) /\ pos \in 0..MaxCtx
      <3>1. step \in 1..Pings /\ pos = 0
        BY <1>1 DEF RunInv, StepsKept
      <3> QED BY <3>1, Limits
    <2> QED BY <1>1, <2>1 DEF StepsKept, Session
  <1>5. RuntimeKept' /\ OutcomeKept'
    BY <1>1 DEF RunInv, RuntimeKept, HasGroups, OutcomeKept, Session
  <1>6. ~Waiting /\ ~Waiting'
    BY <1>1 DEF Waiting
  <1>7. ConversationKept'
    BY <1>1, <1>6, CloseKeeps DEF RunInv
  <1> QED BY <1>3, <1>4, <1>5, <1>7 DEF RunInv

\* The stream is left at the first group that makes the runtime ready: one
\* group more does not make it ready of something else.
LEMMA ReadyIsGroups ==
  ASSUME NEW p \in Plans, p.N >= 1, got \in 0..(L + 3), got' = got + 1, got < L + 3,
         ~Ready(p, got), Ready(p, got')
  PROVE  HasGroups(p)'
  <1>1. p.mode \in {"local", "split"} /\ p.N \in 0..L /\ L \in Nat \ {0} /\ Tied \in BOOLEAN
    BY PlanFacts, RunAssumption
  <1>2. p.mode = "local" => p.N = L
    BY <1>1 DEF Plans
  <1>3. CASE p.mode = "split"
    BY <1>1, <1>3 DEF Ready, HasGroups
  <1>4. CASE p.mode = "local"
    <2>1. CASE Tied
      BY <1>1, <1>4, <2>1 DEF Ready, HasGroups
    <2>2. CASE ~Tied
      BY <1>1, <1>4, <2>2 DEF Ready, HasGroups
    <2> QED BY <2>1, <2>2
  <1> QED BY <1>1, <1>3, <1>4

LEMMA LoadKeeps ==
  ASSUME RunInv, Load
  PROVE  RunInv'
  <1>1. /\ pc = "loading" /\ got < L + 3 /\ got' = got + 1
        /\ \/ Ready(plan, got') /\ loaded' = plan /\ pc' = "opening"
           \/ ~Ready(plan, got') /\ loaded' = loaded /\ pc' = "loading"
        /\ UNCHANGED <<outcome, runs, plan, T, lastDone, signal, step, pos, kv, client, ws, inbox,
                       up, down, srv, srvSeen, srvCtx>>
    BY DEF Load, genVars, wsVars, srvVars
  <1>2. /\ plan \in Plans /\ plan.N >= 1 /\ loaded = NoPlan /\ ~Ready(plan, got)
        /\ got \in 0..(L + 3) /\ kv \in 0..MaxCtx /\ step \in 1..Pings
    BY <1>1 DEF RunInv, PlanKept, RuntimeKept, StepsKept, Session
  <1>3. PlanKept'
    BY <1>1 DEF RunInv, PlanKept, Session
  <1>4. StepsKept' /\ OutcomeKept'
    <2>1. step \in 0..Pings
      BY <1>2, Limits
    <2> QED BY <1>1, <2>1 DEF RunInv, StepsKept, OutcomeKept, Session
  <1>5. RuntimeKept'
    <2>1. got' \in 0..(L + 3)
      BY <1>1, <1>2, PlanFacts
    <2>2. CASE Ready(plan, got') /\ loaded' = plan /\ pc' = "opening"
      <3>1. HasGroups(plan)'
        BY <1>1, <1>2, <2>2, ReadyIsGroups
      <3>2. HasGroups(plan') <=> HasGroups(plan)
        BY <1>1 DEF HasGroups
      <3> QED BY <1>1, <1>2, <2>1, <2>2, <3>1 DEF RuntimeKept, Session, HasGroups
    <2>3. CASE ~Ready(plan, got') /\ loaded' = loaded /\ pc' = "loading"
      BY <1>1, <1>2, <2>1, <2>3 DEF RuntimeKept, Session
    <2> QED BY <1>1, <2>2, <2>3
  <1>6. ~Waiting /\ ~Waiting'
    BY <1>1, <1>2, Limits DEF Waiting
  <1>7. BeforeAnswer => BeforeAnswer'
    BY <1>1 DEF BeforeAnswer
  <1>8. ConversationKept'
    BY <1>1, <1>6, <1>7, QuietKeeps DEF RunInv, wsVars, srvVars
  <1> QED BY <1>3, <1>4, <1>5, <1>8 DEF RunInv

LEMMA ThrowKeeps ==
  ASSUME RunInv, Throw
  PROVE  RunInv'
  <1>1. /\ pc \in {"loading", "yielded", "forward", "awaiting"} /\ kv' \in {kv, pos}
        /\ pc = "awaiting" => plan.mode = "local"
        /\ pc' = "idle" /\ outcome' = "rejected"
        /\ UNCHANGED <<runs, plan, T, lastDone, signal, step, pos, loaded, got, client, ws, inbox,
                       up, down, srv, srvSeen, srvCtx>>
    BY DEF Throw, Settle, genVars, wsVars, srvVars
  <1>2. step \in 0..(MaxTokens + Pings) /\ pos \in 0..MaxCtx
    <2>1. CASE pc = "loading"
      <3>1. step \in 1..Pings /\ pos = 0
        BY <2>1 DEF RunInv, StepsKept
      <3> QED BY <3>1, Limits
    <2>2. CASE pc \in Session
      <3>1. step \in 0..(MaxTokens - 1) /\ pos = T + step /\ T \in Nat /\ T + MaxTokens <= MaxCtx
        BY <2>2, Limits DEF RunInv, StepsKept, PlanKept, Session
      <3> QED BY <3>1, Limits
    <2> QED BY <1>1, <2>1, <2>2 DEF Session
  <1>3. PlanKept'
    BY <1>1 DEF RunInv, PlanKept, Session
  <1>4. StepsKept' /\ OutcomeKept'
    BY <1>1, <1>2 DEF StepsKept, OutcomeKept, Session
  <1>5. RuntimeKept'
    BY <1>1, <1>2 DEF RunInv, RuntimeKept, HasGroups, Session
  <1>6. ~Waiting /\ ~Waiting'
    BY <1>1 DEF Waiting
  <1>7. ConversationKept'
    BY <1>1, <1>6, QuietKeeps DEF RunInv, wsVars, srvVars
  <1> QED BY <1>3, <1>4, <1>5, <1>7 DEF RunInv

\* A generation starts at its step 0, behind the prompt.
LEMMA StartKeeps ==
  ASSUME RunInv, pc = "opening", StartGenerate,
         UNCHANGED <<outcome, runs, plan, T, lastDone, signal, loaded, got, kv, client>>
  PROVE  PlanKept' /\ StepsKept' /\ RuntimeKept' /\ OutcomeKept'
  <1>1. pc' = "forward" /\ step' = 0 /\ pos' = T
    BY DEF StartGenerate
  <1>2. T \in Prompts /\ T + MaxTokens <= MaxCtx /\ T \in Nat
    BY Limits DEF RunInv, PlanKept
  <1>3. PlanKept'
    BY <1>1 DEF RunInv, PlanKept, Session
  <1>4. StepsKept'
    <2>1. 0 \in 0..(MaxTokens - 1) /\ T = T + 0
      BY <1>2, Limits
    <2> QED BY <1>1, <1>2, <2>1 DEF StepsKept, Session
  <1>5. RuntimeKept' /\ OutcomeKept'
    BY <1>1 DEF RunInv, RuntimeKept, HasGroups, OutcomeKept, Session
  <1> QED BY <1>3, <1>4, <1>5

LEMMA OpenKeeps ==
  ASSUME RunInv, Open
  PROVE  RunInv'
  <1>1. /\ pc = "opening" /\ step # 0
        /\ UNCHANGED <<outcome, runs, plan, T, lastDone, signal, loaded, got, kv, client, ws,
                       inbox, down, srv, srvSeen, srvCtx>>
    BY DEF Open, rtVars, srvVars
  <1>2. ~Waiting
    BY <1>1 DEF Waiting
  <1>3. CASE plan.mode = "local"
    <2>1. StartGenerate /\ UNCHANGED up
      BY <1>3 DEF Open
    <2>2. ~client /\ ~Waiting' /\ pc' = "forward"
      BY <1>1, <1>3, <2>1 DEF RunInv, PlanKept, StartGenerate, Waiting
    <2>3. ConversationKept'
      BY <1>1, <1>2, <2>1, <2>2, QuietKeeps DEF RunInv, wsVars, srvVars
    <2> QED BY <1>1, <2>1, <2>3, StartKeeps DEF RunInv
  <1>4. CASE plan.mode # "local"
    <2>1. Ask(Msg("open")) /\ step' = 0 /\ pc' = "opening" /\ pos' = pos
      BY <1>1, <1>4 DEF Open
    <2>2. PlanKept'
      BY <1>1, <2>1 DEF RunInv, PlanKept, Session
    <2>3. StepsKept'
      BY <1>1, <2>1, Limits DEF RunInv, StepsKept, Session
    <2>4. RuntimeKept' /\ OutcomeKept'
      BY <1>1, <2>1 DEF RunInv, RuntimeKept, HasGroups, OutcomeKept, Session
    <2>5. client /\ Waiting' /\ Question' = Msg("open") /\ Msg("open") \in Frames
      BY <1>1, <1>4, <2>1, FrameTypes DEF RunInv, PlanKept, Waiting, Question
    <2>6. BeforeAnswer => BeforeAnswer'
      BY <1>1, <2>1 DEF BeforeAnswer
    <2>7. ConversationKept'
      BY <1>1, <1>2, <2>1, <2>5, <2>6, AskKeeps DEF RunInv
    <2> QED BY <2>2, <2>3, <2>4, <2>7 DEF RunInv
  <1> QED BY <1>3, <1>4

\* A run that fails while it waits leaves its steps where they are.
LEMMA RejectKeeps ==
  ASSUME RunInv, pc \in {"opening", "awaiting"}, Settle("rejected"),
         UNCHANGED <<runs, plan, T, lastDone, signal, step, pos, loaded, got, kv, client>>
  PROVE  PlanKept' /\ StepsKept' /\ RuntimeKept' /\ OutcomeKept'
  <1>1. pc' = "idle" /\ outcome' = "rejected"
    BY DEF Settle
  <1>2. step \in 0..(MaxTokens + Pings) /\ pos \in 0..MaxCtx
    <2>1. CASE pc = "opening"
      <3>1. step \in 0..Pings /\ pos = 0
        BY <2>1 DEF RunInv, StepsKept
      <3> QED BY <3>1, Limits
    <2>2. CASE pc = "awaiting"
      <3>1. step \in 0..(MaxTokens - 1) /\ pos = T + step /\ T \in Nat /\ T + MaxTokens <= MaxCtx
        BY <2>2, Limits DEF RunInv, StepsKept, PlanKept, Session
      <3> QED BY <3>1, Limits
    <2> QED BY <2>1, <2>2
  <1>3. PlanKept'
    BY <1>1 DEF RunInv, PlanKept, Session
  <1>4. StepsKept' /\ OutcomeKept'
    BY <1>1, <1>2 DEF StepsKept, OutcomeKept, Session
  <1>5. RuntimeKept'
    BY <1>1 DEF RunInv, RuntimeKept, HasGroups, Session
  <1> QED BY <1>3, <1>4, <1>5

LEMMA OpenedKeeps ==
  ASSUME RunInv, Opened
  PROVE  RunInv'
  <1>1. /\ pc = "opening" /\ step = 0 /\ Waiting /\ client
        /\ UNCHANGED <<runs, plan, T, lastDone, signal, loaded, got, kv, client, ws, up, down,
                       srv, srvSeen, srvCtx>>
    BY DEF Opened, Waiting, RunInv, ConversationKept, rtVars, srvVars
  <1>2. PICK m \in {Msg("opened")} \cup {Error(e) : e \in {"closed", "refused", "shutdown"}} :
          /\ Take(m)
          /\ \/ m.type = "error" /\ Settle("rejected") /\ UNCHANGED <<step, pos>>
             \/ m.type # "error" /\ StartGenerate /\ UNCHANGED outcome
    BY DEF Opened, genVars
  <1>3. CASE m.type = "error" /\ Settle("rejected") /\ UNCHANGED <<step, pos>>
    <2>1. pc' = "idle" /\ ~Waiting'
      BY <1>3 DEF Settle, Waiting
    <2>2. ConversationKept'
      BY <1>1, <1>2, <2>1, TakeKeeps DEF RunInv
    <2> QED BY <1>1, <1>3, <2>2, RejectKeeps DEF RunInv
  <1>4. CASE m.type # "error" /\ StartGenerate /\ UNCHANGED outcome
    <2>1. m = Msg("opened") /\ m # Error("shutdown")
      BY <1>4 DEF Msg, Error
    <2>2. pc' = "forward" /\ step' = 0 /\ ~Waiting' /\ T \in Nat
      BY <1>1, <1>4, Limits DEF StartGenerate, Waiting, RunInv, PlanKept
    <2>3. Answered(m) => BeforeAnswer'
      BY <1>1, <2>2 DEF Answered, BeforeAnswer, FedAt
    <2>4. ConversationKept'
      BY <1>1, <1>2, <2>1, <2>2, <2>3, TakeKeeps DEF RunInv
    <2> QED BY <1>1, <1>4, <2>4, StartKeeps DEF RunInv
  <1> QED BY <1>2, <1>3, <1>4

LEMMA ForwardKeeps ==
  ASSUME RunInv, Forward
  PROVE  RunInv'
  <1>1. /\ pc = "forward" /\ pc' = "awaiting" /\ kv' = (IF plan.N = 0 THEN kv ELSE pos)
        /\ UNCHANGED <<outcome, runs, plan, T, lastDone, signal, step, pos, loaded, got, client,
                       ws, inbox, down, srv, srvSeen, srvCtx>>
    BY DEF Forward, genVars, srvVars
  <1>2. /\ step \in 0..(MaxTokens - 1) /\ pos = T + step /\ T \in Prompts /\ T + MaxTokens <= MaxCtx
        /\ plan \in Plans /\ (client <=> plan.mode # "local")
        /\ T \in Nat \ {0} /\ MaxTokens \in Nat /\ MaxCtx \in Nat
    BY <1>1, Limits DEF RunInv, PlanKept, StepsKept, Session
  <1>3. pos \in 0..MaxCtx /\ pos - 1 \in Nat /\ FedAt \in Nat /\ FedAt' = FedAt
    <2>1. pos \in 0..MaxCtx /\ pos - 1 \in Nat
      BY <1>2
    <2> QED BY <1>1, <2>1 DEF FedAt
  <1>4. PlanKept' /\ StepsKept' /\ OutcomeKept'
    BY <1>1 DEF RunInv, PlanKept, StepsKept, OutcomeKept, Session
  <1>5. RuntimeKept'
    <2>1. kv' \in 0..MaxCtx /\ (plan.N >= 1 => kv' = pos)
      BY <1>1, <1>3, PlanFacts DEF RunInv, RuntimeKept
    <2> QED BY <1>1, <2>1 DEF RunInv, RuntimeKept, HasGroups, Session
  <1>6. ~Waiting
    BY <1>1 DEF Waiting
  <1>7. CASE plan.mode = "local"
    <2>1. ~client /\ ~Waiting' /\ UNCHANGED up
      BY <1>1, <1>2, <1>7 DEF Forward, Waiting
    <2>2. ConversationKept'
      BY <1>1, <1>6, <2>1, QuietKeeps DEF RunInv, wsVars, srvVars
    <2> QED BY <1>4, <1>5, <2>2 DEF RunInv
  <1>8. CASE plan.mode # "local"
    <2>1. client /\ Waiting' /\ Ask(Feed(FedAt, pos)) /\ Question' = Feed(FedAt, pos)
      BY <1>1, <1>2, <1>3, <1>8 DEF Forward, Waiting, Question
    <2>2. Feed(FedAt, pos) \in Frames
      BY <1>3, FrameTypes
    <2>3. BeforeAnswer => BeforeAnswer'
      BY <1>1, <1>3 DEF BeforeAnswer
    <2>4. ConversationKept'
      BY <1>1, <1>6, <2>1, <2>2, <2>3, AskKeeps DEF RunInv
    <2> QED BY <1>4, <1>5, <2>4 DEF RunInv
  <1> QED BY <1>7, <1>8

LEMMA TokenArrivesKeeps ==
  ASSUME RunInv, TokenArrives
  PROVE  RunInv'
  <1>1. /\ pc = "awaiting"
        /\ UNCHANGED <<runs, plan, T, signal, step, pos, loaded, got, kv, client, ws, up, down,
                       srv, srvSeen, srvCtx>>
    BY DEF TokenArrives, genVars, rtVars, srvVars
  <1>2. PICK m \in {Token(d) : d \in BOOLEAN}
                   \cup {Error(e) : e \in {"closed", "bad_positions", "ctx_exceeded", "shutdown"}} :
          /\ IF plan.mode = "local" THEN m.type = "token" /\ UNCHANGED inbox ELSE Take(m)
          /\ \/ m.type = "error" /\ Settle("rejected") /\ UNCHANGED lastDone
             \/ m.type # "error" /\ pc' = "yielded" /\ lastDone' = IsDone(m) /\ UNCHANGED outcome
    BY DEF TokenArrives
  <1>3. client <=> plan.mode # "local"
    BY <1>1 DEF RunInv, PlanKept, Session
  <1>4. plan.mode # "local" => Waiting
    BY <1>1 DEF Waiting
  <1>5. CASE m.type = "error" /\ Settle("rejected") /\ UNCHANGED lastDone
    <2>1. plan.mode # "local"
      BY <1>2, <1>5
    <2>2. pc' = "idle" /\ ~Waiting'
      BY <1>5 DEF Settle, Waiting
    <2>3. ConversationKept'
      BY <1>1, <1>2, <1>3, <1>4, <2>1, <2>2, TakeKeeps DEF RunInv
    <2> QED BY <1>1, <1>5, <2>3, RejectKeeps DEF RunInv
  <1>6. CASE m.type # "error" /\ pc' = "yielded" /\ lastDone' = IsDone(m) /\ UNCHANGED outcome
    <2>1. PICK d \in BOOLEAN : m = Token(d)
      BY <1>6 DEF Error
    <2>2. m.done = d /\ m # Error("shutdown")
      BY <2>1 DEF Token, Error
    <2>3. lastDone' \in BOOLEAN
      BY <1>6, <2>2 DEF IsDone
    <2>4. d => lastDone'
      BY <1>6, <2>2 DEF IsDone
    <2>5. ~lastDone' => step + 1 < MaxTokens
      <3>1. step \in Nat /\ MaxTokens \in Nat
        BY <1>1, Limits DEF RunInv, StepsKept, Session
      <3>2. ~lastDone' => ~(step + 1 >= MaxTokens)
        BY <1>6, Zenon DEF IsDone
      <3> QED BY <3>1, <3>2
    <2>6. PlanKept'
      BY <1>1, <1>6, <2>3 DEF RunInv, PlanKept, Session
    <2>7. StepsKept'
      BY <1>1, <1>6, <2>5 DEF RunInv, StepsKept, Session
    <2>8. RuntimeKept' /\ OutcomeKept'
      BY <1>1, <1>6 DEF RunInv, RuntimeKept, HasGroups, OutcomeKept, Session
    <2>9. ~Waiting'
      BY <1>6 DEF Waiting
    <2>10. CASE plan.mode = "local"
      <3>1. ~client /\ ~Waiting /\ UNCHANGED inbox
        BY <1>1, <1>2, <1>3, <2>10 DEF Waiting
      <3>2. ConversationKept'
        BY <1>1, <2>9, <3>1, QuietKeeps DEF RunInv, wsVars, srvVars
      <3> QED BY <2>6, <2>7, <2>8, <3>2 DEF RunInv
    <2>11. CASE plan.mode # "local"
      <3>1. Answered(m) => BeforeAnswer'
        <4> SUFFICES ASSUME Answered(m) PROVE BeforeAnswer'
          OBVIOUS
        <4>1. srvSeen = pos /\ (d \/ pos < srvCtx)
          <5>1. m # Error("ctx_exceeded")
            BY <2>1 DEF Token, Error
          <5> QED BY <1>1, <2>2, <5>1 DEF Answered
        <4> QED BY <1>1, <1>6, <2>4, <4>1 DEF BeforeAnswer
      <3>2. ConversationKept'
        BY <1>1, <1>2, <1>3, <1>4, <2>2, <2>9, <2>11, <3>1, TakeKeeps DEF RunInv
      <3> QED BY <2>6, <2>7, <2>8, <3>2 DEF RunInv
    <2> QED BY <2>10, <2>11
  <1> QED BY <1>2, <1>5, <1>6

LEMMA NextTokenKeeps ==
  ASSUME RunInv, NextToken
  PROVE  RunInv'
  <1>1. /\ pc = "yielded"
        /\ UNCHANGED <<outcome, runs, plan, T, lastDone, signal, loaded, got, kv, client, ws,
                       inbox, down, srv, srvSeen, srvCtx>>
    BY DEF NextToken, rtVars, srvVars
  <1>2. /\ step \in 0..(MaxTokens - 1) /\ pos = T + step /\ T \in Nat /\ MaxTokens \in Nat
        /\ T + MaxTokens <= MaxCtx /\ MaxCtx \in Nat /\ (~lastDone => step + 1 < MaxTokens)
        /\ plan.N >= 1 => kv = pos
    BY <1>1, Limits DEF RunInv, PlanKept, StepsKept, RuntimeKept, Session
  <1>3. ~Waiting
    BY <1>1 DEF Waiting
  <1>4. CASE ~lastDone
    <2>1. pc' = "forward" /\ step' = step + 1 /\ pos' = pos + 1 /\ UNCHANGED up
      BY <1>4 DEF NextToken
    <2>2. PlanKept' /\ OutcomeKept'
      BY <1>1, <2>1 DEF RunInv, PlanKept, OutcomeKept, Session
    <2>3. step' \in 0..(MaxTokens - 1) /\ pos' = T + step'
      BY <1>2, <1>4, <2>1
    <2>4. StepsKept'
      BY <1>1, <2>1, <2>3 DEF StepsKept, Session
    <2>5. FedAt' = pos
      BY <1>2, <2>1 DEF FedAt
    <2>6. RuntimeKept'
      BY <1>1, <1>2, <2>1, <2>5 DEF RunInv, RuntimeKept, HasGroups, Session
    <2>7. ~Waiting'
      BY <2>1 DEF Waiting
    <2>8. BeforeAnswer => BeforeAnswer'
      <3> SUFFICES ASSUME BeforeAnswer PROVE BeforeAnswer'
        OBVIOUS
      <3>1. srvSeen = pos /\ pos < srvCtx
        BY <1>1, <1>4 DEF BeforeAnswer
      <3>2. srvCtx \in Nat
        BY Limits DEF RunInv, ConversationKept
      <3>3. pos + 1 <= srvCtx
        BY <1>2, <3>1, <3>2
      <3> QED BY <1>1, <2>1, <2>5, <3>1, <3>3 DEF BeforeAnswer
    <2>9. ConversationKept'
      BY <1>1, <1>3, <2>1, <2>7, <2>8, QuietKeeps DEF RunInv, wsVars, srvVars
    <2> QED BY <2>2, <2>4, <2>6, <2>9 DEF RunInv
  <1>5. CASE lastDone
    <2>1. /\ pc' = "stats" /\ UNCHANGED <<step, pos>>
          /\ IF client THEN Ask(Msg("stats")) ELSE UNCHANGED up
      BY <1>5 DEF NextToken, genVars
    <2>2. PlanKept' /\ StepsKept'
      BY <1>1, <1>5, <2>1 DEF RunInv, PlanKept, StepsKept, Session
    <2>3. RuntimeKept' /\ OutcomeKept'
      BY <1>1, <2>1 DEF RunInv, RuntimeKept, HasGroups, OutcomeKept, Session
    <2>4. BeforeAnswer'
      BY <2>1 DEF BeforeAnswer
    <2>5. CASE client
      <3>1. Waiting' /\ Question' = Msg("stats") /\ Msg("stats") \in Frames
        BY <1>1, <2>1, <2>5, FrameTypes DEF Waiting, Question
      <3>2. ConversationKept'
        BY <1>1, <1>3, <2>1, <2>4, <2>5, <3>1, AskKeeps DEF RunInv
      <3> QED BY <2>2, <2>3, <3>2 DEF RunInv
    <2>6. CASE ~client
      <3>1. ~Waiting'
        BY <1>1, <2>1, <2>6 DEF Waiting
      <3>2. ConversationKept'
        BY <1>1, <1>3, <2>1, <2>6, <3>1, QuietKeeps DEF RunInv, wsVars, srvVars
      <3> QED BY <2>2, <2>3, <3>2 DEF RunInv
    <2> QED BY <2>5, <2>6
  <1> QED BY <1>4, <1>5

LEMMA FinishKeeps ==
  ASSUME RunInv, Finish
  PROVE  RunInv'
  <1>1. /\ pc = "stats" /\ pc' = "idle" /\ outcome' = "resolved"
        /\ UNCHANGED <<runs, plan, T, lastDone, signal, step, pos, loaded, got, kv, down,
                       srv, srvSeen, srvCtx>>
    BY DEF Finish, Settle, genVars, rtVars, srvVars
  <1>2. /\ step \in 0..(MaxTokens - 1) /\ pos = T + step /\ T \in Nat /\ MaxTokens \in Nat
        /\ T + MaxTokens <= MaxCtx /\ MaxCtx \in Nat /\ lastDone
        /\ plan.N >= 1 => loaded = plan
    BY <1>1, Limits DEF RunInv, PlanKept, StepsKept, RuntimeKept, Session
  <1>3. \/ client /\ (\E m : Take(m)) /\ CloseClient
        \/ ~client /\ UNCHANGED <<inbox, client, ws, up>>
    BY DEF Finish
  <1>4. ~client' /\ ws' # "open"
    BY <1>3 DEF CloseClient, RunInv, ConversationKept
  <1>5. client' \in BOOLEAN
    BY <1>3 DEF CloseClient, RunInv, PlanKept
  <1>6. PlanKept'
    BY <1>1, <1>5 DEF RunInv, PlanKept, Session
  <1>7. StepsKept'
    <2>1. step \in 0..(MaxTokens + Pings) /\ pos \in 0..MaxCtx
      BY <1>2, Limits
    <2> QED BY <1>1, <2>1 DEF StepsKept, Session
  <1>8. RuntimeKept'
    BY <1>1 DEF RunInv, RuntimeKept, HasGroups, Session
  <1>9. OutcomeKept'
    <2>1. step < MaxTokens
      BY <1>2
    <2> QED BY <1>1, <1>2, <1>4, <2>1 DEF OutcomeKept
  <1>10. ConversationKept'
    <2>1. ~Waiting'
      BY <1>1 DEF Waiting
    <2>2. CASE client /\ (\E m : Take(m)) /\ CloseClient
      <3>1. Waiting
        BY <1>1, <2>2 DEF Waiting
      <3> QED BY <1>1, <2>1, <2>2, <3>1, CloseKeeps DEF RunInv
    <2>3. CASE ~client /\ UNCHANGED <<inbox, client, ws, up>>
      <3>1. ~Waiting
        BY <1>1, <2>3 DEF Waiting
      <3> QED BY <1>1, <2>1, <2>3, <3>1, QuietKeeps DEF RunInv, wsVars, srvVars
    <2> QED BY <1>3, <2>2, <2>3
  <1> QED BY <1>6, <1>7, <1>8, <1>9, <1>10 DEF RunInv

\* An abort is no step: it is seen when a load or a token comes.
LEMMA AbortKeeps ==
  ASSUME RunInv, signal' \in BOOLEAN,
         UNCHANGED <<pc, outcome, runs, plan, T, lastDone, genVars, rtVars, wsVars, srvVars>>
  PROVE  RunInv'
  <1>1. UNCHANGED <<pc, outcome, runs, plan, T, lastDone, step, pos, loaded, got, kv, client, ws,
                    inbox, up, down, srv, srvSeen, srvCtx>>
    BY DEF genVars, rtVars, wsVars, srvVars
  <1>2. PlanKept' /\ StepsKept'
    BY <1>1 DEF RunInv, PlanKept, StepsKept, Session
  <1>3. RuntimeKept' /\ OutcomeKept'
    BY <1>1 DEF RunInv, RuntimeKept, HasGroups, OutcomeKept, Session, FedAt
  <1>4. /\ (Waiting' <=> Waiting) /\ Question' = Question /\ (BeforeAnswer' <=> BeforeAnswer)
        /\ \A m : Answered(m)' <=> Answered(m)
    BY <1>1 DEF Waiting, Question, BeforeAnswer, Answered, FedAt
  <1>5. (InConversation' <=> InConversation) /\ (LeftBehind' <=> LeftBehind)
    BY <1>1, <1>4 DEF InConversation, LeftBehind
  <1>6. ConversationKept'
    BY <1>1, <1>4, <1>5 DEF RunInv, ConversationKept
  <1> QED BY <1>2, <1>3, <1>6 DEF RunInv

-----------------------------------------------------------------------------
(***************************************************************************)
(* The theorems                                                            *)
(***************************************************************************)

LEMMA NextRunInv == RunInv /\ [Next]_vars => RunInv'
  <1> SUFFICES ASSUME RunInv, [Next]_vars PROVE RunInv'
    OBVIOUS
  <1>1. CASE Begin BY <1>1, BeginKeeps
  <1>2. CASE Pong BY <1>2, PongKeeps
  <1>3. CASE Plan BY <1>3, PlanKeeps
  <1>4. CASE NoPlanFits BY <1>4, NoPlanFitsKeeps
  <1>5. CASE Load BY <1>5, LoadKeeps
  <1>6. CASE Throw BY <1>6, ThrowKeeps
  <1>7. CASE Open BY <1>7, OpenKeeps
  <1>8. CASE Opened BY <1>8, OpenedKeeps
  <1>9. CASE Forward BY <1>9, ForwardKeeps
  <1>10. CASE TokenArrives BY <1>10, TokenArrivesKeeps
  <1>11. CASE NextToken BY <1>11, NextTokenKeeps
  <1>12. CASE Finish BY <1>12, FinishKeeps
  <1>13. CASE Abort
    <2>1. signal' \in BOOLEAN
      BY <1>13 DEF Abort
    <2> QED BY <1>13, <2>1, AbortKeeps DEF Abort
  <1>14. CASE Serve BY <1>14, ServeKeeps
  <1>15. CASE ServerGoes BY <1>15, ServerGoesKeeps
  <1>16. CASE NetworkDrops BY <1>16, NetworkDropsKeeps
  <1>17. CASE Receive BY <1>17, ReceiveKeeps
  <1>18. CASE SocketCloses BY <1>18, SocketClosesKeeps
  <1>19. CASE UNCHANGED vars
    <2>1. signal' \in BOOLEAN /\ UNCHANGED <<pc, outcome, runs, plan, T, lastDone, genVars, rtVars,
                                             wsVars, srvVars>>
      BY <1>19 DEF vars, runVars, RunInv, PlanKept
    <2> QED BY <2>1, AbortKeeps
  <1> QED BY <1>1, <1>2, <1>3, <1>4, <1>5, <1>6, <1>7, <1>8, <1>9, <1>10, <1>11, <1>12, <1>13,
             <1>14, <1>15, <1>16, <1>17, <1>18, <1>19 DEF Next, Browser

LEMMA SpecRunInv == Spec => []RunInv
  BY InitRunInv, NextRunInv, PTL DEF Spec

\* The browser's and the server's positions agree when a token is yielded, and
\* the browser has taken the groups of its blocks and no others, whichever
\* plans, runs, errors and broken connections came before.
THEOREM HalvesAreInStep == Spec => []HalvesInStep
  <1>1. RunInv => TypeOK
    <2> SUFFICES ASSUME RunInv PROVE TypeOK
      OBVIOUS
    <2>1. step \in 0..(MaxTokens + Pings) /\ pos \in 0..MaxCtx
      <3>1. CASE pc = "idle"
        BY <3>1 DEF RunInv, StepsKept
      <3>2. CASE pc \in {"pinging", "planning", "loading", "opening"}
        <4>1. step \in 0..Pings /\ pos = 0
          BY <3>2, Limits DEF RunInv, StepsKept
        <4> QED BY <4>1, Limits
      <3>3. CASE pc \in Session
        <4>1. /\ step \in 0..(MaxTokens - 1) /\ pos = T + step /\ T \in Nat
              /\ T + MaxTokens <= MaxCtx
          BY <3>3, Limits DEF RunInv, StepsKept, PlanKept, Session
        <4> QED BY <4>1, Limits
      <3> QED BY <3>1, <3>2, <3>3 DEF RunInv, PlanKept
    <2>2. Len(inbox) <= 2 /\ Len(up) <= 2 /\ Len(down) <= 2
      <3>1. ConversationKept
        BY DEF RunInv
      <3>2. Len(inbox) \in Nat /\ Len(down) \in Nat /\ Len(up) \in Nat
        BY <3>1, SeqFacts DEF ConversationKept
      <3>3. CASE client /\ ws = "open" /\ srv # "gone"
        <4>1. InConversation
          BY <3>1, <3>3 DEF ConversationKept
        <4>2. /\ inbox = <<>> \/ \E m : inbox = <<m>>
              /\ down = <<>> \/ \E m : down = <<m>>
              /\ up = <<>> \/ \E m : up = <<m>>
          BY <4>1 DEF InConversation
        <4>3. /\ Len(inbox) = 0 \/ Len(inbox) = 1
              /\ Len(down) = 0 \/ Len(down) = 1
              /\ Len(up) = 0 \/ Len(up) = 1
          BY <4>2, SingleFacts
        <4> DEFINE a == Len(inbox)  b == Len(down)  c == Len(up)
        <4>4. a <= 2 /\ b <= 2 /\ c <= 2
          <5>1. (a = 0 \/ a = 1) /\ (b = 0 \/ b = 1) /\ (c = 0 \/ c = 1)
            BY <4>3
          <5> HIDE DEF a, b, c
          <5> QED BY <5>1
        <4> QED BY <4>4
      <3>4. CASE client /\ ws = "open" /\ srv = "gone"
        <4>1. LeftBehind
          BY <3>1, <3>4 DEF ConversationKept
        <4>2. /\ Len(up) = 0 \/ Len(up) = 1
              /\ Len(inbox) + Len(down) <= 2
          BY <3>1, <3>4, <4>1, LittleUnderWay, SingleFacts DEF LeftBehind
        <4> DEFINE a == Len(inbox)  b == Len(down)  c == Len(up)
        <4>3. a \in Nat /\ b \in Nat /\ a + b <= 2 /\ (c = 0 \/ c = 1)
          BY <3>2, <4>2
        <4>4. a <= 2 /\ b <= 2 /\ c <= 2
          <5> HIDE DEF a, b, c
          <5> QED BY <4>3
        <4> QED BY <4>4
      <3>5. CASE client /\ ws = "closed"
        <4>1. up = <<>> /\ down = <<>> /\ Len(inbox) <= 2
          BY <3>1, <3>5 DEF ConversationKept
        <4>2. Len(up) = 0 /\ Len(down) = 0
          BY <4>1, SingleFacts
        <4> QED BY <4>1, <4>2
      <3>6. CASE ~client /\ srv # "gone"
        <4>1. up = <<Msg("close")>> /\ inbox = <<>> /\ down = <<>>
          BY <3>1, <3>6 DEF ConversationKept
        <4>2. Len(up) = 1 /\ Len(down) = 0 /\ Len(inbox) = 0
          BY <4>1, SingleFacts
        <4> QED BY <4>2
      <3>7. CASE ~client /\ srv = "gone"
        <4> DEFINE a == Len(inbox)  b == Len(down)
        <4>1. a \in Nat /\ b \in Nat /\ a + b <= 2 /\ Len(up) <= 2
          BY <3>1, <3>2, <3>7 DEF ConversationKept
        <4>2. a <= 2 /\ b <= 2
          <5>1. a \in Nat /\ b \in Nat /\ a + b <= 2
            BY <4>1
          <5> HIDE DEF a, b
          <5> QED BY <5>1
        <4> QED BY <4>1, <4>2
      <3> QED BY <3>1, <3>3, <3>4, <3>5, <3>6, <3>7 DEF ConversationKept
    <2> QED BY <2>1, <2>2 DEF RunInv, PlanKept, RuntimeKept, OutcomeKept, ConversationKept,
                              Session, TypeOK
  <1>2. RunInv => HalvesInStep
    <2> SUFFICES ASSUME RunInv, pc = "yielded"
                 PROVE  /\ plan.N >= 1 => (loaded = plan /\ kv = pos)
                        /\ plan.mode = "split" => got = 1 + plan.N
                        /\ plan.mode = "local" => (got >= L + 2 /\ (got >= L + 3 \/ Tied))
                        /\ (plan.mode # "local" /\ srv = "open") => srvSeen = pos
      BY <1>1 DEF HalvesInStep
    <2>1. plan.N >= 1 => loaded = plan /\ kv = pos
      BY DEF RunInv, RuntimeKept, Session
    <2>2. plan.mode \in {"local", "split"} => loaded = plan /\ HasGroups(plan)
      <3>1. plan \in Plans
        BY DEF RunInv, PlanKept, Session
      <3>2. plan.mode \in {"local", "split"} => plan.N >= 1 /\ plan # NoPlan
        BY <3>1, PlanFacts
      <3> QED BY <2>1, <3>2 DEF RunInv, RuntimeKept
    <2>3. (plan.mode # "local" /\ srv = "open") => srvSeen = pos
      <3> SUFFICES ASSUME plan.mode # "local", srv = "open" PROVE srvSeen = pos
        OBVIOUS
      <3>1. client
        BY DEF RunInv, PlanKept, Session
      <3>2. InConversation
        BY <3>1 DEF RunInv, ConversationKept
      <3>3. ~Waiting
        BY DEF Waiting
      <3> QED BY <3>2, <3>3 DEF InConversation, BeforeAnswer
    <2> QED BY <2>1, <2>2, <2>3 DEF HasGroups
  <1> QED BY <1>2, SpecRunInv, PTL

\* The server refuses no positions but those of a prompt longer than the
\* context it granted.
THEOREM RunsFeedInOrder == Spec => []PositionsAreAccepted
  <1>1. RunInv => PositionsAreAccepted
    <2> SUFFICES ASSUME RunInv, NEW i \in DOMAIN down
                 PROVE  /\ down[i] # Error("bad_positions")
                        /\ (down[i] = Error("ctx_exceeded")) => T > srvCtx
      BY DEF PositionsAreAccepted
    <2>1. down[i] \in Replies
      BY DEF RunInv, ConversationKept
    <2>2. Error("bad_positions") \notin Replies
      BY DEF Error, Replies
    <2> QED BY <2>1, <2>2 DEF RunInv, ConversationKept
  <1> QED BY <1>1, SpecRunInv, PTL

\* A run resolves only behind its last token, with its blocks loaded and its
\* client closed.
THEOREM ResolvedRunsAreComplete == Spec => []ResolvedIsComplete
  <1>1. RunInv => ResolvedIsComplete
    BY DEF RunInv, OutcomeKept, ResolvedIsComplete
  <1> QED BY <1>1, SpecRunInv, PTL
=============================================================================
