--------------------------- MODULE CrossSiteProofs ---------------------------
(***************************************************************************)
(* Proofs about CrossSite for any number of calls and any mix of browsers. *)
(*                                                                         *)
(* One refusal closes the hidden frame of every call. That a store still   *)
(* stands rests on the order of the answers: while the browser is steady,  *)
(* a frame that has granted once refuses nobody any more, and the refusals *)
(* it gave before are told before the grant.                               *)
(***************************************************************************)
EXTENDS CrossSite, TLAPS

Requests == [frame : Frames \cup {NoFrame}, mode : {"silent", "await-click"},
             at : {"none", "sent", "click", "requesting", "rejected", "resolved",
                   "probing", "unmarked", "answered"},
             says : Verdicts \cup {"none"}]
HiddenFrames == {Hidden(c) : c \in Calls}
SharesNothing == browser \in {"none", "partitioned"}

\* Where a call is, which frame it talks to and which it has asked.
CallKept(c) ==
  /\ client[c] \in HiddenFrames \cup {NoFrame}
  /\ phase[c] \notin {"idle", "adopting", "done"} => client[c] \in HiddenFrames
  /\ phase[c] \in {"idle", "opening", "mountable", "mounting"} => req[c].at = "none"
  /\ req[c].at # "none" => (client[c] \in HiddenFrames /\ req[c].frame = client[c])
                             \/ req[c].frame = Button(c)
  /\ phase[c] \in {"asking", "confirming"} => req[c].at # "none" /\ req[c].frame = client[c]
  /\ phase[c] = "waiting" => req[c].at # "none" /\ req[c].frame = Button(c)
  /\ phase[c] = "idle" => frame[Hidden(c)] = "unused"

\* The frames a call may have made its store, or may still have to.
StoreKept(c) ==
  /\ req[c].says = "granted" => req[c].frame \in granted
  /\ phase[c] = "confirming" => Button(c) \in granted /\ frame[Button(c)] = "open"
  /\ store[c] # NoFrame =>
       /\ phase[c] \in {"adopting", "done"}
       /\ store[c] \in granted
       /\ store[c] = Button(c) \/ (client[c] \in HiddenFrames /\ store[c] = client[c])

\* What a verdict, or a step on the way to one, says of the browser.
VerdictKept(c) ==
  /\ req[c].says = "unsupported" => ~steady \/ SharesNothing
  /\ req[c].says = "needs-visit" /\ returned => refused \/ SharesNothing
  /\ req[c].at = "unmarked" /\ returned => SharesNothing
  /\ req[c].at = "rejected" /\ req[c].mode = "await-click" => refused

\* The answers under way: one for each call, to the frame it asked.
QueueKept(f) ==
  \A i \in DOMAIN replies[f] :
    /\ req[replies[f][i]].at = "answered" /\ req[replies[f][i]].frame = f
    /\ \A j \in DOMAIN replies[f] : i # j => replies[f][i] # replies[f][j]

\* A steady browser stands by its grants.
BrowserKept ==
  /\ hidden \in HiddenFrames \cup {NoFrame}
  /\ returned => visited
  /\ steady /\ granted # {} => permission = "granted" /\ MarkerSeen
  /\ steady => \A c \in Calls :
       req[c].at \in {"resolved", "probing", "unmarked"} => permission = "granted"

Refused(c) == req[c].says \in Refusals

GrantsLast(f) ==
  \A i, j \in DOMAIN replies[f] :
    i < j /\ req[replies[f][i]].says = "granted" => ~Refused(replies[f][j])

RefusesNobody(f) == \A i \in DOMAIN replies[f] : ~Refused(replies[f][i])

StoreStands(c) == store[c] # NoFrame => frame[store[c]] = "open" /\ RefusesNobody(store[c])

CallsKept == \A c \in Calls : CallKept(c) /\ StoreKept(c) /\ VerdictKept(c)
QueuesKept == \A f \in Frames : QueueKept(f)
StoresStand == steady => (\A f \in Frames : GrantsLast(f)) /\ (\A c \in Calls : StoreStands(c))

ShareInv == TypeOK /\ BrowserKept /\ CallsKept /\ QueuesKept /\ StoresStand

-----------------------------------------------------------------------------
(***************************************************************************)
(* Frames and queues                                                       *)
(***************************************************************************)

LEMMA FrameNames ==
  /\ NoFrame \notin Frames
  /\ \A c \in Calls : Hidden(c) \in Frames /\ Button(c) \in Frames
  /\ \A c, d \in Calls :
       /\ Hidden(c) # Button(d)
       /\ Hidden(c) = Hidden(d) => c = d
       /\ Button(c) = Button(d) => c = d
  BY DEF Frames, NoFrame, Hidden, Button

LEMMA HiddenNames ==
  /\ HiddenFrames \subseteq Frames
  /\ NoFrame \notin HiddenFrames
  /\ \A c \in Calls : Hidden(c) \in HiddenFrames /\ Button(c) \notin HiddenFrames
  BY FrameNames DEF HiddenFrames

\* Answers only leave their queues, and those that stay are left alone.
QueuesOnlyShrink ==
  /\ \A f \in Frames : \/ replies'[f] = replies[f]
                       \/ replies'[f] = <<>>
                       \/ replies[f] # <<>> /\ replies'[f] = Tail(replies[f])
  /\ \A f \in Frames : \A i \in DOMAIN replies'[f] :
       req'[replies'[f][i]] = req[replies'[f][i]]

LEMMA QueuesShrink ==
  ASSUME TypeOK, QueuesKept, QueuesOnlyShrink
  PROVE  /\ QueuesKept'
         /\ \A f \in Frames : (GrantsLast(f) => GrantsLast(f)')
                              /\ (RefusesNobody(f) => RefusesNobody(f)')
  <1> SUFFICES ASSUME NEW f \in Frames
               PROVE  /\ QueueKept(f)'
                      /\ (GrantsLast(f) => GrantsLast(f)')
                      /\ (RefusesNobody(f) => RefusesNobody(f)')
    BY DEF QueuesKept
  <1>1. QueueKept(f) /\ replies[f] \in Seq(Calls)
    BY DEF QueuesKept, TypeOK
  <1> USE DEF QueuesOnlyShrink
  <1>2. CASE replies'[f] = replies[f]
    BY <1>1, <1>2 DEF QueueKept, GrantsLast, RefusesNobody, Refused
  <1>3. CASE replies'[f] = <<>>
    BY <1>3 DEF QueueKept, GrantsLast, RefusesNobody, Refused
  <1>4. CASE replies[f] # <<>> /\ replies'[f] = Tail(replies[f])
    <2>1. /\ DOMAIN replies'[f] = 1..(Len(replies[f]) - 1)
          /\ DOMAIN replies[f] = 1..Len(replies[f])
          /\ Len(replies[f]) \in Nat
          /\ \A i \in 1..(Len(replies[f]) - 1) : replies'[f][i] = replies[f][i + 1]
      BY <1>1, <1>4
    <2>2. ASSUME NEW i \in DOMAIN replies'[f]
          PROVE  /\ i \in Nat /\ i + 1 \in DOMAIN replies[f]
                 /\ replies'[f][i] = replies[f][i + 1]
                 /\ req'[replies'[f][i]] = req[replies[f][i + 1]]
      BY <2>1
    <2>3. QueueKept(f)'
      <3> SUFFICES ASSUME NEW i \in DOMAIN replies'[f]
                   PROVE  /\ req'[replies'[f][i]].at = "answered"
                          /\ req'[replies'[f][i]].frame = f
                          /\ \A j \in DOMAIN replies'[f] : i # j => replies'[f][i] # replies'[f][j]
        BY DEF QueueKept
      <3>1. req'[replies'[f][i]].at = "answered" /\ req'[replies'[f][i]].frame = f
        BY <1>1, <2>2 DEF QueueKept
      <3>2. ASSUME NEW j \in DOMAIN replies'[f], i # j
            PROVE  replies'[f][i] # replies'[f][j]
        <4>1. i + 1 # j + 1 /\ i + 1 \in DOMAIN replies[f] /\ j + 1 \in DOMAIN replies[f]
          BY <2>2, <3>2
        <4>2. replies'[f][i] = replies[f][i + 1] /\ replies'[f][j] = replies[f][j + 1]
          BY <2>2
        <4> QED BY <1>1, <4>1, <4>2 DEF QueueKept
      <3> QED BY <3>1, <3>2
    <2>4. ASSUME GrantsLast(f) PROVE GrantsLast(f)'
      <3> SUFFICES ASSUME NEW i \in DOMAIN replies'[f], NEW j \in DOMAIN replies'[f], i < j,
                          req'[replies'[f][i]].says = "granted"
                   PROVE  req'[replies'[f][j]].says \notin Refusals
        BY DEF GrantsLast, Refused
      <3>1. /\ i + 1 < j + 1 /\ i + 1 \in DOMAIN replies[f] /\ j + 1 \in DOMAIN replies[f]
            /\ req[replies[f][i + 1]].says = "granted"
        BY <2>2
      <3>2. req[replies[f][j + 1]].says \notin Refusals
        BY <2>4, <3>1 DEF GrantsLast, Refused
      <3> QED BY <2>2, <3>2
    <2>5. ASSUME RefusesNobody(f) PROVE RefusesNobody(f)'
      BY <2>2, <2>5 DEF RefusesNobody, Refused
    <2> QED BY <2>3, <2>4, <2>5
  <1> QED BY <1>2, <1>3, <1>4

\* The call at the head of a queue is in no queue once it is told.
LEMMA HeadIsAlone ==
  ASSUME TypeOK, QueuesKept, NEW f \in Frames, NEW c \in Calls,
         replies[f] # <<>>, Head(replies[f]) = c
  PROVE  /\ req[c].at = "answered" /\ req[c].frame = f
         /\ \A g \in Frames \ {f} : \A i \in DOMAIN replies[g] : replies[g][i] # c
         /\ \A i \in DOMAIN Tail(replies[f]) : Tail(replies[f])[i] # c
  <1>1. replies[f] \in Seq(Calls) /\ QueueKept(f)
    BY DEF TypeOK, QueuesKept
  <1>2. 1 \in DOMAIN replies[f] /\ replies[f][1] = c
    BY <1>1
  <1>3. req[c].at = "answered" /\ req[c].frame = f
    BY <1>1, <1>2 DEF QueueKept
  <1>4. ASSUME NEW g \in Frames \ {f}, NEW i \in DOMAIN replies[g]
        PROVE  replies[g][i] # c
    BY <1>3 DEF QueuesKept, QueueKept
  <1>5. ASSUME NEW i \in DOMAIN Tail(replies[f])
        PROVE  Tail(replies[f])[i] # c
    <2>1. i + 1 \in DOMAIN replies[f] /\ i + 1 # 1 /\ Tail(replies[f])[i] = replies[f][i + 1]
      BY <1>1
    <2> QED BY <1>1, <1>2, <2>1 DEF QueueKept
  <1> QED BY <1>3, <1>4, <1>5

\* A call with no request under way is in no queue.
LEMMA UnaskedIsAlone ==
  ASSUME QueuesKept, NEW c, req[c].at # "answered"
  PROVE  \A f \in Frames : \A i \in DOMAIN replies[f] : replies[f][i] # c
  BY DEF QueuesKept, QueueKept

-----------------------------------------------------------------------------
(***************************************************************************)
(* The frame                                                               *)
(***************************************************************************)

Moving == {"sent", "click", "requesting", "rejected", "resolved", "probing", "unmarked"}

LEMMA MovingHasFrame ==
  ASSUME ShareInv, NEW c \in Calls, req[c].at \in Moving
  PROVE  req[c].frame \in Frames
  BY HiddenNames, FrameNames DEF ShareInv, CallsKept, CallKept, Moving

\* A grant that goes on to its next step, not yet to its answer.
LEMMA MoveKeeps ==
  ASSUME ShareInv, NEW c \in Calls, NEW at \in Moving, req[c].at \in Moving,
         Goes(c, at), UNCHANGED frameKeeps, UNCHANGED steady,
         permission' \in {"prompt", "granted", "denied"}, refused' \in BOOLEAN,
         permission = "granted" => permission' = "granted",
         refused => refused',
         at \in {"resolved", "probing", "unmarked"} => permission' = "granted" \/ ~steady,
         at = "unmarked" /\ returned => SharesNothing,
         at = "rejected" /\ req[c].mode = "await-click" => refused'
  PROVE  ShareInv'
  <1>1. /\ req' = [req EXCEPT ![c].at = at]
        /\ UNCHANGED <<granted, replies, browser, visited, returned, persisted, hidden,
                       frame, phase, explicit, client, store, steady>>
    BY DEF Goes, frameKeeps
  <1>2. \A d \in Calls : /\ req'[d].at = (IF d = c THEN at ELSE req[d].at)
                         /\ req'[d].frame = req[d].frame
                         /\ req'[d].mode = req[d].mode
                         /\ req'[d].says = req[d].says
    BY <1>1 DEF ShareInv, TypeOK
  <1>3. TypeOK'
    BY <1>1 DEF ShareInv, TypeOK, Moving
  <1>4. BrowserKept'
    BY <1>1, <1>2 DEF ShareInv, BrowserKept, MarkerSeen
  <1>5. CallsKept'
    <2> SUFFICES ASSUME NEW d \in Calls PROVE CallKept(d)' /\ StoreKept(d)' /\ VerdictKept(d)'
      BY DEF CallsKept
    <2>1. CallKept(d) /\ StoreKept(d) /\ VerdictKept(d)
      BY DEF ShareInv, CallsKept
    <2>2. CallKept(d)'
      BY <1>1, <1>2, <2>1 DEF CallKept, Moving
    <2>3. StoreKept(d)'
      BY <1>1, <1>2, <2>1 DEF StoreKept
    <2>4. VerdictKept(d)'
      BY <1>1, <1>2, <2>1 DEF VerdictKept, SharesNothing, Moving
    <2> QED BY <2>2, <2>3, <2>4
  <1>6. QueuesOnlyShrink
    <2>1. req[c].at # "answered"
      BY DEF Moving
    <2>2. \A f \in Frames : \A i \in DOMAIN replies[f] :
            replies[f][i] # c /\ replies[f][i] \in Calls
      BY <2>1, UnaskedIsAlone DEF ShareInv, TypeOK
    <2>3. \A f \in Frames : \A i \in DOMAIN replies[f] : req'[replies[f][i]] = req[replies[f][i]]
      BY <1>1, <2>2 DEF ShareInv, TypeOK
    <2> QED BY <1>1, <2>3 DEF QueuesOnlyShrink
  <1>7. /\ QueuesKept'
        /\ \A f \in Frames : (GrantsLast(f) => GrantsLast(f)')
                              /\ (RefusesNobody(f) => RefusesNobody(f)')
    BY <1>1, <1>6, QueuesShrink DEF ShareInv
  <1>8. StoresStand'
    <2> SUFFICES ASSUME steady'
                 PROVE  (\A f \in Frames : GrantsLast(f))' /\ (\A d \in Calls : StoreStands(d))'
      BY DEF StoresStand
    <2>1. (\A f \in Frames : GrantsLast(f)) /\ (\A d \in Calls : StoreStands(d))
      BY <1>1 DEF ShareInv, StoresStand
    <2>2. ASSUME NEW d \in Calls PROVE StoreStands(d)'
      <3>1. store[d] \in Frames \cup {NoFrame}
        BY DEF ShareInv, TypeOK
      <3> QED BY <1>1, <1>7, <2>1, <3>1 DEF StoreStands
    <2> QED BY <1>7, <2>1, <2>2
  <1> QED BY <1>3, <1>4, <1>5, <1>7, <1>8 DEF ShareInv

\* A grant that is answered: a refusal only where nothing was granted, as
\* long as the browser is steady.
LEMMA AnswerKeeps ==
  ASSUME ShareInv, NEW c \in Calls, NEW verdict \in Verdicts, req[c].at \in Moving,
         Answers(c, verdict), UNCHANGED frameKeeps, UNCHANGED <<permission, refused>>,
         granted' \subseteq granted \cup {req[c].frame}, granted \subseteq granted',
         steady' \in BOOLEAN, steady' => steady,
         verdict = "granted" => req[c].frame \in granted',
         steady' /\ granted' # granted => permission = "granted" /\ MarkerSeen,
         steady' /\ verdict \in Refusals => granted = {},
         verdict = "unsupported" => ~steady' \/ SharesNothing,
         verdict = "needs-visit" /\ returned => refused \/ SharesNothing
  PROVE  ShareInv'
  <1> PICK g \in Frames : g = req[c].frame
    BY MovingHasFrame
  <1>1. /\ req' = [req EXCEPT ![c].at = "answered", ![c].says = verdict]
        /\ replies' = [replies EXCEPT ![g] = Append(@, c)]
        /\ UNCHANGED <<browser, visited, returned, persisted, hidden, frame, phase,
                       explicit, client, store, permission, refused>>
    BY DEF Answers, frameKeeps
  <1>2. \A d \in Calls : /\ req'[d].at = (IF d = c THEN "answered" ELSE req[d].at)
                         /\ req'[d].frame = req[d].frame
                         /\ req'[d].mode = req[d].mode
                         /\ req'[d].says = (IF d = c THEN verdict ELSE req[d].says)
    BY <1>1 DEF ShareInv, TypeOK
  <1>3. g \in Frames /\ req[c].at # "none" /\ req[c].at # "answered"
    BY DEF Moving
  <1>4. TypeOK'
    <2>1. req' \in [Calls -> Requests]
      <3>1. req \in [Calls -> Requests]
        BY DEF ShareInv, TypeOK, Requests
      <3>2. [req[c] EXCEPT !.at = "answered", !.says = verdict] \in Requests
        BY <3>1 DEF Requests
      <3>3. req' = [req EXCEPT ![c] = [req[c] EXCEPT !.at = "answered", !.says = verdict]]
        BY <1>1
      <3> QED BY <3>1, <3>2, <3>3
    <2>2. replies' \in [Frames -> Seq(Calls)]
      BY <1>1, <1>3 DEF ShareInv, TypeOK
    <2>3. granted' \subseteq Frames
      BY <1>3 DEF ShareInv, TypeOK
    <2> QED BY <1>1, <2>1, <2>2, <2>3 DEF ShareInv, TypeOK, Requests
  <1>5. BrowserKept'
    <2>1. steady' /\ granted' # {} => permission = "granted" /\ MarkerSeen
      BY DEF ShareInv, BrowserKept
    <2>2. ASSUME steady', NEW d \in Calls, req'[d].at \in {"resolved", "probing", "unmarked"}
          PROVE  permission = "granted"
      <3>1. d # c /\ req[d].at = req'[d].at
        BY <1>2, <2>2
      <3> QED BY <2>2, <3>1 DEF ShareInv, BrowserKept
    <2>3. hidden \in HiddenFrames \cup {NoFrame} /\ (returned => visited)
      BY DEF ShareInv, BrowserKept
    <2> QED BY <1>1, <2>1, <2>2, <2>3 DEF BrowserKept, MarkerSeen
  <1>6. CallsKept'
    <2> SUFFICES ASSUME NEW d \in Calls PROVE CallKept(d)' /\ StoreKept(d)' /\ VerdictKept(d)'
      BY DEF CallsKept
    <2>1. CallKept(d) /\ StoreKept(d) /\ VerdictKept(d)
      BY DEF ShareInv, CallsKept
    <2>2. CASE d = c
      <3>1. /\ req[d].at # "none" /\ req'[d].at = "answered" /\ req'[d].says = verdict
            /\ req'[d].frame = req[d].frame /\ req'[d].mode = req[d].mode
        BY <1>2, <1>3, <2>2
      <3>2. CallKept(d)'
        <4>1. phase'[d] = phase[d] /\ client'[d] = client[d] /\ frame' = frame
          BY <1>1
        <4> QED BY <2>1, <3>1, <4>1 DEF CallKept
      <3>3. StoreKept(d)'
        BY <1>1, <2>1, <2>2, <3>1 DEF StoreKept
      <3>4. VerdictKept(d)'
        BY <1>1, <3>1 DEF VerdictKept, SharesNothing
      <3> QED BY <3>2, <3>3, <3>4
    <2>3. CASE d # c
      <3>1. req'[d].at = req[d].at /\ req'[d].frame = req[d].frame /\ req'[d].mode = req[d].mode
            /\ req'[d].says = req[d].says
        BY <1>2, <2>3
      <3>2. CallKept(d)' /\ StoreKept(d)'
        BY <1>1, <2>1, <3>1 DEF CallKept, StoreKept
      <3>3. VerdictKept(d)'
        BY <1>1, <2>1, <3>1 DEF VerdictKept, SharesNothing
      <3> QED BY <3>2, <3>3
    <2> QED BY <2>2, <2>3
  <1>7. req[c].at # "answered"
    BY DEF Moving
  <1>8. \A f \in Frames : \A i \in DOMAIN replies[f] :
          replies[f][i] # c /\ replies[f][i] \in Calls
    BY <1>7, UnaskedIsAlone DEF ShareInv, TypeOK
  <1>9. \A f \in Frames : \A i \in DOMAIN replies[f] : req'[replies[f][i]] = req[replies[f][i]]
    BY <1>1, <1>8 DEF ShareInv, TypeOK
  <1>10. ASSUME NEW f \in Frames \ {g}
         PROVE  /\ QueueKept(f)'
                /\ (GrantsLast(f) => GrantsLast(f)')
                /\ (RefusesNobody(f) => RefusesNobody(f)')
    <2>1. replies'[f] = replies[f] /\ QueueKept(f)
      BY <1>1 DEF ShareInv, TypeOK, QueuesKept
    <2> QED BY <1>9, <2>1 DEF QueueKept, GrantsLast, RefusesNobody, Refused
  <1> PICK n : n = Len(replies[g]) + 1
    OBVIOUS
  <1>11. /\ n \in Nat /\ n \in DOMAIN replies'[g] /\ replies'[g][n] = c
         /\ \A i \in DOMAIN replies'[g] :
              i = n \/ (i \in DOMAIN replies[g] /\ replies'[g][i] = replies[g][i] /\ i < n)
         /\ DOMAIN replies[g] \subseteq Nat
    <2>1. replies'[g] = Append(replies[g], c) /\ replies[g] \in Seq(Calls)
      BY <1>1, <1>3 DEF ShareInv, TypeOK
    <2> QED BY <2>1
  <1>12. req'[c].at = "answered" /\ req'[c].frame = g /\ req'[c].says = verdict
    BY <1>2
  <1>13. QueueKept(g)'
    <2>1. QueueKept(g)
      BY <1>3 DEF ShareInv, QueuesKept
    <2> SUFFICES ASSUME NEW i \in DOMAIN replies'[g]
                 PROVE  /\ req'[replies'[g][i]].at = "answered" /\ req'[replies'[g][i]].frame = g
                        /\ \A j \in DOMAIN replies'[g] : i # j => replies'[g][i] # replies'[g][j]
      BY DEF QueueKept
    <2>2. CASE i = n
      BY <1>3, <1>8, <1>11, <1>12, <2>2
    <2>3. CASE i \in DOMAIN replies[g] /\ replies'[g][i] = replies[g][i]
      BY <1>3, <1>8, <1>9, <1>11, <2>1, <2>3 DEF QueueKept
    <2> QED BY <1>11, <2>2, <2>3
  <1>14. StoresStand'
    <2> SUFFICES ASSUME steady'
                 PROVE  (\A f \in Frames : GrantsLast(f))' /\ (\A d \in Calls : StoreStands(d))'
      BY DEF StoresStand
    <2>1. (\A f \in Frames : GrantsLast(f)) /\ (\A d \in Calls : StoreStands(d))
      BY DEF ShareInv, StoresStand
    <2>2. GrantsLast(g)'
      <3> SUFFICES ASSUME NEW i \in DOMAIN replies'[g], NEW j \in DOMAIN replies'[g], i < j,
                          req'[replies'[g][i]].says = "granted"
                   PROVE  req'[replies'[g][j]].says \notin Refusals
        BY DEF GrantsLast, Refused
      <3>1. i \in DOMAIN replies[g] /\ replies'[g][i] = replies[g][i] /\ i \in Nat
        BY <1>11
      <3>2. req[replies[g][i]].says = "granted"
        BY <1>3, <1>9, <3>1
      <3>3. CASE j = n
        <4>1. granted # {}
          BY <1>3, <1>8, <3>1, <3>2 DEF ShareInv, CallsKept, StoreKept
        <4> QED BY <1>11, <1>12, <3>3, <4>1
      <3>4. CASE j \in DOMAIN replies[g] /\ replies'[g][j] = replies[g][j]
        <4>1. GrantsLast(g)
          BY <1>3, <2>1
        <4> QED BY <1>3, <1>9, <3>1, <3>2, <3>4, <4>1 DEF GrantsLast, Refused
      <3> QED BY <1>11, <3>3, <3>4
    <2>3. ASSUME NEW d \in Calls PROVE StoreStands(d)'
      <3> SUFFICES ASSUME store[d] # NoFrame
                   PROVE  frame'[store[d]] = "open" /\ RefusesNobody(store[d])'
        BY <1>1 DEF StoreStands
      <3>1. store[d] \in Frames /\ store[d] \in granted
        BY DEF ShareInv, TypeOK, CallsKept, StoreKept
      <3>2. frame[store[d]] = "open" /\ RefusesNobody(store[d])
        BY <2>1 DEF StoreStands
      <3>3. CASE store[d] # g
        BY <1>1, <1>10, <3>1, <3>2, <3>3
      <3>4. CASE store[d] = g
        <4>1. verdict \notin Refusals
          BY <3>1
        <4>2. RefusesNobody(g)'
          BY <1>3, <1>9, <1>11, <1>12, <3>2, <3>4, <4>1 DEF RefusesNobody, Refused
        <4> QED BY <1>1, <3>2, <3>4, <4>2
      <3> QED BY <3>3, <3>4
    <2> QED BY <1>10, <2>1, <2>2, <2>3
  <1>15. QueuesKept'
    BY <1>10, <1>13 DEF QueuesKept
  <1> QED BY <1>4, <1>5, <1>6, <1>14, <1>15 DEF ShareInv

\* Every step of a frame, with the user's click.
LEMMA FrameStepKeeps ==
  ASSUME ShareInv, NEW c \in Calls, FrameStep(c) \/ Click(c)
  PROVE  ShareInv'
  <1> USE DEF InFrame, Moving
  <1>1. /\ permission \in {"prompt", "granted", "denied"} /\ steady \in BOOLEAN
        /\ refused \in BOOLEAN /\ visited \in BOOLEAN /\ browser \in Browsers
        /\ browser \in {"handle", "partitioned", "plain", "none"}
    BY BrowsersAssumption DEF ShareInv, TypeOK
  <1>2. /\ returned => visited
        /\ steady /\ granted # {} => permission = "granted" /\ MarkerSeen
        /\ steady /\ req[c].at \in {"resolved", "probing", "unmarked"} => permission = "granted"
    BY DEF ShareInv, BrowserKept
  <1>3. VerdictKept(c)
    BY DEF ShareInv, CallsKept
  <1>4. {"granted", "denied", "unsupported", "needs-visit", "needs-click"} = Verdicts
        /\ Refusals = {"unsupported", "denied"}
    BY DEF Verdicts, Refusals
  <1>5. CASE Receive(c)
    <2> USE <1>5 DEF Receive
    <2>1. CASE req[c].frame \in granted /\ Answers(c, "granted") /\ UNCHANGED granted
      BY <1>1, <1>4, <2>1, AnswerKeeps
    <2>2. CASE req[c].frame \notin granted
      BY <1>1, <2>2, MoveKeeps
    <2> QED BY <2>1, <2>2
  <1>6. CASE Click(c)
    BY <1>1, <1>6, MoveKeeps DEF Click
  <1>7. CASE Resolves(c)
    <2>1. steady' = steady /\ permission' = "granted" /\ refused' = refused
          /\ UNCHANGED frameKeeps /\ req[c].at = "requesting"
      BY <1>7 DEF Resolves
    <2>2. Goes(c, IF browser = "handle" THEN "probing" ELSE "resolved")
      BY <1>7 DEF Resolves
    <2>3. CASE browser = "handle"
      <3>1. Goes(c, "probing")
        BY <2>2, <2>3
      <3> QED BY <1>1, <2>1, <3>1, MoveKeeps
    <2>4. CASE browser # "handle"
      <3>1. Goes(c, "resolved")
        BY <2>2, <2>4
      <3> QED BY <1>1, <2>1, <3>1, MoveKeeps
    <2> QED BY <2>3, <2>4
  <1>8. CASE Rejects(c)
    BY <1>1, <1>8, MoveKeeps DEF Rejects
  <1>9. CASE AfterRejection(c)
    <2>1. /\ UNCHANGED frameKeeps /\ UNCHANGED <<granted, permission, steady, refused>>
          /\ req[c].at = "rejected"
      BY <1>9 DEF AfterRejection
    <2>2. CASE permission = "denied" /\ Answers(c, "denied")
      BY <1>1, <1>2, <1>4, <2>1, <2>2, AnswerKeeps
    <2>3. CASE req[c].mode = "silent" /\ Answers(c, "needs-click")
      BY <1>1, <1>4, <2>1, <2>3, AnswerKeeps
    <2>4. CASE req[c].mode = "await-click" /\ Answers(c, "needs-visit")
      <3>1. refused
        BY <1>3, <2>1, <2>4 DEF VerdictKept
      <3> QED BY <1>1, <1>4, <2>1, <2>4, <3>1, AnswerKeeps
    <2>5. req[c].mode \in {"silent", "await-click"}
      BY DEF ShareInv, TypeOK
    <2> QED BY <1>9, <2>2, <2>3, <2>4, <2>5 DEF AfterRejection
  <1>10. CASE Check(c)
    <2>1. /\ UNCHANGED frameKeeps /\ UNCHANGED <<permission, steady, refused>>
          /\ req[c].at = "resolved"
      BY <1>10 DEF Check
    <2>2. CASE permission = "granted" /\ Goes(c, "probing")
      BY <1>1, <2>1, <2>2, MoveKeeps
    <2>3. CASE permission # "granted" /\ Answers(c, "unsupported") /\ UNCHANGED granted
      <3>1. ~steady
        BY <1>2, <2>1, <2>3
      <3> QED BY <1>1, <1>4, <2>1, <2>3, <3>1, AnswerKeeps
    <2> QED BY <1>10, <2>2, <2>3 DEF Check
  <1>11. CASE Probe(c)
    <2>1. /\ UNCHANGED frameKeeps /\ UNCHANGED <<permission, refused>>
          /\ req[c].at = "probing"
      BY <1>11 DEF Probe
    <2>2. CASE /\ MarkerSeen /\ granted' = granted \cup {req[c].frame}
               /\ Answers(c, "granted") /\ UNCHANGED steady
      BY <1>1, <1>2, <1>4, <2>1, <2>2, AnswerKeeps
    <2>3. CASE ~MarkerSeen /\ Goes(c, "unmarked") /\ UNCHANGED steady
      <3>1. returned => SharesNothing
        BY <1>1, <1>2, <2>3 DEF MarkerSeen, SharesNothing
      <3>2. permission = "granted" \/ ~steady
        BY <1>2, <2>1
      <3> QED BY <1>1, <2>1, <2>3, <3>1, <3>2, MoveKeeps
    <2>4. CASE Answers(c, "unsupported") /\ steady' = FALSE /\ UNCHANGED granted
      BY <1>1, <1>4, <2>1, <2>4, AnswerKeeps
    <2> QED BY <1>11, <2>2, <2>3, <2>4 DEF Probe
  <1>12. CASE ReadFlag(c)
    <2>1. /\ UNCHANGED frameKeeps /\ UNCHANGED <<granted, permission, refused>>
          /\ req[c].at = "unmarked" /\ steady' = (steady /\ ~(FlagSeen /\ MarkerSeen))
      BY <1>12 DEF ReadFlag
    <2>2. steady' \in BOOLEAN /\ (steady' => steady)
      BY <1>1, <2>1
    <2>3. CASE FlagSeen /\ Answers(c, "unsupported")
      <3>1. steady' => ~MarkerSeen
        BY <2>1, <2>3
      <3>2. ~steady' \/ SharesNothing
        BY <1>1, <2>3, <3>1 DEF FlagSeen, MarkerSeen, SharesNothing
      <3>3. steady' => granted = {}
        BY <1>2, <2>2, <3>1
      <3> QED BY <1>1, <1>4, <2>1, <2>2, <2>3, <3>2, <3>3, AnswerKeeps
    <2>4. CASE ~FlagSeen /\ Answers(c, "needs-visit")
      <3>1. returned => SharesNothing
        BY <1>3, <2>1 DEF VerdictKept
      <3> QED BY <1>1, <1>4, <2>1, <2>2, <2>4, <3>1, AnswerKeeps
    <2> QED BY <1>12, <2>3, <2>4 DEF ReadFlag
  <1> QED BY <1>5, <1>6, <1>7, <1>8, <1>9, <1>10, <1>11, <1>12 DEF FrameStep

-----------------------------------------------------------------------------
(***************************************************************************)
(* The page                                                                *)
(***************************************************************************)

\* Every answer that stays is of a call whose request stays.
LEMMA QueuesWait ==
  ASSUME ShareInv, UNCHANGED replies,
         \A d \in Calls : req'[d] = req[d] \/ req[d].at = "none"
  PROVE  QueuesOnlyShrink
  <1>1. \A f \in Frames : \A i \in DOMAIN replies[f] :
          replies[f][i] \in Calls /\ req[replies[f][i]].at = "answered"
    BY DEF ShareInv, TypeOK, QueuesKept, QueueKept
  <1> QED BY <1>1 DEF QueuesOnlyShrink

LEMMA QueueMoves ==
  ASSUME ShareInv, NEW c \in Calls, NEW f \in Frames,
         replies[f] # <<>>, Head(replies[f]) = c,
         Take(f) \/ replies' = [replies EXCEPT ![f] = <<>>],
         \A d \in Calls \ {c} : req'[d] = req[d]
  PROVE  QueuesOnlyShrink
  <1>1. replies \in [Frames -> Seq(Calls)] /\ replies' \in [Frames -> Seq(Calls)]
    <2>1. replies \in [Frames -> Seq(Calls)]
      BY DEF ShareInv, TypeOK
    <2>2. Tail(replies[f]) \in Seq(Calls) /\ <<>> \in Seq(Calls)
      BY <2>1
    <2> QED BY <2>1, <2>2 DEF Take
  <1>2. /\ \A g \in Frames \ {f} : replies'[g] = replies[g]
        /\ replies'[f] = <<>> \/ replies'[f] = Tail(replies[f])
    BY <1>1 DEF Take
  <1>3. /\ \A g \in Frames \ {f} : \A i \in DOMAIN replies[g] : replies[g][i] # c
        /\ \A i \in DOMAIN Tail(replies[f]) : Tail(replies[f])[i] # c
    BY HeadIsAlone DEF ShareInv
  <1>4. ASSUME NEW g \in Frames, NEW i \in DOMAIN replies'[g]
        PROVE  replies'[g][i] \in Calls \ {c}
    <2>1. replies'[g][i] \in Calls
      BY <1>1
    <2>2. CASE g # f
      BY <1>2, <1>3, <2>1, <2>2
    <2>3. CASE g = f /\ replies'[f] = Tail(replies[f])
      BY <1>3, <2>1, <2>3
    <2>4. CASE g = f /\ replies'[f] = <<>>
      BY <2>4
    <2> QED BY <1>2, <2>2, <2>3, <2>4
  <1> QED BY <1>2, <1>4 DEF QueuesOnlyShrink

\* A call that a step leaves alone.
LEMMA OthersKept ==
  ASSUME NEW d \in Calls, CallKept(d), StoreKept(d), UNCHANGED granted,
         phase'[d] = phase[d], client'[d] = client[d], req'[d] = req[d], store'[d] = store[d],
         phase[d] = "confirming" => frame'[Button(d)] = frame[Button(d)],
         phase[d] = "idle" => frame'[Hidden(d)] = frame[Hidden(d)]
  PROVE  CallKept(d)' /\ StoreKept(d)'
  BY DEF CallKept, StoreKept

\* What a step of the page has to show.
LEMMA PageKeeps ==
  ASSUME ShareInv, TypeOK', UNCHANGED pageKeeps, hidden' \in HiddenFrames \cup {NoFrame},
         \A d \in Calls : \/ req'[d] = req[d]
                          \/ req'[d].at \in {"none", "sent"} /\ req'[d].says = "none",
         \A d \in Calls : CallKept(d)' /\ StoreKept(d)',
         QueuesOnlyShrink,
         steady => \A d \in Calls, f \in Frames : store'[d] = f =>
                     frame'[f] = "open" /\ (RefusesNobody(f) \/ RefusesNobody(f)')
  PROVE  ShareInv'
  <1>1. UNCHANGED <<browser, permission, visited, returned, granted, steady, refused>>
    BY DEF pageKeeps, browserVars
  <1>2. BrowserKept'
    BY <1>1 DEF ShareInv, BrowserKept, MarkerSeen
  <1>3. CallsKept'
    <2> SUFFICES ASSUME NEW d \in Calls PROVE VerdictKept(d)'
      BY DEF CallsKept
    <2>1. VerdictKept(d)
      BY DEF ShareInv, CallsKept
    <2> QED BY <1>1, <2>1 DEF VerdictKept, SharesNothing
  <1>4. /\ QueuesKept'
        /\ \A f \in Frames : (GrantsLast(f) => GrantsLast(f)')
                              /\ (RefusesNobody(f) => RefusesNobody(f)')
    BY QueuesShrink DEF ShareInv
  <1>5. StoresStand'
    <2> SUFFICES ASSUME steady'
                 PROVE  (\A f \in Frames : GrantsLast(f))' /\ (\A d \in Calls : StoreStands(d))'
      BY DEF StoresStand
    <2>1. \A f \in Frames : GrantsLast(f)
      BY <1>1 DEF ShareInv, StoresStand
    <2>2. ASSUME NEW d \in Calls PROVE StoreStands(d)'
      <3>1. store'[d] \in Frames \cup {NoFrame}
        BY DEF TypeOK
      <3>2. CASE store'[d] \in Frames
        <4> PICK f \in Frames : f = store'[d]
          BY <3>2
        <4>1. frame'[f] = "open" /\ RefusesNobody(f)'
          BY <1>1, <1>4
        <4>2. RefusesNobody(store[d])'
          BY <4>1 DEF RefusesNobody, Refused
        <4> QED BY <4>1, <4>2 DEF StoreStands
      <3> QED BY <3>1, <3>2 DEF StoreStands
    <2> QED BY <1>4, <2>1, <2>2
  <1> QED BY <1>2, <1>3, <1>4, <1>5 DEF ShareInv

\* What the invariant says of a call that is at hand.
LEMMA CallFacts ==
  ASSUME ShareInv, NEW c \in Calls
  PROVE  /\ CallKept(c) /\ StoreKept(c)
         /\ req[c] \in Requests /\ req[c].frame \in Frames \cup {NoFrame}
         /\ client[c] \in HiddenFrames \cup {NoFrame} /\ store[c] \in Frames \cup {NoFrame}
         /\ req[c].at # "none" => req[c].frame \in Frames
  BY HiddenNames, FrameNames DEF ShareInv, TypeOK, Requests, CallsKept, CallKept

\* The stores of a steady browser stand where a step opens and closes no frame
\* of theirs.
LEMMA StandingStores ==
  ASSUME ShareInv, steady, NEW d \in Calls, NEW f \in Frames, store[d] = f
  PROVE  /\ frame[f] = "open" /\ RefusesNobody(f)
         /\ f = Button(d) \/ f \in HiddenFrames
         /\ phase[d] \in {"adopting", "done"}
  <1>1. f # NoFrame
    BY FrameNames
  <1> QED BY <1>1, CallFacts DEF ShareInv, StoresStand, StoreStands, StoreKept

LEMMA StartKeeps ==
  ASSUME ShareInv, NEW c \in Calls, Start(c)
  PROVE  ShareInv'
  <1>1. /\ phase[c] = "idle" /\ UNCHANGED <<pageKeeps, replies, store>>
        /\ explicit' \in [Calls -> BOOLEAN]
    BY DEF Start, ShareInv, TypeOK
  <1>2. /\ req[c].at = "none" /\ store[c] = NoFrame /\ frame[Hidden(c)] = "unused"
        /\ req[c].says # "granted" \/ req[c].frame \in granted
    BY <1>1, CallFacts DEF CallKept, StoreKept
  <1>3. UNCHANGED <<browser, permission, visited, returned, granted, steady, refused>>
    BY <1>1 DEF pageKeeps, browserVars
  <1>4. CASE /\ phase' = [phase EXCEPT ![c] = "done"]
             /\ UNCHANGED <<hidden, frame, client, req>>
             /\ persisted' \in {"none", "granted", "denied", "unsupported"}
    <2>1. TypeOK'
      BY <1>1, <1>3, <1>4 DEF ShareInv, TypeOK
    <2>2. ASSUME NEW d \in Calls PROVE CallKept(d)' /\ StoreKept(d)'
      <3>1. CASE d = c
        BY <1>2, <1>1, <1>3, <1>4, <3>1, CallFacts DEF ShareInv, TypeOK, CallKept, StoreKept
      <3>2. CASE d # c
        <4>1. phase'[d] = phase[d]
          BY <1>4, <3>2 DEF ShareInv, TypeOK
        <4> QED BY <1>1, <1>3, <1>4, <4>1, CallFacts, OthersKept
      <3> QED BY <3>1, <3>2
    <2>3. QueuesOnlyShrink
      BY <1>1, <1>4, QueuesWait
    <2>4. hidden' \in HiddenFrames \cup {NoFrame}
      BY <1>4 DEF ShareInv, BrowserKept
    <2> QED BY <1>1, <1>4, <2>1, <2>2, <2>3, <2>4, PageKeeps, StandingStores
  <1>5. CASE JoinHidden(c) /\ UNCHANGED persisted /\ hidden = NoFrame
    <2>1. /\ hidden' = Hidden(c)
          /\ frame' = [frame EXCEPT ![Hidden(c)] = "opening"]
          /\ client' = [client EXCEPT ![c] = Hidden(c)]
          /\ phase' = [phase EXCEPT ![c] = "opening"]
          /\ UNCHANGED req
      BY <1>5 DEF JoinHidden
    <2>2. Hidden(c) \in Frames /\ Hidden(c) \in HiddenFrames
      BY FrameNames, HiddenNames
    <2>3. TypeOK'
      BY <1>1, <1>3, <1>5, <2>1, <2>2 DEF ShareInv, TypeOK
    <2>4. ASSUME NEW d \in Calls PROVE CallKept(d)' /\ StoreKept(d)'
      <3>1. CASE d = c
        <4>1. /\ phase'[d] = "opening" /\ client'[d] = Hidden(c) /\ req'[d] = req[d]
              /\ store'[d] = NoFrame
          BY <1>1, <1>2, <2>1, <3>1 DEF ShareInv, TypeOK
        <4> QED BY <1>2, <1>3, <2>2, <3>1, <4>1 DEF CallKept, StoreKept
      <3>2. CASE d # c
        <4>1. phase'[d] = phase[d] /\ client'[d] = client[d]
          BY <2>1, <3>2 DEF ShareInv, TypeOK
        <4>2. frame'[Button(d)] = frame[Button(d)] /\ frame'[Hidden(d)] = frame[Hidden(d)]
          BY <2>1, <3>2, FrameNames DEF ShareInv, TypeOK
        <4> QED BY <1>1, <1>3, <2>1, <4>1, <4>2, CallFacts, OthersKept
      <3> QED BY <3>1, <3>2
    <2>5. QueuesOnlyShrink
      BY <1>1, <2>1, QueuesWait
    <2>6. ASSUME steady, NEW d \in Calls, NEW f \in Frames, store'[d] = f
          PROVE  frame'[f] = "open" /\ RefusesNobody(f)
      <3>1. frame[f] = "open" /\ RefusesNobody(f)
        BY <1>1, <2>6, StandingStores
      <3>2. f # Hidden(c)
        BY <1>2, <3>1
      <3> QED BY <2>1, <3>1, <3>2 DEF ShareInv, TypeOK
    <2> QED BY <1>1, <2>1, <2>2, <2>3, <2>4, <2>5, <2>6, PageKeeps
  <1>6. CASE JoinHidden(c) /\ UNCHANGED persisted /\ hidden # NoFrame
    <2>1. /\ client' = [client EXCEPT ![c] = hidden] /\ UNCHANGED <<hidden, frame>>
          /\ \/ /\ phase' = [phase EXCEPT ![c] = "asking"]
                /\ req' = [req EXCEPT ![c] = Request(hidden, "silent")]
             \/ phase' = [phase EXCEPT ![c] = "opening"] /\ UNCHANGED req
      BY <1>6 DEF JoinHidden
    <2>2. hidden \in HiddenFrames /\ hidden \in Frames
      BY <1>6, HiddenNames DEF ShareInv, BrowserKept
    <2>3. Request(hidden, "silent") \in Requests
      BY <2>2 DEF Request, Requests
    <2>4. TypeOK'
      <3>1. req' \in [Calls -> Requests]
        BY <2>1, <2>3 DEF ShareInv, TypeOK, Requests
      <3>2. phase' \in [Calls -> {"idle", "opening", "asking", "mountable", "mounting",
                                 "waiting", "confirming", "adopting", "done"}]
        BY <2>1 DEF ShareInv, TypeOK
      <3> QED BY <1>1, <1>3, <1>6, <2>1, <2>2, <3>1, <3>2 DEF ShareInv, TypeOK, Requests
    <2>5. ASSUME NEW d \in Calls PROVE CallKept(d)' /\ StoreKept(d)'
      <3>1. CASE d = c
        <4>1. client'[d] = hidden /\ store'[d] = NoFrame
          BY <1>1, <1>2, <2>1, <3>1 DEF ShareInv, TypeOK
        <4>2. CASE phase'[d] = "opening" /\ req'[d] = req[d]
          BY <1>2, <1>3, <2>2, <3>1, <4>1, <4>2 DEF CallKept, StoreKept
        <4>3. CASE phase'[d] = "asking" /\ req'[d] = Request(hidden, "silent")
          BY <1>3, <2>2, <3>1, <4>1, <4>3 DEF CallKept, StoreKept, Request
        <4> QED BY <2>1, <3>1, <4>2, <4>3 DEF ShareInv, TypeOK
      <3>2. CASE d # c
        <4>1. phase'[d] = phase[d] /\ client'[d] = client[d] /\ req'[d] = req[d]
          BY <2>1, <3>2 DEF ShareInv, TypeOK
        <4> QED BY <1>1, <1>3, <2>1, <4>1, CallFacts, OthersKept
      <3> QED BY <3>1, <3>2
    <2>6. ASSUME NEW d \in Calls
          PROVE  \/ req'[d] = req[d]
                 \/ /\ d = c /\ req'[d].at = "sent" /\ req'[d].says = "none"
      BY <2>1 DEF ShareInv, TypeOK, Request
    <2>7. QueuesOnlyShrink
      BY <1>1, <1>2, <2>6, QueuesWait
    <2> QED BY <1>1, <2>1, <2>2, <2>4, <2>5, <2>6, <2>7, PageKeeps, StandingStores
  <1>7. persisted \in {"none", "granted", "denied", "unsupported"}
    BY DEF ShareInv, TypeOK
  <1> QED BY <1>4, <1>5, <1>6, <1>7 DEF Start

LEMMA FrameLoadsKeeps ==
  ASSUME ShareInv, NEW f \in Frames, FrameLoads(f)
  PROVE  ShareInv'
  <1>1. /\ frame[f] = "opening" /\ frame' = [frame EXCEPT ![f] = "loaded"]
        /\ UNCHANGED <<pageKeeps, persisted, hidden, replies, phase, explicit, client, req, store>>
    BY DEF FrameLoads, callVars
  <1>2. UNCHANGED <<browser, permission, visited, returned, granted, steady, refused>>
    BY <1>1 DEF pageKeeps, browserVars
  <1>4. TypeOK'
    BY <1>1, <1>2 DEF ShareInv, TypeOK
  <1>5. ASSUME NEW d \in Calls PROVE CallKept(d)' /\ StoreKept(d)'
    <2>1. /\ CallKept(d) /\ StoreKept(d) /\ store'[d] = store[d] /\ client'[d] = client[d]
          /\ req'[d] = req[d] /\ phase'[d] = phase[d]
      BY <1>1, CallFacts
    <2>2. /\ frame[Button(d)] = "open" => frame'[Button(d)] = "open"
          /\ frame[Hidden(d)] = "unused" => frame'[Hidden(d)] = "unused"
      BY <1>1, FrameNames DEF ShareInv, TypeOK
    <2> QED BY <1>2, <2>1, <2>2 DEF CallKept, StoreKept
  <1>6. QueuesOnlyShrink
    BY <1>1, QueuesWait
  <1>7. ASSUME steady, NEW d \in Calls, NEW g \in Frames, store'[d] = g
        PROVE  frame'[g] = "open" /\ RefusesNobody(g)
    <2>1. frame[g] = "open" /\ RefusesNobody(g)
      BY <1>1, <1>7, StandingStores
    <2> QED BY <1>1, <2>1 DEF ShareInv, TypeOK
  <1>8. hidden' \in HiddenFrames \cup {NoFrame}
    BY <1>1 DEF ShareInv, BrowserKept
  <1> QED BY <1>1, <1>4, <1>5, <1>6, <1>7, <1>8, PageKeeps

LEMMA FrameOpensKeeps ==
  ASSUME ShareInv, NEW f \in Frames, FrameOpens(f)
  PROVE  ShareInv'
  <1>1. /\ frame[f] = "loaded" /\ frame' = [frame EXCEPT ![f] = "open"]
        /\ UNCHANGED <<pageKeeps, persisted, hidden, replies, explicit, client, store>>
    BY DEF FrameOpens
  <1>2. UNCHANGED <<browser, permission, visited, returned, granted, steady, refused>>
    BY <1>1 DEF pageKeeps, browserVars
  <1> DEFINE on(d) == phase[d] = "opening" /\ client[d] = f
  <1> DEFINE by(d) == phase[d] = "mounting" /\ f = Button(d)
  <1>3. /\ phase' = [d \in Calls |-> IF on(d) THEN "asking" ELSE IF by(d) THEN "waiting"
                                     ELSE phase[d]]
        /\ req' = [d \in Calls |-> IF on(d) THEN Request(f, "silent")
                                   ELSE IF by(d) THEN Request(f, "await-click") ELSE req[d]]
    BY DEF FrameOpens
  <1>4. Request(f, "silent") \in Requests /\ Request(f, "await-click") \in Requests
    BY DEF Request, Requests
  <1>5. TypeOK'
    <2>1. phase' \in [Calls -> {"idle", "opening", "asking", "mountable", "mounting",
                                "waiting", "confirming", "adopting", "done"}]
      BY <1>3 DEF ShareInv, TypeOK
    <2>2. req' \in [Calls -> Requests]
      BY <1>3, <1>4 DEF ShareInv, TypeOK, Requests
    <2> QED BY <1>1, <1>2, <2>1, <2>2 DEF ShareInv, TypeOK, Requests
  <1>6. ASSUME NEW d \in Calls
        PROVE  /\ CallKept(d)' /\ StoreKept(d)'
               /\ req'[d] = req[d] \/ (req[d].at = "none" /\ req'[d].at = "sent"
                                       /\ req'[d].says = "none")
    <2>1. CallKept(d) /\ StoreKept(d) /\ store'[d] = store[d] /\ client'[d] = client[d]
      BY <1>1, CallFacts
    <2>2. /\ frame[Button(d)] = "open" => frame'[Button(d)] = "open"
          /\ frame[Hidden(d)] = "unused" => frame'[Hidden(d)] = "unused"
      BY <1>1, FrameNames DEF ShareInv, TypeOK
    <2>3. CASE on(d)
      <3>1. /\ phase'[d] = "asking" /\ req'[d].at = "sent" /\ req'[d].frame = f
            /\ req'[d].says = "none"
        BY <1>3, <2>3 DEF Request
      <3>2. req[d].at = "none" /\ client[d] \in HiddenFrames /\ store[d] = NoFrame
        BY <2>1, <2>3 DEF CallKept, StoreKept
      <3> QED BY <1>2, <2>1, <2>3, <3>1, <3>2 DEF CallKept, StoreKept
    <2>4. CASE by(d)
      <3>1. /\ phase'[d] = "waiting" /\ req'[d].at = "sent" /\ req'[d].frame = Button(d)
            /\ req'[d].says = "none"
        BY <1>3, <2>4 DEF Request
      <3>2. req[d].at = "none" /\ client[d] \in HiddenFrames /\ store[d] = NoFrame
        BY <2>1, <2>4 DEF CallKept, StoreKept
      <3> QED BY <1>2, <2>1, <2>4, <3>1, <3>2 DEF CallKept, StoreKept
    <2>5. CASE ~on(d) /\ ~by(d)
      <3>1. phase'[d] = phase[d] /\ req'[d] = req[d]
        BY <1>3, <2>5
      <3> QED BY <1>2, <2>1, <2>2, <3>1 DEF CallKept, StoreKept
    <2> QED BY <2>3, <2>4, <2>5
  <1> HIDE DEF on, by
  <1>7. QueuesOnlyShrink
    BY <1>1, <1>6, QueuesWait
  <1>8. ASSUME steady, NEW d \in Calls, NEW g \in Frames, store'[d] = g
        PROVE  frame'[g] = "open" /\ RefusesNobody(g)
    <2>1. frame[g] = "open" /\ RefusesNobody(g)
      BY <1>1, <1>8, StandingStores
    <2> QED BY <1>1, <2>1 DEF ShareInv, TypeOK
  <1>9. hidden' \in HiddenFrames \cup {NoFrame}
    BY <1>1 DEF ShareInv, BrowserKept
  <1> QED BY <1>1, <1>5, <1>6, <1>7, <1>8, <1>9, PageKeeps

LEMMA FrameFailsKeeps ==
  ASSUME ShareInv, NEW f \in Frames, FrameFails(f)
  PROVE  ShareInv'
  <1>1. /\ frame[f] \in {"opening", "loaded"} /\ frame' = [frame EXCEPT ![f] = "failed"]
        /\ UNCHANGED <<pageKeeps, persisted, replies, explicit, client, req, store>>
        /\ hidden' \in {hidden, NoFrame}
    BY DEF FrameFails
  <1>2. UNCHANGED <<browser, permission, visited, returned, granted, steady, refused>>
    BY <1>1 DEF pageKeeps, browserVars
  <1>3. /\ phase' \in [Calls -> {"idle", "opening", "asking", "mountable", "mounting",
                                 "waiting", "confirming", "adopting", "done"}]
        /\ \A d \in Calls : phase'[d] = phase[d]
                            \/ (phase[d] \in {"opening", "mounting"} /\ phase'[d] = "done")
    BY DEF FrameFails, ShareInv, TypeOK
  <1>4. TypeOK'
    BY <1>1, <1>2, <1>3 DEF ShareInv, TypeOK
  <1>5. ASSUME NEW d \in Calls PROVE CallKept(d)' /\ StoreKept(d)'
    <2>1. /\ CallKept(d) /\ StoreKept(d) /\ store'[d] = store[d] /\ client'[d] = client[d]
          /\ req'[d] = req[d]
      BY <1>1, CallFacts
    <2>2. /\ frame[Button(d)] = "open" => frame'[Button(d)] = "open"
          /\ frame[Hidden(d)] = "unused" => frame'[Hidden(d)] = "unused"
      BY <1>1, FrameNames DEF ShareInv, TypeOK
    <2>3. CASE phase'[d] = phase[d]
      BY <1>2, <2>1, <2>2, <2>3 DEF CallKept, StoreKept
    <2>4. CASE phase[d] \in {"opening", "mounting"} /\ phase'[d] = "done"
      BY <1>2, <2>1, <2>4 DEF CallKept, StoreKept
    <2> QED BY <1>3, <2>3, <2>4
  <1>6. QueuesOnlyShrink
    BY <1>1, QueuesWait
  <1>7. ASSUME steady, NEW d \in Calls, NEW g \in Frames, store'[d] = g
        PROVE  frame'[g] = "open" /\ RefusesNobody(g)
    <2>1. frame[g] = "open" /\ RefusesNobody(g)
      BY <1>1, <1>7, StandingStores
    <2> QED BY <1>1, <2>1 DEF ShareInv, TypeOK
  <1>8. hidden' \in HiddenFrames \cup {NoFrame}
    BY <1>1 DEF ShareInv, BrowserKept
  <1> QED BY <1>1, <1>4, <1>5, <1>6, <1>7, <1>8, PageKeeps

\* mount, finish and a call whose timer ends it: no frame changes but the
\* button's.
LEMMA MountKeeps ==
  ASSUME ShareInv, NEW c \in Calls, Mount(c)
  PROVE  ShareInv'
  <1>1. /\ phase[c] = "mountable" /\ phase' = [phase EXCEPT ![c] = "mounting"]
        /\ frame' = [frame EXCEPT ![Button(c)] = "opening"]
        /\ UNCHANGED <<pageKeeps, persisted, hidden, replies, explicit, client, req, store>>
    BY DEF Mount
  <1>2. UNCHANGED <<browser, permission, visited, returned, granted, steady, refused>>
    BY <1>1 DEF pageKeeps, browserVars
  <1>3. TypeOK'
    BY <1>1, <1>2, FrameNames DEF ShareInv, TypeOK
  <1>4. ASSUME NEW d \in Calls PROVE CallKept(d)' /\ StoreKept(d)'
    <2>1. CASE d = c
      <3>1. phase'[d] = "mounting"
        BY <1>1, <2>1 DEF ShareInv, TypeOK
      <3> QED BY <1>1, <1>2, <2>1, <3>1, CallFacts DEF CallKept, StoreKept
    <2>2. CASE d # c
      <3>1. phase'[d] = phase[d] /\ frame'[Button(d)] = frame[Button(d)]
            /\ frame'[Hidden(d)] = frame[Hidden(d)]
        BY <1>1, <2>2, FrameNames DEF ShareInv, TypeOK
      <3> QED BY <1>1, <1>2, <3>1, CallFacts, OthersKept
    <2> QED BY <2>1, <2>2
  <1>5. QueuesOnlyShrink
    BY <1>1, QueuesWait
  <1>6. ASSUME steady, NEW d \in Calls, NEW g \in Frames, store'[d] = g
        PROVE  frame'[g] = "open" /\ RefusesNobody(g)
    <2>1. /\ frame[g] = "open" /\ RefusesNobody(g) /\ (g = Button(d) \/ g \in HiddenFrames)
          /\ phase[d] \in {"adopting", "done"}
      BY <1>1, <1>6, StandingStores
    <2>2. g # Button(c)
      BY <1>1, <2>1, FrameNames, HiddenNames
    <2> QED BY <1>1, <2>1, <2>2 DEF ShareInv, TypeOK
  <1>7. hidden' \in HiddenFrames \cup {NoFrame}
    BY <1>1 DEF ShareInv, BrowserKept
  <1> QED BY <1>1, <1>3, <1>4, <1>5, <1>6, <1>7, PageKeeps

LEMMA FinishKeeps ==
  ASSUME ShareInv, NEW c \in Calls, Finish(c)
  PROVE  ShareInv'
  <1>1. /\ phase[c] = "adopting" /\ phase' = [phase EXCEPT ![c] = "done"]
        /\ UNCHANGED <<pageKeeps, persisted, frameVars, explicit, client, req, store>>
    BY DEF Finish
  <1>2. UNCHANGED <<browser, permission, visited, returned, granted, steady, refused,
                    hidden, frame, replies>>
    BY <1>1 DEF pageKeeps, browserVars, frameVars
  <1>3. TypeOK'
    BY <1>1, <1>2 DEF ShareInv, TypeOK
  <1>4. ASSUME NEW d \in Calls PROVE CallKept(d)' /\ StoreKept(d)'
    <2>1. CASE d = c
      <3>1. phase'[d] = "done"
        BY <1>1, <2>1 DEF ShareInv, TypeOK
      <3> QED BY <1>1, <1>2, <2>1, <3>1, CallFacts DEF CallKept, StoreKept
    <2>2. CASE d # c
      <3>1. phase'[d] = phase[d]
        BY <1>1, <2>2 DEF ShareInv, TypeOK
      <3> QED BY <1>1, <1>2, <3>1, CallFacts, OthersKept
    <2> QED BY <2>1, <2>2
  <1>5. QueuesOnlyShrink
    BY <1>1, <1>2, QueuesWait
  <1>6. hidden' \in HiddenFrames \cup {NoFrame}
    BY <1>2 DEF ShareInv, BrowserKept
  <1> QED BY <1>1, <1>2, <1>3, <1>4, <1>5, <1>6, PageKeeps, StandingStores

LEMMA IgnoreKeeps ==
  ASSUME ShareInv, NEW f \in Frames, Ignore(f)
  PROVE  ShareInv'
  <1>1. /\ replies[f] # <<>> /\ Take(f)
        /\ UNCHANGED <<pageKeeps, persisted, hidden, frame, callVars>>
    BY DEF Ignore
  <1>2. UNCHANGED <<browser, permission, visited, returned, granted, steady, refused,
                    phase, explicit, client, req, store>>
    BY <1>1 DEF pageKeeps, browserVars, callVars
  <1>3. Head(replies[f]) \in Calls /\ Tail(replies[f]) \in Seq(Calls)
    BY <1>1 DEF ShareInv, TypeOK
  <1>4. TypeOK'
    BY <1>1, <1>2, <1>3 DEF ShareInv, TypeOK, Take
  <1>5. ASSUME NEW d \in Calls PROVE CallKept(d)' /\ StoreKept(d)'
    BY <1>1, <1>2, CallFacts, OthersKept
  <1>6. QueuesOnlyShrink
    BY <1>1, <1>2, <1>3, QueueMoves
  <1>7. hidden' \in HiddenFrames \cup {NoFrame}
    BY <1>1 DEF ShareInv, BrowserKept
  <1> QED BY <1>1, <1>2, <1>4, <1>5, <1>6, <1>7, PageKeeps, StandingStores

\* No answer is left for the button of a call that asks the hidden frame again.
LEMMA ButtonIsQuiet ==
  ASSUME ShareInv, NEW c \in Calls, phase[c] = "confirming"
  PROVE  RefusesNobody(Button(c))
  <1> SUFFICES ASSUME NEW i \in DOMAIN replies[Button(c)] PROVE FALSE
    BY DEF RefusesNobody
  <1>1. replies[Button(c)][i] \in Calls /\ QueueKept(Button(c))
    BY FrameNames DEF ShareInv, TypeOK, QueuesKept
  <1> PICK d \in Calls : d = replies[Button(c)][i]
    BY <1>1
  <1>2. req[d].at = "answered" /\ req[d].frame = Button(c)
    BY <1>1 DEF QueueKept
  <1>3. req[c].frame = client[c] /\ client[c] \in HiddenFrames
    BY CallFacts DEF CallKept
  <1>4. Button(c) \notin HiddenFrames
    BY HiddenNames
  <1>5. d = c
    BY <1>2, <1>4, CallFacts, FrameNames DEF CallKept
  <1> QED BY <1>2, <1>3, <1>4, <1>5

\* Behind a grant no refusal waits.
LEMMA GrantedIsLast ==
  ASSUME ShareInv, steady, NEW f \in Frames, replies[f] # <<>>,
         req[Head(replies[f])].says = "granted", Take(f), QueuesOnlyShrink
  PROVE  RefusesNobody(f)'
  <1>1. replies[f] \in Seq(Calls) /\ GrantsLast(f) /\ replies'[f] = Tail(replies[f])
    BY DEF ShareInv, TypeOK, StoresStand, Take
  <1> SUFFICES ASSUME NEW i \in DOMAIN replies'[f] PROVE req'[replies'[f][i]].says \notin Refusals
    BY DEF RefusesNobody, Refused
  <1>2. /\ i \in Nat /\ 1 \in DOMAIN replies[f] /\ i + 1 \in DOMAIN replies[f] /\ 1 < i + 1
        /\ replies'[f][i] = replies[f][i + 1] /\ Head(replies[f]) = replies[f][1]
    BY <1>1
  <1>3. req[replies[f][i + 1]].says \notin Refusals
    BY <1>1, <1>2 DEF GrantsLast, Refused
  <1> QED BY <1>2, <1>3 DEF QueuesOnlyShrink

\* The call that is told, and its frame.
LEMMA ToldFacts ==
  ASSUME ShareInv, NEW c \in Calls, Told(c), phase[c] \in {"asking", "waiting", "confirming"}
  PROVE  /\ req[c].frame \in Frames /\ frame[req[c].frame] = "open"
         /\ replies[req[c].frame] # <<>> /\ Head(replies[req[c].frame]) = c
         /\ Tail(replies[req[c].frame]) \in Seq(Calls)
         /\ client[c] \in HiddenFrames /\ client[c] \in Frames
         /\ phase[c] = "waiting" => req[c].frame = Button(c)
         /\ phase[c] # "waiting" => req[c].frame = client[c]
         /\ store[c] = NoFrame
  <1>1. CallKept(c) /\ StoreKept(c)
    BY CallFacts
  <1>2. req[c].frame \in Frames
    BY <1>1, CallFacts DEF CallKept
  <1>3. replies[req[c].frame] # <<>> /\ replies[req[c].frame] \in Seq(Calls)
    BY <1>2 DEF Told, ShareInv, TypeOK
  <1> QED BY <1>1, <1>2, <1>3, HiddenNames DEF Told, CallKept, StoreKept

\* A steady browser's refusal is told by a frame that is nobody's store.
LEMMA RefusedFrame ==
  ASSUME ShareInv, steady, NEW f \in Frames, replies[f] # <<>>, Refused(Head(replies[f])),
         NEW d \in Calls, store[d] = f
  PROVE  FALSE
  <1>1. RefusesNobody(f) /\ replies[f] \in Seq(Calls)
    BY StandingStores DEF ShareInv, TypeOK
  <1>2. 1 \in DOMAIN replies[f] /\ Head(replies[f]) = replies[f][1]
    BY <1>1
  <1> QED BY <1>1, <1>2 DEF RefusesNobody

LEMMA CallFailsKeeps ==
  ASSUME ShareInv, NEW c \in Calls, CallFails(c)
  PROVE  ShareInv'
  <1>1. UNCHANGED <<pageKeeps, frameVars, explicit, client, req>>
    BY DEF CallFails
  <1>2. UNCHANGED <<browser, permission, visited, returned, granted, steady, refused,
                    hidden, frame, replies>>
    BY <1>1 DEF pageKeeps, browserVars, frameVars
  <1>3. Button(c) \in Frames /\ CallKept(c) /\ StoreKept(c)
    BY FrameNames, CallFacts
  <1>4. \/ /\ phase[c] = "asking" /\ phase' = [phase EXCEPT ![c] = "done"]
           /\ store' = [store EXCEPT ![c] = NoFrame]
        \/ /\ phase[c] = "confirming" /\ phase' = [phase EXCEPT ![c] = "adopting"]
           /\ store' = [store EXCEPT ![c] = Button(c)]
    BY <1>3, FrameNames DEF CallFails, Returns
  <1>5. persisted' \in {"none", "granted", "denied", "unsupported"}
    BY DEF CallFails, ShareInv, TypeOK
  <1>6. TypeOK'
    <2>1. phase' \in [Calls -> {"idle", "opening", "asking", "mountable", "mounting",
                                "waiting", "confirming", "adopting", "done"}]
      BY <1>4 DEF ShareInv, TypeOK
    <2>2. store' \in [Calls -> Frames \cup {NoFrame}]
      BY <1>3, <1>4 DEF ShareInv, TypeOK
    <2> QED BY <1>1, <1>2, <1>5, <2>1, <2>2 DEF ShareInv, TypeOK
  <1>7. ASSUME NEW d \in Calls PROVE CallKept(d)' /\ StoreKept(d)'
    <2>1. CASE d = c
      <3>1. CASE phase'[c] = "done" /\ store'[c] = NoFrame
        BY <1>1, <1>2, <1>3, <2>1, <3>1 DEF CallKept, StoreKept
      <3>2. CASE phase[c] = "confirming" /\ phase'[c] = "adopting" /\ store'[c] = Button(c)
        BY <1>1, <1>2, <1>3, <2>1, <3>2 DEF CallKept, StoreKept
      <3> QED BY <1>4, <3>1, <3>2 DEF ShareInv, TypeOK
    <2>2. CASE d # c
      <3>1. phase'[d] = phase[d] /\ store'[d] = store[d]
        BY <1>4, <2>2 DEF ShareInv, TypeOK
      <3> QED BY <1>1, <1>2, <3>1, CallFacts, OthersKept
    <2> QED BY <2>1, <2>2
  <1>8. QueuesOnlyShrink
    BY <1>1, <1>2, QueuesWait
  <1>9. ASSUME steady, NEW d \in Calls, NEW g \in Frames, store'[d] = g
        PROVE  frame'[g] = "open" /\ RefusesNobody(g)
    <2>1. CASE store[d] = g
      BY <1>2, <1>9, <2>1, StandingStores
    <2>2. CASE store[d] # g
      <3>1. d = c /\ phase[c] = "confirming" /\ g = Button(c)
        BY <1>4, <1>9, <2>2, FrameNames DEF ShareInv, TypeOK
      <3> QED BY <1>2, <1>3, <3>1, ButtonIsQuiet DEF StoreKept
    <2> QED BY <2>1, <2>2
  <1>10. hidden' \in HiddenFrames \cup {NoFrame}
    BY <1>2 DEF ShareInv, BrowserKept
  <1> QED BY <1>1, <1>6, <1>7, <1>8, <1>9, <1>10, PageKeeps

LEMMA AskedKeeps ==
  ASSUME ShareInv, NEW c \in Calls, Asked(c)
  PROVE  ShareInv'
  <1> PICK f : f = req[c].frame
    OBVIOUS
  <1>1. /\ phase[c] = "asking" /\ Told(c) /\ req' = [req EXCEPT ![c] = NoRequest]
        /\ UNCHANGED <<pageKeeps, explicit, client>>
    BY DEF Asked
  <1>2. UNCHANGED <<browser, permission, visited, returned, granted, steady, refused>>
    BY <1>1 DEF pageKeeps, browserVars
  <1>3. /\ f \in Frames /\ f \in HiddenFrames /\ f = client[c] /\ frame[f] = "open"
        /\ replies[f] # <<>> /\ Head(replies[f]) = c /\ Tail(replies[f]) \in Seq(Calls)
        /\ f # NoFrame /\ store[c] = NoFrame
    BY <1>1, ToldFacts, HiddenNames
  \* What becomes of the call, of the frame and of what is kept.
  <1>4. \/ /\ phase' = [phase EXCEPT ![c] = "mountable"] /\ UNCHANGED store
        \/ /\ phase' = [phase EXCEPT ![c] = "done"] /\ store' = [store EXCEPT ![c] = NoFrame]
        \/ /\ req[c].says = "granted" /\ Take(f) /\ phase' = [phase EXCEPT ![c] = "adopting"]
           /\ store' = [store EXCEPT ![c] = f]
    BY <1>3, FrameNames DEF Asked, Returns, Refusals
  <1>5. \/ Take(f) /\ UNCHANGED <<hidden, frame>>
        \/ /\ req[c].says \in Refusals /\ hidden' = NoFrame
           /\ frame' = [frame EXCEPT ![f] = "closed"]
           /\ replies' = [replies EXCEPT ![f] = <<>>]
    BY DEF Asked, DropHidden, Close
  <1>6. persisted' \in {"none", "granted", "denied", "unsupported"}
    BY DEF Asked, Settled, ShareInv, TypeOK
  <1>7. NoRequest \in Requests
    BY DEF NoRequest, Requests
  <1>8. TypeOK'
    <2>1. req' \in [Calls -> Requests]
      BY <1>1, <1>7 DEF ShareInv, TypeOK, Requests
    <2>2. phase' \in [Calls -> {"idle", "opening", "asking", "mountable", "mounting",
                                "waiting", "confirming", "adopting", "done"}]
      BY <1>4 DEF ShareInv, TypeOK
    <2>3. store' \in [Calls -> Frames \cup {NoFrame}]
      BY <1>3, <1>4 DEF ShareInv, TypeOK
    <2>4. /\ replies' \in [Frames -> Seq(Calls)]
          /\ frame' \in [Frames -> {"unused", "opening", "loaded", "open", "failed", "closed"}]
          /\ hidden' \in Frames \cup {NoFrame}
      <3>1. CASE Take(f) /\ UNCHANGED <<hidden, frame>>
        BY <1>3, <3>1 DEF ShareInv, TypeOK, Take
      <3>2. CASE /\ hidden' = NoFrame /\ frame' = [frame EXCEPT ![f] = "closed"]
                 /\ replies' = [replies EXCEPT ![f] = <<>>]
        BY <1>3, <3>2 DEF ShareInv, TypeOK
      <3> QED BY <1>5, <3>1, <3>2
    <2> QED BY <1>1, <1>2, <1>6, <2>1, <2>2, <2>3, <2>4 DEF ShareInv, TypeOK, Requests
  <1>9. \A g \in Frames : frame'[g] = frame[g] \/ (g = f /\ req[c].says \in Refusals)
    BY <1>5 DEF ShareInv, TypeOK
  <1>10. ASSUME NEW d \in Calls PROVE CallKept(d)' /\ StoreKept(d)'
    <2>1. CASE d = c
      <3>1. req'[d] = NoRequest /\ client'[d] = f
        BY <1>1, <1>3, <2>1 DEF ShareInv, TypeOK
      <3>2. /\ phase'[d] \in {"mountable", "adopting", "done"}
            /\ store'[d] = NoFrame \/ (store'[d] = f /\ phase'[d] = "adopting" /\ f \in granted)
        <4>1. req[c].says = "granted" => f \in granted
          BY CallFacts DEF StoreKept
        <4> QED BY <1>3, <1>4, <2>1, <4>1 DEF ShareInv, TypeOK
      <3> QED BY <1>2, <1>3, <3>1, <3>2 DEF CallKept, StoreKept, NoRequest
    <2>2. CASE d # c
      <3>1. /\ phase'[d] = phase[d] /\ client'[d] = client[d] /\ req'[d] = req[d]
            /\ store'[d] = store[d]
        BY <1>1, <1>4, <2>2 DEF ShareInv, TypeOK
      <3>2. frame'[Button(d)] = frame[Button(d)]
        BY <1>3, <1>9, FrameNames, HiddenNames
      <3>3. phase[d] = "idle" => frame'[Hidden(d)] = frame[Hidden(d)]
        BY <1>3, <1>9, FrameNames, CallFacts DEF CallKept
      <3> QED BY <1>2, <3>1, <3>2, <3>3, CallFacts, OthersKept
    <2> QED BY <2>1, <2>2
  <1>11. \A d \in Calls \ {c} : req'[d] = req[d]
    BY <1>1 DEF ShareInv, TypeOK
  <1>12. QueuesOnlyShrink
    BY <1>3, <1>5, <1>11, QueueMoves
  <1>13. ASSUME steady, NEW d \in Calls, NEW g \in Frames, store'[d] = g
         PROVE  frame'[g] = "open" /\ (RefusesNobody(g) \/ RefusesNobody(g)')
    <2>1. CASE store[d] = g
      <3>1. frame[g] = "open" /\ RefusesNobody(g)
        BY <1>13, <2>1, StandingStores
      <3>2. ~(g = f /\ req[c].says \in Refusals)
        BY <1>3, <1>13, <2>1, RefusedFrame DEF Refused
      <3> QED BY <1>9, <3>1, <3>2
    <2>2. CASE store[d] # g
      <3>1. d = c /\ g = f /\ req[c].says = "granted" /\ Take(f)
        BY <1>4, <1>13, <2>2, FrameNames DEF ShareInv, TypeOK
      <3>2. RefusesNobody(f)'
        BY <1>3, <1>12, <1>13, <3>1, GrantedIsLast
      <3> QED BY <1>3, <1>9, <3>1, <3>2 DEF Refusals
    <2> QED BY <2>1, <2>2
  <1>14. hidden' \in HiddenFrames \cup {NoFrame}
    BY <1>5 DEF ShareInv, BrowserKept
  <1>15. \A d \in Calls : req'[d] = req[d] \/ (req'[d].at = "none" /\ req'[d].says = "none")
    BY <1>1, <1>11 DEF ShareInv, TypeOK, NoRequest
  <1> QED BY <1>1, <1>8, <1>10, <1>12, <1>13, <1>14, <1>15, PageKeeps

LEMMA ClickedKeeps ==
  ASSUME ShareInv, NEW c \in Calls, Clicked(c)
  PROVE  ShareInv'
  <1> PICK f : f = req[c].frame
    OBVIOUS
  <1>1. /\ phase[c] = "waiting" /\ Told(c)
        /\ UNCHANGED <<pageKeeps, hidden, explicit, client>>
    BY DEF Clicked
  <1>2. UNCHANGED <<browser, permission, visited, returned, granted, steady, refused>>
    BY <1>1 DEF pageKeeps, browserVars
  <1>3. /\ f \in Frames /\ f = Button(c) /\ frame[f] = "open"
        /\ replies[f] # <<>> /\ Head(replies[f]) = c /\ Tail(replies[f]) \in Seq(Calls)
        /\ store[c] = NoFrame /\ client[c] \in HiddenFrames /\ client[c] \in Frames
        /\ f \notin HiddenFrames
    BY <1>1, ToldFacts, HiddenNames
  <1>4. \/ /\ req[c].says = "granted" /\ phase' = [phase EXCEPT ![c] = "confirming"]
           /\ req' = [req EXCEPT ![c] = Request(client[c], "silent")]
           /\ Take(f) /\ UNCHANGED <<frame, store>>
        \/ /\ phase' = [phase EXCEPT ![c] = "done"]
           /\ req' = [req EXCEPT ![c] = NoRequest]
           /\ store' = [store EXCEPT ![c] = NoFrame]
           /\ frame' = [frame EXCEPT ![f] = "closed"]
           /\ replies' = [replies EXCEPT ![f] = <<>>]
    BY DEF Clicked, Returns, Close
  <1>5. persisted' \in {"none", "granted", "denied", "unsupported"}
    BY DEF Clicked, Settled, ShareInv, TypeOK
  <1>6. NoRequest \in Requests /\ Request(client[c], "silent") \in Requests
    BY <1>3 DEF NoRequest, Request, Requests
  <1>7. TypeOK'
    <2>1. req' \in [Calls -> Requests]
      <3>1. req \in [Calls -> Requests]
        BY DEF ShareInv, TypeOK, Requests
      <3> QED BY <1>4, <1>6, <3>1
    <2>2. phase' \in [Calls -> {"idle", "opening", "asking", "mountable", "mounting",
                                "waiting", "confirming", "adopting", "done"}]
      BY <1>4 DEF ShareInv, TypeOK
    <2>3. store' \in [Calls -> Frames \cup {NoFrame}]
      BY <1>4 DEF ShareInv, TypeOK
    <2>4. /\ replies' \in [Frames -> Seq(Calls)]
          /\ frame' \in [Frames -> {"unused", "opening", "loaded", "open", "failed", "closed"}]
      <3>1. /\ replies \in [Frames -> Seq(Calls)] /\ Tail(replies[f]) \in Seq(Calls)
            /\ frame \in [Frames -> {"unused", "opening", "loaded", "open", "failed", "closed"}]
        BY <1>3 DEF ShareInv, TypeOK
      <3>2. CASE Take(f) /\ UNCHANGED frame
        BY <3>1, <3>2 DEF Take
      <3>3. CASE /\ frame' = [frame EXCEPT ![f] = "closed"]
                 /\ replies' = [replies EXCEPT ![f] = <<>>]
        <4>1. replies' \in [Frames -> Seq(Calls)]
          <5>1. <<>> \in Seq(Calls)
            OBVIOUS
          <5> QED BY <3>1, <3>3, <5>1
        <4>2. frame' \in [Frames -> {"unused", "opening", "loaded", "open", "failed", "closed"}]
          BY <3>1, <3>3
        <4> QED BY <4>1, <4>2
      <3> QED BY <1>4, <3>2, <3>3
    <2> QED BY <1>1, <1>2, <1>5, <2>1, <2>2, <2>3, <2>4 DEF ShareInv, TypeOK, Requests
  <1>8. \A g \in Frames \ {f} : frame'[g] = frame[g]
    BY <1>4 DEF ShareInv, TypeOK
  <1>9. /\ \A d \in Calls \ {c} : req'[d] = req[d]
        /\ \/ req'[c].at = "sent" /\ req'[c].says = "none"
           \/ req'[c].at = "none" /\ req'[c].says = "none"
    BY <1>4 DEF ShareInv, TypeOK, Request, NoRequest
  <1>10. ASSUME NEW d \in Calls PROVE CallKept(d)' /\ StoreKept(d)'
    <2>1. CASE d = c
      <3>1. client'[d] = client[c] /\ store'[d] = NoFrame
        BY <1>1, <1>3, <1>4, <2>1 DEF ShareInv, TypeOK
      <3>2. CASE /\ req[c].says = "granted" /\ phase' = [phase EXCEPT ![c] = "confirming"]
                 /\ req' = [req EXCEPT ![c] = Request(client[c], "silent")]
                 /\ UNCHANGED frame
        <4>1. f \in granted
          BY <3>2, CallFacts DEF StoreKept
        <4>2. phase'[d] = "confirming" /\ req'[d] = Request(client[c], "silent")
          BY <2>1, <3>2 DEF ShareInv, TypeOK
        <4> QED BY <1>2, <1>3, <2>1, <3>1, <3>2, <4>1, <4>2 DEF CallKept, StoreKept, Request
      <3>3. CASE /\ phase' = [phase EXCEPT ![c] = "done"]
                 /\ req' = [req EXCEPT ![c] = NoRequest]
        <4>1. phase'[d] = "done" /\ req'[d] = NoRequest
          BY <2>1, <3>3 DEF ShareInv, TypeOK
        <4> QED BY <1>3, <3>1, <4>1 DEF CallKept, StoreKept, NoRequest
      <3> QED BY <1>4, <3>2, <3>3
    <2>2. CASE d # c
      <3>1. /\ phase'[d] = phase[d] /\ client'[d] = client[d] /\ req'[d] = req[d]
            /\ store'[d] = store[d]
        BY <1>1, <1>4, <1>9, <2>2 DEF ShareInv, TypeOK
      <3>2. frame'[Button(d)] = frame[Button(d)] /\ frame'[Hidden(d)] = frame[Hidden(d)]
        BY <1>3, <1>8, <2>2, FrameNames
      <3> QED BY <1>2, <3>1, <3>2, CallFacts, OthersKept
    <2> QED BY <2>1, <2>2
  <1>11. QueuesOnlyShrink
    BY <1>3, <1>4, <1>9, QueueMoves
  <1>12. ASSUME steady, NEW d \in Calls, NEW g \in Frames, store'[d] = g
         PROVE  frame'[g] = "open" /\ RefusesNobody(g)
    <2>1. store[d] = g
      BY <1>3, <1>4, <1>12, FrameNames DEF ShareInv, TypeOK
    <2>2. /\ frame[g] = "open" /\ RefusesNobody(g) /\ (g = Button(d) \/ g \in HiddenFrames)
          /\ phase[d] \in {"adopting", "done"}
      BY <1>12, <2>1, StandingStores
    <2>3. g # f
      BY <1>1, <1>3, <2>2, FrameNames
    <2> QED BY <1>8, <2>2, <2>3
  <1>13. hidden' \in HiddenFrames \cup {NoFrame}
    BY <1>1 DEF ShareInv, BrowserKept
  <1> QED BY <1>1, <1>7, <1>9, <1>10, <1>11, <1>12, <1>13, PageKeeps

LEMMA ConfirmedKeeps ==
  ASSUME ShareInv, NEW c \in Calls, Confirmed(c)
  PROVE  ShareInv'
  <1> PICK f : f = req[c].frame
    OBVIOUS
  <1>1. /\ phase[c] = "confirming" /\ Told(c) /\ req' = [req EXCEPT ![c] = NoRequest]
        /\ persisted' = "granted" /\ UNCHANGED <<pageKeeps, hidden, explicit, client>>
    BY DEF Confirmed
  <1>2. UNCHANGED <<browser, permission, visited, returned, granted, steady, refused>>
    BY <1>1 DEF pageKeeps, browserVars
  <1>3. /\ f \in Frames /\ f = client[c] /\ frame[f] = "open"
        /\ replies[f] # <<>> /\ Head(replies[f]) = c /\ Tail(replies[f]) \in Seq(Calls)
        /\ store[c] = NoFrame /\ client[c] \in HiddenFrames
        /\ Button(c) \in Frames /\ Button(c) \notin HiddenFrames
        /\ f # NoFrame /\ Button(c) # NoFrame
    BY <1>1, ToldFacts, HiddenNames, FrameNames
  <1>4. /\ phase' = [phase EXCEPT ![c] = "adopting"] /\ Take(f)
        /\ \/ /\ req[c].says = "granted" /\ store' = [store EXCEPT ![c] = f]
              /\ frame' = [frame EXCEPT ![Button(c)] = "closed"]
           \/ store' = [store EXCEPT ![c] = Button(c)] /\ UNCHANGED frame
    BY <1>3 DEF Confirmed, Returns
  <1>5. TypeOK'
    <2>1. req' \in [Calls -> Requests]
      BY <1>1 DEF ShareInv, TypeOK, Requests, NoRequest
    <2>2. phase' \in [Calls -> {"idle", "opening", "asking", "mountable", "mounting",
                                "waiting", "confirming", "adopting", "done"}]
      BY <1>4 DEF ShareInv, TypeOK
    <2>3. store' \in [Calls -> Frames \cup {NoFrame}]
      <3>1. store \in [Calls -> Frames \cup {NoFrame}]
        BY DEF ShareInv, TypeOK
      <3>2. store' = [store EXCEPT ![c] = f] \/ store' = [store EXCEPT ![c] = Button(c)]
        BY <1>4
      <3> QED BY <1>3, <3>1, <3>2
    <2>4. replies' \in [Frames -> Seq(Calls)]
      <3>1. replies \in [Frames -> Seq(Calls)]
        BY DEF ShareInv, TypeOK
      <3> QED BY <1>3, <1>4, <3>1 DEF Take
    <2>5. frame' \in [Frames -> {"unused", "opening", "loaded", "open", "failed", "closed"}]
      BY <1>3, <1>4 DEF ShareInv, TypeOK
    <2> QED BY <1>1, <1>2, <2>1, <2>2, <2>3, <2>4, <2>5 DEF ShareInv, TypeOK, Requests
  <1>6. \A g \in Frames : frame'[g] = frame[g] \/ (g = Button(c) /\ store'[c] # g)
    BY <1>3, <1>4 DEF ShareInv, TypeOK
  <1>7. /\ \A d \in Calls \ {c} : req'[d] = req[d]
        /\ req'[c].at = "none" /\ req'[c].says = "none"
    BY <1>1 DEF ShareInv, TypeOK, NoRequest
  <1>8. /\ Button(c) \in granted /\ frame[Button(c)] = "open"
        /\ req[c].says = "granted" => f \in granted
    BY <1>1, CallFacts DEF StoreKept
  <1>9. ASSUME NEW d \in Calls PROVE CallKept(d)' /\ StoreKept(d)'
    <2>1. CASE d = c
      <3>1. /\ client'[d] = f /\ phase'[d] = "adopting"
            /\ (store'[d] = f /\ f \in granted) \/ store'[d] = Button(c)
        BY <1>1, <1>3, <1>4, <1>8, <2>1 DEF ShareInv, TypeOK
      <3> QED BY <1>2, <1>3, <1>7, <1>8, <2>1, <3>1 DEF CallKept, StoreKept
    <2>2. CASE d # c
      <3>1. /\ phase'[d] = phase[d] /\ client'[d] = client[d] /\ req'[d] = req[d]
            /\ store'[d] = store[d]
        BY <1>1, <1>4, <1>7, <2>2 DEF ShareInv, TypeOK
      <3>2. frame'[Button(d)] = frame[Button(d)] /\ frame'[Hidden(d)] = frame[Hidden(d)]
        BY <1>6, <2>2, FrameNames
      <3> QED BY <1>2, <3>1, <3>2, CallFacts, OthersKept
    <2> QED BY <2>1, <2>2
  <1>10. QueuesOnlyShrink
    BY <1>3, <1>4, <1>7, QueueMoves
  <1>11. ASSUME steady, NEW d \in Calls, NEW g \in Frames, store'[d] = g
         PROVE  frame'[g] = "open" /\ (RefusesNobody(g) \/ RefusesNobody(g)')
    <2>1. CASE d # c
      <3>1. store[d] = g
        BY <1>4, <1>11, <2>1 DEF ShareInv, TypeOK
      <3>2. frame[g] = "open" /\ RefusesNobody(g) /\ (g = Button(d) \/ g \in HiddenFrames)
        BY <1>11, <3>1, StandingStores
      <3>3. g # Button(c)
        BY <1>3, <2>1, <3>2, FrameNames
      <3> QED BY <1>6, <3>2, <3>3
    <2>2. CASE d = c /\ g = f /\ req[c].says = "granted"
      <3>1. RefusesNobody(f)'
        BY <1>3, <1>4, <1>10, <1>11, <2>2, GrantedIsLast
      <3> QED BY <1>3, <1>6, <2>2, <3>1
    <2>3. CASE d = c /\ g = Button(c)
      BY <1>1, <1>6, <1>8, <1>11, <2>3, ButtonIsQuiet
    <2> QED BY <1>4, <1>11, <2>1, <2>2, <2>3 DEF ShareInv, TypeOK
  <1>12. hidden' \in HiddenFrames \cup {NoFrame}
    BY <1>1 DEF ShareInv, BrowserKept
  <1> QED BY <1>1, <1>5, <1>7, <1>9, <1>10, <1>11, <1>12, PageKeeps

-----------------------------------------------------------------------------
(***************************************************************************)
(* The user, and all steps together                                        *)
(***************************************************************************)

\* The opt-in page and the site settings: a grant that is taken back makes the
\* browser unsteady.
LEMMA UserKeeps ==
  ASSUME ShareInv, Visit \/ ChangePermission \/ UNCHANGED vars
  PROVE  ShareInv'
  <1>1. /\ UNCHANGED <<browser, returned, persisted, refused, hidden, frame, granted, replies,
                       phase, explicit, client, req, store>>
        /\ visited => visited'
        /\ visited' \in BOOLEAN /\ steady' \in BOOLEAN /\ (steady' => steady)
        /\ permission' \in {"prompt", "granted", "denied"}
        /\ steady' /\ permission = "granted" => permission' = "granted"
    <2>1. /\ visited \in BOOLEAN /\ steady \in BOOLEAN
          /\ permission \in {"prompt", "granted", "denied"}
      BY DEF ShareInv, TypeOK
    <2>2. CASE Visit
      BY <2>1, <2>2 DEF Visit, frameVars, callVars
    <2>3. CASE ChangePermission
      <3>1. /\ UNCHANGED <<browser, visited, returned, persisted, frameVars, callVars, refused>>
            /\ \/ permission' \in {"prompt", "denied"} /\ steady' = FALSE
               \/ permission = "denied" /\ permission' = "prompt" /\ steady' = steady
        BY <2>3 DEF ChangePermission
      <3>2. UNCHANGED <<hidden, frame, granted, replies, phase, explicit, client, req, store>>
        BY <3>1 DEF frameVars, callVars
      <3>3. CASE permission' \in {"prompt", "denied"} /\ steady' = FALSE
        BY <2>1, <3>1, <3>2, <3>3
      <3>4. CASE permission = "denied" /\ permission' = "prompt" /\ steady' = steady
        BY <2>1, <3>1, <3>2, <3>4
      <3> QED BY <3>1, <3>3, <3>4
    <2>4. CASE UNCHANGED vars
      BY <2>1, <2>4 DEF vars, browserVars, frameVars, callVars
    <2> QED BY <2>2, <2>3, <2>4
  <1>2. TypeOK'
    BY <1>1 DEF ShareInv, TypeOK
  <1>3. BrowserKept'
    BY <1>1 DEF ShareInv, BrowserKept, MarkerSeen
  <1>4. CallsKept'
    <2> SUFFICES ASSUME NEW d \in Calls PROVE CallKept(d)' /\ StoreKept(d)' /\ VerdictKept(d)'
      BY DEF CallsKept
    <2>1. CallKept(d) /\ StoreKept(d) /\ VerdictKept(d)
      BY DEF ShareInv, CallsKept
    <2> QED BY <1>1, <2>1 DEF CallKept, StoreKept, VerdictKept, SharesNothing
  <1>5. QueuesKept'
    BY <1>1 DEF ShareInv, QueuesKept, QueueKept
  <1>6. StoresStand'
    BY <1>1 DEF ShareInv, StoresStand, GrantsLast, StoreStands, RefusesNobody, Refused
  <1> QED BY <1>2, <1>3, <1>4, <1>5, <1>6 DEF ShareInv

LEMMA InitShareInv == Init => ShareInv
  <1> SUFFICES ASSUME Init PROVE ShareInv
    OBVIOUS
  <1>1. \A c \in Calls : req[c] = NoRequest /\ client[c] = NoFrame /\ store[c] = NoFrame
                         /\ phase[c] = "idle" /\ frame[Hidden(c)] = "unused"
    BY FrameNames DEF Init
  <1>2. TypeOK
    <2>1. NoRequest \in Requests
      BY DEF NoRequest, Requests
    <2>2. persisted \in {"none", "granted", "denied", "unsupported"}
      BY KeptAssumption DEF Init
    <2>3. replies \in [Frames -> Seq(Calls)]
      BY DEF Init
    <2>4. req \in [Calls -> Requests]
      BY <2>1 DEF Init
    <2> QED BY <2>2, <2>3, <2>4 DEF Init, TypeOK, Requests
  <1>3. BrowserKept
    BY <1>1 DEF Init, BrowserKept, NoRequest
  <1>4. CallsKept
    BY <1>1 DEF CallsKept, CallKept, StoreKept, VerdictKept, NoRequest
  <1>5. \A f \in Frames : replies[f] = <<>>
    BY DEF Init
  <1>6. QueuesKept
    BY <1>5 DEF QueuesKept, QueueKept
  <1>7. StoresStand
    BY <1>1, <1>5 DEF StoresStand, GrantsLast, StoreStands
  <1> QED BY <1>2, <1>3, <1>4, <1>6, <1>7 DEF ShareInv

LEMMA NextShareInv == ShareInv /\ [Next]_vars => ShareInv'
  <1> SUFFICES ASSUME ShareInv, [Next]_vars PROVE ShareInv'
    OBVIOUS
  <1>1. ASSUME NEW c \in Calls, PageStep(c) PROVE ShareInv'
    BY <1>1, StartKeeps, AskedKeeps, ClickedKeeps, ConfirmedKeeps, CallFailsKeeps, FinishKeeps
       DEF PageStep
  <1>2. ASSUME NEW c \in Calls, FrameStep(c) \/ Click(c) PROVE ShareInv'
    BY <1>2, FrameStepKeeps
  <1>3. ASSUME NEW c \in Calls, Mount(c) PROVE ShareInv'
    BY <1>3, MountKeeps
  <1>4. ASSUME NEW f \in Frames,
               FrameLoads(f) \/ FrameOpens(f) \/ FrameFails(f) \/ Ignore(f)
        PROVE  ShareInv'
    BY <1>4, FrameLoadsKeeps, FrameOpensKeeps, FrameFailsKeeps, IgnoreKeeps
  <1>5. CASE Visit \/ ChangePermission \/ UNCHANGED vars
    BY <1>5, UserKeeps
  <1> QED BY <1>1, <1>2, <1>3, <1>4, <1>5 DEF Next

LEMMA SpecShareInv == Spec => []ShareInv
  BY InitShareInv, NextShareInv, PTL DEF Spec

\* A store that a call returned can be used, although every other call may
\* close the hidden frame under it, in a browser that does not take back or
\* garble an answer (hiddenClient, dropHidden, mount).
THEOREM SharedStoresStand == Spec => []SharedStoreWorks
  <1>1. ShareInv => SharedStoreWorks
    BY DEF ShareInv, CallsKept, StoreKept, StoresStand, StoreStands, SharedStoreWorks
  <1> QED BY <1>1, SpecShareInv, PTL

\* The verdict kept for the next page load is true of the browser, but for the
\* two cases VerdictIsEarned names (settle).
THEOREM VerdictsAreEarned == Spec => VerdictIsEarned
  <1> DEFINE Earned == /\ persisted' = "granted" /\ persisted # "granted" =>
                            \E c \in Calls : store'[c] \in granted
                       /\ persisted' = "unsupported" /\ persisted # "unsupported" =>
                            browser \in {"none", "partitioned"} \/ ~steady
                              \/ (returned /\ refused)
  <1>1. ASSUME ShareInv, [Next]_vars PROVE Earned \/ UNCHANGED vars
    <2>1. ASSUME NEW c \in Calls, Start(c) PROVE Earned
      BY <2>1 DEF Start
    <2>2. ASSUME NEW c \in Calls, Asked(c) \/ Clicked(c) PROVE Earned
      <3>1. Told(c) /\ phase[c] \in {"asking", "waiting"}
        BY <2>2 DEF Asked, Clicked
      <3>2. /\ req[c].says = "unsupported" => ~steady \/ browser \in {"none", "partitioned"}
            /\ req[c].says = "needs-visit" /\ returned =>
                 refused \/ browser \in {"none", "partitioned"}
            /\ req[c].says = "granted" => req[c].frame \in granted
        BY <1>1, CallFacts DEF ShareInv, CallsKept, VerdictKept, SharesNothing, StoreKept
      <3>3. persisted' = "unsupported" /\ persisted # "unsupported" =>
              req[c].says = "unsupported" \/ (req[c].says = "needs-visit" /\ returned)
        BY <2>2 DEF Asked, Clicked, Settled
      <3>4. persisted' = "granted" /\ persisted # "granted" =>
              Asked(c) /\ req[c].says = "granted" /\ store' = [store EXCEPT ![c] = req[c].frame]
        BY <2>2 DEF Asked, Clicked, Settled, Returns
      <3>5. store \in [Calls -> Frames \cup {NoFrame}]
        BY <1>1 DEF ShareInv, TypeOK
      <3> QED BY <3>2, <3>3, <3>4, <3>5
    <2>3. ASSUME NEW c \in Calls, Confirmed(c) PROVE Earned
      <3>1. /\ phase[c] = "confirming" /\ Told(c) /\ persisted' = "granted"
            /\ \/ req[c].says = "granted" /\ store' = [store EXCEPT ![c] = client[c]]
               \/ store' = [store EXCEPT ![c] = Button(c)]
        BY <2>3 DEF Confirmed, Returns
      <3>2. /\ Button(c) \in granted /\ req[c].frame = client[c]
            /\ req[c].says = "granted" => req[c].frame \in granted
        BY <1>1, <3>1, CallFacts DEF StoreKept, CallKept
      <3> QED BY <1>1, <3>1, <3>2 DEF ShareInv, TypeOK
    <2>4. ASSUME NEW c \in Calls, CallFails(c) PROVE Earned
      <3>1. \/ UNCHANGED persisted
            \/ /\ phase[c] = "confirming" /\ persisted' = "granted"
               /\ store' = [store EXCEPT ![c] = Button(c)]
        BY <2>4 DEF CallFails, Returns
      <3>2. phase[c] = "confirming" => Button(c) \in granted
        BY <1>1, CallFacts DEF StoreKept
      <3> QED BY <1>1, <3>1, <3>2 DEF ShareInv, TypeOK
    <2>5. ASSUME NEW c \in Calls, Finish(c) \/ Mount(c) PROVE Earned
      BY <2>5 DEF Finish, Mount
    <2>6. ASSUME NEW c \in Calls, FrameStep(c) \/ Click(c) PROVE Earned
      <3>1. UNCHANGED persisted
        BY <2>6 DEF FrameStep, Click, Receive, Resolves, Rejects, AfterRejection, Check, Probe,
                    ReadFlag, frameKeeps
      <3> QED BY <3>1
    <2>7. ASSUME NEW f \in Frames,
                 FrameLoads(f) \/ FrameOpens(f) \/ FrameFails(f) \/ Ignore(f)
          PROVE  Earned
      BY <2>7 DEF FrameLoads, FrameOpens, FrameFails, Ignore
    <2>8. CASE Visit \/ ChangePermission
      BY <2>8 DEF Visit, ChangePermission
    <2> QED BY <1>1, <2>1, <2>2, <2>3, <2>4, <2>5, <2>6, <2>7, <2>8 DEF Next, PageStep
  <1>2. ShareInv /\ [Next]_vars => [Earned]_vars
    BY <1>1
  <1> QED BY <1>2, SpecShareInv, PTL DEF Spec, VerdictIsEarned
=============================================================================
