------------------------------ MODULE CrossSite ------------------------------
(***************************************************************************)
(* How a page gets the cross-site store: connectCrossSite in               *)
(* packages/sdk/src/cache/crosssite.ts, and the grant of the cache frame   *)
(* in frameServer.ts.                                                      *)
(*                                                                         *)
(* Calls of connectCrossSite, from one page, share one hidden frame on the *)
(* CDN's origin. Each asks it for a silent grant; a call that is told to   *)
(* get a click can mount a button frame, wait for the user, and ask the    *)
(* hidden frame again. A frame answers from what the browser says at       *)
(* several moments: the access request, the permission, the marker and the *)
(* visited flag of the opt-in page. The user may visit that page or change *)
(* the permission between any two of them. A refusal closes the hidden     *)
(* frame, which is every call's.                                           *)
(***************************************************************************)
EXTENDS Naturals, Sequences, FiniteSets

CONSTANTS
  Calls,             \* calls of connectCrossSite in the page
  Browsers,          \* the kinds of browser the page may run in
  Kept               \* what an earlier page load may have kept

ASSUME KeptAssumption == Kept \subseteq {"none", "granted", "denied", "unsupported"}
ASSUME BrowsersAssumption == Browsers \subseteq {"handle", "partitioned", "plain", "none"}

(***************************************************************************)
(* "handle": requestStorageAccess resolves to a handle on unpartitioned    *)
(* storage. "partitioned": it resolves to a plain grant under which the    *)
(* Cache API stays partitioned. "plain": a plain grant that reaches all    *)
(* storage. "none": no such function.                                      *)
(***************************************************************************)

VARIABLES
  browser,           \* the kind of this one
  permission,        \* its storage-access permission for the CDN's origin
  visited,           \* the opt-in page has written its marker and its flag
  returned,          \* the page's URL carries the opt-in page's parameter
  persisted,         \* localStorage[CROSSSITE_KEY]
  hidden,            \* hiddenClients' frame for the URL
  frame,             \* frame[f]: what became of frame f
  granted,           \* the frames whose server has a store
  replies,           \* replies[f]: calls answered and not yet told, in order
  phase,             \* phase[c]: where call c is
  explicit,          \* explicit[c]: opts.explicit
  client,            \* client[c]: the hidden frame call c talks to
  req,               \* req[c]: c's grant request, as its frame handles it
  store,             \* store[c]: the frame behind the store c returned
  steady,            \* history: the browser has never taken back or garbled
                     \* an answer
  refused            \* history: the browser has rejected the request of a click

browserVars == <<browser, permission, visited, returned>>
frameVars == <<hidden, frame, granted, replies>>
callVars == <<phase, explicit, client, req, store>>
vars == <<browserVars, persisted, frameVars, callVars, steady, refused>>

Frames == {"hidden", "button"} \X Calls
NoFrame == <<>>
Hidden(c) == <<"hidden", c>>
Button(c) == <<"button", c>>

Verdicts == {"granted", "denied", "unsupported", "needs-visit", "needs-click"}
NoRequest == [frame |-> NoFrame, mode |-> "silent", at |-> "none", says |-> "none"]
Request(f, mode) == [frame |-> f, mode |-> mode, at |-> "sent", says |-> "none"]

TypeOK ==
  /\ browser \in Browsers
  /\ permission \in {"prompt", "granted", "denied"}
  /\ visited \in BOOLEAN /\ returned \in BOOLEAN
  /\ persisted \in {"none", "granted", "denied", "unsupported"}
  /\ hidden \in Frames \cup {NoFrame}
  /\ frame \in [Frames -> {"unused", "opening", "loaded", "open", "failed", "closed"}]
  /\ granted \subseteq Frames
  /\ replies \in [Frames -> Seq(Calls)]
  /\ phase \in [Calls -> {"idle", "opening", "asking", "mountable", "mounting",
                          "waiting", "confirming", "adopting", "done"}]
  /\ explicit \in [Calls -> BOOLEAN]
  /\ client \in [Calls -> Frames \cup {NoFrame}]
  /\ req \in [Calls -> [frame : Frames \cup {NoFrame}, mode : {"silent", "await-click"},
                        at : {"none", "sent", "click", "requesting", "rejected",
                              "resolved", "probing", "unmarked", "answered"},
                        says : Verdicts \cup {"none"}]]
  /\ store \in [Calls -> Frames \cup {NoFrame}]
  /\ steady \in BOOLEAN /\ refused \in BOOLEAN

Init ==
  /\ browser \in Browsers
  /\ permission \in {"prompt", "granted", "denied"}
  /\ visited \in BOOLEAN
  /\ returned \in BOOLEAN /\ (returned => visited)
  /\ persisted \in Kept
  /\ hidden = NoFrame
  /\ frame = [f \in Frames |-> "unused"]
  /\ granted = {}
  /\ replies = [f \in Frames |-> <<>>]
  /\ phase = [c \in Calls |-> "idle"]
  /\ explicit = [c \in Calls |-> FALSE]
  /\ client = [c \in Calls |-> NoFrame]
  /\ req = [c \in Calls |-> NoRequest]
  /\ store = [c \in Calls |-> NoFrame]
  /\ steady = TRUE /\ refused = FALSE

-----------------------------------------------------------------------------
(***************************************************************************)
(* The frame: FrameServer.grant for the request of call c                  *)
(***************************************************************************)

\* A closed client's iframe is removed, and what it was doing with it.
InFrame(c, at) == req[c].at = at /\ frame[req[c].frame] = "open"

Goes(c, at) == req' = [req EXCEPT ![c].at = at] /\ UNCHANGED <<granted, replies>>

\* handle: the result is posted to the page.
Answers(c, verdict) ==
  /\ req' = [req EXCEPT ![c].at = "answered", ![c].says = verdict]
  /\ replies' = [replies EXCEPT ![req[c].frame] = Append(@, c)]

\* What the frame sees through a grant.
MarkerSeen == visited /\ browser \in {"handle", "plain"}
FlagSeen == visited /\ browser \in {"partitioned", "plain"}

frameKeeps == <<browser, visited, returned, persisted, hidden, frame, phase, explicit,
                client, store>>

\* A frame that was granted repeats its answer; else the access request
\* starts, at once or with the next click on the button.
Receive(c) ==
  /\ InFrame(c, "sent")
  /\ \/ req[c].frame \in granted /\ Answers(c, "granted") /\ UNCHANGED granted
     \/ /\ req[c].frame \notin granted
        /\ Goes(c, IF req[c].mode = "silent" THEN "requesting" ELSE "click")
  /\ UNCHANGED <<frameKeeps, permission, steady, refused>>

Click(c) ==
  /\ InFrame(c, "click")
  /\ Goes(c, "requesting")
  /\ UNCHANGED <<frameKeeps, permission, steady, refused>>

\* requestStorageAccess resolves: the permission is there, or the browser or
\* its user gives it now; without a visit the "handle" browser never asks.
Resolves(c) ==
  /\ InFrame(c, "requesting")
  /\ \/ permission = "granted"
     \/ permission = "prompt" /\ (visited \/ (browser # "handle" /\ req[c].mode = "await-click"))
  /\ permission' = "granted"
  /\ Goes(c, IF browser = "handle" THEN "probing" ELSE "resolved")
  /\ UNCHANGED <<frameKeeps, steady, refused>>

\* It rejects; a user who was asked may have said no, or nothing.
Rejects(c) ==
  /\ InFrame(c, "requesting")
  /\ permission # "granted"
  /\ \/ UNCHANGED permission
     \/ req[c].mode = "await-click" /\ permission' = "denied"
  /\ refused' = (refused \/ req[c].mode = "await-click")
  /\ Goes(c, "rejected")
  /\ UNCHANGED <<frameKeeps, steady>>

\* afterRejection: permissionState is read after the rejection, and may throw.
AfterRejection(c) ==
  /\ InFrame(c, "rejected")
  /\ \/ permission = "denied" /\ Answers(c, "denied")
     \/ Answers(c, IF req[c].mode = "silent" THEN "needs-click" ELSE "needs-visit")
  /\ UNCHANGED <<frameKeeps, granted, permission, steady, refused>>

\* A plain grant is checked with hasStorageAccess.
Check(c) ==
  /\ InFrame(c, "resolved")
  /\ \/ permission = "granted" /\ Goes(c, "probing")
     \/ permission # "granted" /\ Answers(c, "unsupported") /\ UNCHANGED granted
  /\ UNCHANGED <<frameKeeps, permission, steady, refused>>

\* adopt, the marker: the Cache API may fail.
Probe(c) ==
  /\ InFrame(c, "probing")
  /\ \/ /\ MarkerSeen
        /\ granted' = granted \cup {req[c].frame}
        /\ Answers(c, "granted")
        /\ UNCHANGED steady
     \/ ~MarkerSeen /\ Goes(c, "unmarked") /\ UNCHANGED steady
     \/ Answers(c, "unsupported") /\ steady' = FALSE /\ UNCHANGED granted
  /\ UNCHANGED <<frameKeeps, permission, refused>>

\* Seeded fault: the flag is not looked at.
ReadNoFlag(c) ==
  /\ InFrame(c, "unmarked")
  /\ Answers(c, "unsupported")
  /\ UNCHANGED <<frameKeeps, granted, permission, steady, refused>>

\* adopt, the flag: read after the marker was found missing. When the visit
\* falls between the two, the flag says the opposite of what it means.
ReadFlag(c) ==
  /\ InFrame(c, "unmarked")
  /\ Answers(c, IF FlagSeen THEN "unsupported" ELSE "needs-visit")
  /\ steady' = (steady /\ ~(FlagSeen /\ MarkerSeen))
  /\ UNCHANGED <<frameKeeps, granted, permission, refused>>

FrameStep(c) ==
  \/ Receive(c) \/ Resolves(c) \/ Rejects(c) \/ AfterRejection(c)
  \/ Check(c) \/ Probe(c) \/ ReadFlag(c)

-----------------------------------------------------------------------------
(***************************************************************************)
(* The page: connectCrossSite                                              *)
(***************************************************************************)

pageKeeps == <<browserVars, granted, steady, refused>>

IsSilentRefused(c, asked) ==
  ~asked /\ persisted \in {"denied", "unsupported"}

\* hiddenClient: the frame of the URL is shared, and opened when there is none.
\* The calls that wait for it go on together when it has opened.
JoinHidden(c) ==
  IF hidden = NoFrame
  THEN /\ hidden' = Hidden(c)
       /\ frame' = [frame EXCEPT ![Hidden(c)] = "opening"]
       /\ client' = [client EXCEPT ![c] = Hidden(c)]
       /\ phase' = [phase EXCEPT ![c] = "opening"]
       /\ UNCHANGED req
  ELSE /\ client' = [client EXCEPT ![c] = hidden]
       /\ IF frame[hidden] = "open"
          THEN /\ phase' = [phase EXCEPT ![c] = "asking"]
               /\ req' = [req EXCEPT ![c] = Request(hidden, "silent")]
          ELSE /\ phase' = [phase EXCEPT ![c] = "opening"]
               /\ UNCHANGED req
       /\ UNCHANGED <<hidden, frame>>

Start(c) ==
  /\ phase[c] = "idle"
  /\ \E asked \in BOOLEAN :
       /\ explicit' = [explicit EXCEPT ![c] = asked]
       /\ \/ /\ browser = "none"
             /\ persisted' = "unsupported"
             /\ phase' = [phase EXCEPT ![c] = "done"]
             /\ UNCHANGED <<hidden, frame, client, req>>
          \/ /\ browser # "none" /\ IsSilentRefused(c, asked)
             /\ phase' = [phase EXCEPT ![c] = "done"]
             /\ UNCHANGED <<persisted, hidden, frame, client, req>>
          \/ /\ browser # "none" /\ ~IsSilentRefused(c, asked)
             /\ JoinHidden(c)
             /\ UNCHANGED persisted
  /\ UNCHANGED <<pageKeeps, replies, store>>

\* domFrameOpener: `await loaded`, which no timer ends.
FrameLoads(f) ==
  /\ frame[f] = "opening"
  /\ frame' = [frame EXCEPT ![f] = "loaded"]
  /\ UNCHANGED <<pageKeeps, persisted, hidden, replies, callVars>>

\* The hello, which has a timer, was answered.
FrameOpens(f) ==
  /\ frame[f] = "loaded"
  /\ frame' = [frame EXCEPT ![f] = "open"]
  /\ LET on == {c \in Calls : phase[c] = "opening" /\ client[c] = f}
         by == {c \in Calls : phase[c] = "mounting" /\ f = Button(c)}
     IN /\ phase' = [c \in Calls |-> IF c \in on THEN "asking"
                                     ELSE IF c \in by THEN "waiting" ELSE phase[c]]
        /\ req' = [c \in Calls |-> IF c \in on THEN Request(f, "silent")
                                   ELSE IF c \in by THEN Request(f, "await-click")
                                   ELSE req[c]]
  /\ UNCHANGED <<pageKeeps, persisted, hidden, replies, explicit, client, store>>

\* It did not load, or nobody said hello in time: the element stays behind.
FrameFails(f) ==
  /\ frame[f] \in {"opening", "loaded"}
  /\ frame' = [frame EXCEPT ![f] = "failed"]
  /\ hidden' = IF hidden = f THEN NoFrame ELSE hidden
  /\ phase' = [c \in Calls |->
                 IF \/ phase[c] = "opening" /\ client[c] = f
                    \/ phase[c] = "mounting" /\ f = Button(c)
                 THEN "done" ELSE phase[c]]
  /\ UNCHANGED <<pageKeeps, persisted, replies, explicit, client, req, store>>

\* A reply reaches its call, the next one of its frame.
Told(c) ==
  LET f == req[c].frame IN
  /\ frame[f] = "open" /\ replies[f] # <<>> /\ Head(replies[f]) = c

Take(f) == replies' = [replies EXCEPT ![f] = Tail(@)]

\* Seeded fault: every verdict is kept as it is.
SettledAsIs(verdict) == persisted' = verdict

\* settle: the verdict kept for the next page load.
Settled(verdict) ==
  persisted' = CASE verdict \in {"granted", "denied", "unsupported"} -> verdict
                 [] verdict = "needs-visit" /\ returned -> "unsupported"
                 [] OTHER -> persisted

\* FrameClient.close: the iframe goes, with what was under way in it.
Close(f) ==
  /\ frame' = [frame EXCEPT ![f] = "closed"]
  /\ replies' = [replies EXCEPT ![f] = <<>>]

\* Seeded fault: a missing visit closes the hidden frame too.
RefusalsAndVisits == {"unsupported", "denied", "needs-visit"}

\* dropHidden, after these.
Refusals == {"unsupported", "denied"}
DropHidden(f) == hidden' = NoFrame /\ Close(f)

Returns(c, f) ==
  /\ store' = [store EXCEPT ![c] = f]
  /\ phase' = [phase EXCEPT ![c] = IF f = NoFrame THEN "done" ELSE "adopting"]

\* The silent grant's answer.
Asked(c) ==
  LET says == req[c].says
      f == req[c].frame
  IN
  /\ phase[c] = "asking" /\ Told(c)
  /\ \/ /\ says = "needs-click" /\ explicit[c]
        /\ phase' = [phase EXCEPT ![c] = "mountable"]
        /\ Take(f)
        /\ UNCHANGED <<persisted, hidden, frame, store>>
     \/ /\ says # "needs-click" \/ ~explicit[c]
        /\ Settled(says)
        /\ Returns(c, IF says = "granted" THEN f ELSE NoFrame)
        /\ IF says \in Refusals THEN DropHidden(f)
           ELSE Take(f) /\ UNCHANGED <<hidden, frame>>
  /\ req' = [req EXCEPT ![c] = NoRequest]
  /\ UNCHANGED <<pageKeeps, explicit, client>>

\* mount: the developer shows the button frame.
Mount(c) ==
  /\ phase[c] = "mountable"
  /\ phase' = [phase EXCEPT ![c] = "mounting"]
  /\ frame' = [frame EXCEPT ![Button(c)] = "opening"]
  /\ UNCHANGED <<pageKeeps, persisted, hidden, replies, explicit, client, req, store>>

\* The answer to the click; a granted call asks the hidden frame once more.
Clicked(c) ==
  LET says == req[c].says
      f == req[c].frame
  IN
  /\ phase[c] = "waiting" /\ Told(c)
  /\ \/ /\ says = "granted"
        /\ phase' = [phase EXCEPT ![c] = "confirming"]
        /\ req' = [req EXCEPT ![c] = Request(client[c], "silent")]
        /\ Take(f)
        /\ UNCHANGED <<persisted, frame, store>>
     \/ /\ says # "granted"
        /\ Settled(says)
        /\ Returns(c, NoFrame)
        /\ Close(f)
        /\ req' = [req EXCEPT ![c] = NoRequest]
  /\ UNCHANGED <<pageKeeps, hidden, explicit, client>>

\* The hidden frame is the store if it can be, else the button frame.
Confirmed(c) ==
  /\ phase[c] = "confirming" /\ Told(c)
  /\ persisted' = "granted"
  /\ IF req[c].says = "granted"
     THEN /\ Returns(c, client[c])
          /\ frame' = [frame EXCEPT ![Button(c)] = "closed"]
     ELSE Returns(c, Button(c)) /\ UNCHANGED frame
  /\ Take(client[c])
  /\ req' = [req EXCEPT ![c] = NoRequest]
  /\ UNCHANGED <<pageKeeps, hidden, explicit, client>>

\* Seeded fault: no timer.
CallFailsOnClose(c) ==
  /\ client[c] \in Frames /\ frame[client[c]] = "closed"
  /\ \/ phase[c] = "asking" /\ Returns(c, NoFrame) /\ UNCHANGED persisted
     \/ phase[c] = "confirming" /\ Returns(c, Button(c)) /\ persisted' = "granted"
  /\ UNCHANGED <<pageKeeps, frameVars, explicit, client, req>>

\* callWithMeta rejects: no answer in time, or the client was closed.
CallFails(c) ==
  /\ \/ phase[c] = "asking" /\ Returns(c, NoFrame) /\ UNCHANGED persisted
     \/ phase[c] = "confirming" /\ Returns(c, Button(c)) /\ persisted' = "granted"
  /\ UNCHANGED <<pageKeeps, frameVars, explicit, client, req>>

\* The reply of a call that has stopped waiting.
Ignore(f) ==
  /\ frame[f] = "open" /\ replies[f] # <<>>
  /\ LET c == Head(replies[f])
     IN ~(req[c].frame = f /\ phase[c] \in {"asking", "waiting", "confirming"})
  /\ Take(f)
  /\ UNCHANGED <<pageKeeps, persisted, hidden, frame, callVars>>

\* finish: adoptPerSite has copied what it could; it stops at any failure.
Finish(c) ==
  /\ phase[c] = "adopting"
  /\ phase' = [phase EXCEPT ![c] = "done"]
  /\ UNCHANGED <<pageKeeps, persisted, frameVars, explicit, client, req, store>>

-----------------------------------------------------------------------------
(***************************************************************************)
(* The user, outside the page                                              *)
(***************************************************************************)

\* What happens once every call has returned is not followed.
AllReturned == \A c \in Calls : phase[c] = "done"

\* optin.html in another tab.
Visit ==
  /\ ~visited /\ browser # "none" /\ ~AllReturned
  /\ visited' = TRUE
  /\ UNCHANGED <<browser, permission, returned, persisted, frameVars, callVars, steady,
                 refused>>

\* The site settings.
ChangePermission ==
  /\ browser # "none" /\ ~AllReturned
  /\ \/ permission = "granted" /\ permission' \in {"prompt", "denied"} /\ steady /\ steady' = FALSE
     \/ permission = "denied" /\ permission' = "prompt" /\ UNCHANGED steady
  /\ UNCHANGED <<browser, visited, returned, persisted, frameVars, callVars, refused>>

PageStep(c) ==
  \/ Start(c) \/ Asked(c) \/ Clicked(c) \/ Confirmed(c) \/ CallFails(c) \/ Finish(c)

Next ==
  \/ \E c \in Calls : PageStep(c) \/ FrameStep(c) \/ Mount(c) \/ Click(c)
  \/ \E f \in Frames : FrameLoads(f) \/ FrameOpens(f) \/ FrameFails(f) \/ Ignore(f)
  \/ Visit \/ ChangePermission
  \/ AllReturned /\ UNCHANGED vars

Spec == Init /\ [][Next]_vars

(***************************************************************************)
(* What has a timer ends: the hello once the frame has loaded, and the     *)
(* silent calls. Calls of the browser that ask nobody (permissions, Cache  *)
(* API, localStorage) settle. Nothing is assumed of what has no timer: the *)
(* frame's document may never load (crosssite.ts:258), the developer need  *)
(* not mount a button, nor the user click it, nor answer the prompt that   *)
(* follows (the call of crosssite.ts:371 has timeoutMs null).              *)
(***************************************************************************)
Fairness ==
  /\ \A f \in Frames :
       /\ WF_vars(frame[f] = "loaded" /\ (FrameOpens(f) \/ FrameFails(f)))
       /\ WF_vars(Ignore(f))
  /\ \A c \in Calls :
       /\ WF_vars(CallFails(c)) /\ WF_vars(Clicked(c)) /\ WF_vars(Finish(c))
       /\ WF_vars(/\ req[c].mode = "await-click"
                  /\ AfterRejection(c) \/ Check(c) \/ Probe(c) \/ ReadFlag(c))

FairSpec == Spec /\ Fairness

-----------------------------------------------------------------------------
(***************************************************************************)
(* Properties                                                              *)
(***************************************************************************)

\* A store that a call returned can be used: its frame is open and holds the
\* grant, although every other call may close the hidden frame. (hiddenClient,
\* dropHidden, the last lines of mount.) It is claimed for a browser that does
\* not take back or garble an answer: a call that overlaps a granted one and
\* reads a failing marker, or a flag written just after it looked for the
\* marker, closes the frame under the other's store.
SharedStoreWorks ==
  /\ TypeOK
  /\ steady =>
       \A c \in Calls :
         store[c] # NoFrame => store[c] \in granted /\ frame[store[c]] = "open"

\* What is kept for the next page load is true: "granted" is kept when there
\* is a granted store, "unsupported" only in a browser that cannot share the
\* cache. Outside: an unsteady browser, and a user who came back from the
\* opt-in page and then did not grant the click's request (settle).
VerdictIsEarned ==
  [][/\ persisted' = "granted" /\ persisted # "granted" =>
          \E c \in Calls : store'[c] \in granted
     /\ persisted' = "unsupported" /\ persisted # "unsupported" =>
          browser \in {"none", "partitioned"} \/ ~steady \/ (returned /\ refused)]_vars

\* The frame whose opening call c waits for.
Awaited(c) == IF phase[c] = "opening" THEN client[c] ELSE Button(c)

\* connectCrossSite and mount return, however the other call closes, refuses or
\* replaces the frame they share. What can keep a call waiting for ever is what
\* has no timer, and nothing else: a frame whose document never loads, which
\* holds every call that shares it; the developer, who need not mount the
\* button; the user, who need neither click it nor answer the prompt.
CallsReturn ==
  \A c \in Calls :
    /\ \/ phase[c] \in {"asking", "confirming", "adopting"}
       \/ phase[c] \in {"opening", "mounting"} /\ frame[Awaited(c)] = "loaded"
         ~> phase[c] \in {"mountable", "waiting", "done"}
    /\ (phase[c] = "waiting" /\ req[c].at \notin {"sent", "click", "requesting"})
         ~> phase[c] = "done"
=============================================================================
