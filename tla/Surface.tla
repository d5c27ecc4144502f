------------------------------ MODULE Surface ------------------------------
(***************************************************************************)
(* The Playwright surface: one caller asking for one operation at a time,  *)
(* and a browser that goes on by itself meanwhile.                         *)
(*                                                                         *)
(* A page is a main frame and at most one child.  A navigation asked for   *)
(* by an input, by the page's own script or by the caller is intercepted   *)
(* at its first request and at every redirect; what Chromium says of a     *)
(* frame's loading reaches the adapter later, in the order it was said.    *)
(* What an input starts may be said before the input is answered or after. *)
(* Time is counted down: in the timer of the attempt being made and in the *)
(* deadline the caller has set.                                            *)
(***************************************************************************)
EXTENDS Origins

CONSTANTS
  Patterns,       \* the origins the policy lists, or None when there is no policy
  StartUrl,       \* where the browser is opened
  Addresses,      \* the addresses a caller, an input or the page may ask for
  Blank,          \* about:blank, what a browser opens with
  Data,           \* a document no origin can be named for
  ActionTimeout,  \* the longest an attempt may take
  Deadlines,      \* the deadlines a caller may set
  Rounds,         \* how often a wait looks
  MaxCalls,       \* how many operations are asked for
  MaxMoves        \* how often the page moves by itself

Frames == {"main", "child"}

ASSUME BlankAssumption == ~IsWeb(Blank) /\ ~IsWeb(Data)
ASSUME TimesAssumption == ActionTimeout \in Nat \ {0} /\ Deadlines \subseteq Nat
ASSUME BoundsAssumption == Rounds \in Nat \ {0} /\ MaxCalls \in Nat /\ MaxMoves \in Nat

VARIABLES
  doc,        \* the document each frame shows, None for no child
  nav,        \* the navigation each frame is making: to where, whose, and how far
  due,        \* an input was made, and what it starts may still be to come
  boundary,   \* the address first refused, or None
  events,     \* what Chromium has said of loading that the adapter has not heard
  loading,    \* the frames the adapter takes to be loading
  deadline,   \* what is left until the caller's deadline, None without one
  call,       \* the operation in progress
  timer,      \* what is left of the attempt being made
  answer,     \* what the last operation came to
  calls, moves

browser == <<doc, nav, due, events, moves>>
vars == <<doc, nav, due, boundary, events, loading, deadline, call, timer, answer, calls, moves>>

-----------------------------------------------------------------------------
\* What each operation does, an attempt at a time: whatever it is for, it looks at
\* the whole page, before it acts and after.

Program ==
  [observe         |-> <<"check", "aria", "check", "title">>,
   resolveTarget   |-> <<"check", "aria", "check", "title", "decide">>,
   extract         |-> <<"check", "aria", "check", "title", "decide", "check">>,
   navigate        |-> <<"authorize", "goto", "check", "aria", "check", "title">>,
   click           |-> <<"check", "aria", "check", "title", "decide", "check", "input",
                         "check", "aria", "check", "title">>,
   fill            |-> <<"check", "aria", "check", "title", "decide", "check", "input",
                         "check", "aria", "check", "title">>,
   waitFor         |-> <<"check", "aria", "check", "title", "satisfied">>,
   captureEvidence |-> <<"check", "aria", "check", "title", "screenshot">>]

Operations == DOMAIN Program

\* Attempts the browser answers in its own time; the rest are done at once.
Native == {"aria", "title", "goto", "input", "screenshot"}

\* The attempts whose failure stops what is loading.
Stopping == {"goto", "input"}

Idle == [op |-> "none", url |-> None, at |-> 0, phase |-> "idle", frame |-> "main",
         seen |-> {}, owed |-> 0, round |-> 0]

Busy == call.phase # "idle"

Doing == Program[call.op][call.at]

Answer(op, says) == [op |-> op, says |-> says]

-----------------------------------------------------------------------------
\* The boundary

\* The policy's origins when there is a policy, else where the browser was opened.
Authorized(url) ==
  /\ IsWeb(url)
  /\ IF Patterns # None
     THEN AllowedBy({ParseOriginPattern(p) : p \in Patterns}, url)
     ELSE StartUrl # None /\ OriginOf(url) = OriginOf(StartUrl)

\* A child with no address of its own is as good as its parent.
EffectiveUrl(frame) == IF frame = "child" /\ doc[frame] = Blank THEN doc["main"] ELSE doc[frame]

\* A fault: only the main frame is checked.
Refused_MainOnly == {f \in {"main"} : doc[f] # Blank /\ ~Authorized(doc[f])}

\* A main frame with nothing in it cannot hold a target; any other is checked.
Refused ==
  {f \in Frames : /\ doc[f] # None
                  /\ ~(f = "main" /\ doc[f] = Blank)
                  /\ ~Authorized(EffectiveUrl(f))}

\* A fault: the last refusal is the one that is kept.
Refuse_Latest(url) == boundary' = url

\* The first refusal is the one that is kept.
Refuse(url) == boundary' = IF boundary = None THEN url ELSE boundary

-----------------------------------------------------------------------------
\* What the browser does

Navigation(url, by) == [url |-> url, by |-> by, stage |-> "asked"]

Loads(frame, adds) == [frame |-> frame, adds |-> adds]

\* A frame that is to load says so before its request is made.
AskFor(frame, url, by) ==
  /\ nav' = [nav EXCEPT ![frame] = Navigation(url, by)]
  /\ events' = Append(events, Loads(frame, TRUE))

\* The adapter is between two callbacks: what it does at once is done.
Yielded == call.phase # "ready"

Moves == Yielded /\ moves < MaxMoves /\ moves' = moves + 1 /\ UNCHANGED due

\* The page's own script takes a frame somewhere else.
PageNavigates ==
  /\ Moves
  /\ \E f \in {g \in Frames : doc[g] # None}, url \in Addresses : AskFor(f, url, "page")
  /\ UNCHANGED <<doc, boundary, loading, deadline, call, timer, answer, calls>>

\* The page opens a child that asks for nothing.
PageOpensChild ==
  /\ Moves
  /\ doc["main"] # Blank
  /\ \E d \in {Blank, Data} : doc' = [doc EXCEPT !["child"] = d]
  /\ nav' = [nav EXCEPT !["child"] = None]
  /\ events' = Append(events, Loads("child", FALSE))
  /\ call' = [call EXCEPT !.seen = @ \ {"child"}]
  /\ UNCHANGED <<boundary, loading, deadline, timer, answer, calls>>

\* A frame may start what an input told it to only after the input is answered
\* (surface-origin-boundary.test.ts:135).
InputNavigates ==
  /\ Yielded /\ due
  /\ \E f \in {g \in Frames : doc[g] # None}, url \in Addresses : AskFor(f, url, "late")
  /\ due' = FALSE
  /\ UNCHANGED <<doc, boundary, loading, deadline, call, timer, answer, calls, moves>>

\* The page asks for something that is no document, a picture or a socket, and is
\* refused it.
PageRequests ==
  /\ Moves
  /\ \E url \in Addresses : (boundary # None \/ ~Authorized(url)) /\ Refuse(url)
  /\ UNCHANGED <<doc, nav, events, loading, deadline, call, timer, answer, calls>>

RefuseRequest(f) ==
  /\ Refuse(nav[f].url)
  /\ nav' = [nav EXCEPT ![f] = None]
  /\ events' = Append(events, Loads(f, FALSE))

Forbidden(f) == boundary # None \/ ~Authorized(nav[f].url)

At(f, stage) == nav[f] # None /\ nav[f].stage = stage

MovesOn(f, stage) ==
  /\ nav' = [nav EXCEPT ![f].stage = stage]
  /\ UNCHANGED <<boundary, events>>

\* The first request of a navigation is looked at, and is then held until its
\* frame is watched.
Intercept(f) ==
  /\ Yielded /\ At(f, "asked")
  /\ IF Forbidden(f) THEN RefuseRequest(f) ELSE MovesOn(f, "cleared")
  /\ UNCHANGED <<doc, due, loading, deadline, call, timer, answer, calls, moves>>

\* Its frame is watched, and it goes on without a second look, unless the frame's
\* own session gets to see it after a refusal.
LetThrough(f) ==
  /\ Yielded /\ At(f, "cleared")
  /\ \/ MovesOn(f, "sent")
     \/ boundary # None /\ RefuseRequest(f)
  /\ UNCHANGED <<doc, due, loading, deadline, call, timer, answer, calls, moves>>

\* A frame that cannot be watched has its first request refused, wherever it is to.
CannotWatch(f) ==
  /\ Moves /\ At(f, "cleared")
  /\ RefuseRequest(f)
  /\ UNCHANGED <<doc, loading, deadline, call, timer, answer, calls>>

\* What a request is redirected to is looked at and let through at once, by the
\* session of its frame.
Follow(f) ==
  /\ Yielded /\ At(f, "redirected")
  /\ IF Forbidden(f) THEN RefuseRequest(f) ELSE MovesOn(f, "sent")
  /\ UNCHANGED <<doc, due, loading, deadline, call, timer, answer, calls, moves>>

\* The server answers with another address.
Redirect(f) ==
  /\ Moves /\ At(f, "sent")
  /\ \E url \in Addresses : nav' = [nav EXCEPT ![f].url = url, ![f].stage = "redirected"]
  /\ UNCHANGED <<doc, boundary, events, loading, deadline, call, timer, answer, calls>>

\* The server answers with the document.  A new main document has no child.
Commit(f) ==
  /\ Yielded /\ At(f, "sent")
  /\ LET gone == IF f = "main" THEN Frames ELSE {f}
     IN /\ doc' = [g \in Frames |-> IF g = f THEN nav[f].url
                                    ELSE IF g \in gone THEN None ELSE doc[g]]
        /\ nav' = [g \in Frames |-> IF g \in gone THEN None ELSE nav[g]]
        /\ events' = events \o (IF f = "main" THEN <<Loads("main", FALSE), Loads("child", FALSE)>>
                                ELSE <<Loads("child", FALSE)>>)
        /\ call' = [call EXCEPT !.seen = @ \ gone]
  /\ UNCHANGED <<due, boundary, loading, deadline, timer, answer, calls, moves>>

\* The adapter hears that a frame has begun to load, or has stopped.
Hear ==
  /\ Yielded
  /\ events # <<>>
  /\ loading' = IF Head(events).adds THEN loading \cup {Head(events).frame}
                ELSE loading \ {Head(events).frame}
  /\ events' = Tail(events)
  /\ call' = [call EXCEPT !.owed = IF @ > 0 THEN @ - 1 ELSE 0]
  /\ UNCHANGED <<doc, nav, due, boundary, deadline, timer, answer, calls, moves>>

Tick ==
  /\ Yielded
  /\ timer > 0 \/ deadline \notin {None, 0}
  /\ timer' = IF timer > 0 THEN timer - 1 ELSE 0
  /\ deadline' = IF deadline \in {None, 0} THEN deadline ELSE deadline - 1
  /\ UNCHANGED <<doc, nav, due, boundary, events, loading, call, answer, calls, moves>>

-----------------------------------------------------------------------------
\* What the adapter does

\* A browser that could not be opened where it was told is not handed out.
Opened == calls = 0 /\ answer # None => answer.says = "ok"

Ask(op, url) ==
  /\ ~Busy /\ Opened /\ calls < MaxCalls
  /\ call' = [Idle EXCEPT !.op = op, !.url = url, !.at = 1, !.phase = "ready"]
  /\ answer' = None
  /\ calls' = calls + 1
  /\ UNCHANGED <<browser, boundary, loading, deadline, timer>>

\* Between operations; a deadline that is no number is one that has passed.
SetDeadline(value) ==
  /\ ~Busy /\ value # deadline
  /\ deadline' = value
  /\ UNCHANGED <<browser, boundary, loading, call, timer, answer, calls>>

Reply(says) ==
  /\ answer' = Answer(call.op, says)
  /\ call' = Idle
  /\ timer' = 0

\* On to the next attempt, or the operation is done.
Advance ==
  IF call.at = Len(Program[call.op]) THEN Reply("ok")
  ELSE /\ call' = [call EXCEPT !.at = @ + 1, !.phase = "ready", !.owed = 0,
                               !.seen = IF Doing = "aria" THEN {f \in Frames : doc[f] # None} ELSE @]
       /\ timer' = 0
       /\ UNCHANGED answer

Stopped(frame) == IF nav[frame] = None THEN <<>> ELSE <<Loads(frame, FALSE)>>

\* What was being loaded is stopped in every frame.
StopLoading ==
  /\ nav' = [f \in Frames |-> None]
  /\ events' = events \o Stopped("main") \o Stopped("child")

\* An attempt that fails says so only once what it began has been stopped; a
\* refusal is the reason given whatever else went wrong.
Fail(why) ==
  /\ IF Doing \in Stopping THEN StopLoading ELSE UNCHANGED <<nav, events>>
  /\ Reply(IF boundary # None THEN "boundary" ELSE why)

\* A fault: time is only asked about beforehand.
Keep_WheneverItComes ==
  IF boundary # None THEN Fail("boundary") ELSE Advance /\ UNCHANGED <<nav, events>>

\* What has come back is kept only if nothing was refused and there is time left.
Keep ==
  IF boundary # None \/ deadline = 0 THEN Fail("deadline")
  ELSE Advance /\ UNCHANGED <<nav, events>>

\* An attempt begins only if nothing was refused and there is time for it.
Refrain ==
  /\ call.phase = "ready" /\ Doing \notin {"decide", "satisfied"}
  /\ boundary # None \/ deadline = 0
  /\ IF boundary # None
     THEN Reply("boundary") /\ UNCHANGED <<nav, events>>
     ELSE Fail("deadline")
  /\ UNCHANGED <<doc, due, boundary, loading, deadline, calls, moves>>

MayBegin == call.phase = "ready" /\ boundary = None /\ deadline # 0

\* Every frame is held to the allowlist, the main one first.
CheckFrames ==
  /\ MayBegin /\ Doing = "check"
  /\ IF Refused = {}
     THEN Advance /\ UNCHANGED boundary
     ELSE /\ Refuse(doc[IF "main" \in Refused THEN "main" ELSE "child"])
          /\ Reply("boundary")
  /\ UNCHANGED <<browser, loading, deadline, calls>>

AuthorizeDestination ==
  /\ MayBegin /\ Doing = "authorize"
  /\ IF Authorized(call.url)
     THEN Advance /\ UNCHANGED boundary
     ELSE Refuse(call.url) /\ Reply("boundary")
  /\ UNCHANGED <<browser, loading, deadline, calls>>

\* The target names one control of a frame that was seen, or the call fails; a
\* blank page has no control.
Decide ==
  /\ call.phase = "ready" /\ Doing = "decide"
  /\ \/ Reply("target")
     \/ call.at = Len(Program[call.op]) /\ Reply("ok")
     \/ /\ call.at < Len(Program[call.op])
        /\ \E f \in call.seen :
             /\ ~(f = "main" /\ doc[f] = Blank)
             /\ call' = [call EXCEPT !.at = @ + 1, !.frame = f]
        /\ UNCHANGED <<timer, answer>>
  /\ UNCHANGED <<browser, boundary, loading, deadline, calls>>

\* The condition holds, or it is looked at again, or the looks are used up.
Satisfied ==
  /\ call.phase = "ready" /\ Doing = "satisfied"
  /\ \/ Reply("ok")
     \/ call.round + 1 = Rounds /\ Reply("unmet")
     \/ /\ call.round + 1 < Rounds
        /\ IF boundary # None \/ deadline = 0
           THEN Reply(IF boundary # None THEN "boundary" ELSE "deadline")
           ELSE /\ call' = [call EXCEPT !.phase = "asleep", !.round = @ + 1]
                /\ timer' = 1
                /\ UNCHANGED answer
  /\ UNCHANGED <<browser, boundary, loading, deadline, calls>>

LookAgain ==
  /\ call.phase = "asleep" /\ timer = 0
  /\ call' = [call EXCEPT !.at = 1, !.phase = "ready"]
  /\ UNCHANGED <<browser, boundary, loading, deadline, timer, answer, calls>>

\* The browser is asked, for as long as there is.
Begin ==
  /\ MayBegin /\ Doing \in Native
  /\ timer' = IF deadline = None \/ deadline > ActionTimeout THEN ActionTimeout ELSE deadline
  /\ call' = [call EXCEPT !.phase = "running"]
  /\ IF Doing = "goto" THEN AskFor("main", call.url, "call") ELSE UNCHANGED <<nav, events>>
  /\ UNCHANGED <<doc, due, boundary, loading, deadline, answer, calls, moves>>

\* The browser has answered; a navigation, once its page is there.
Finish ==
  /\ call.phase = "running" /\ Doing \in Native \ {"input"}
  /\ Doing = "goto" => nav["main"] = None /\ doc["main"] # Blank
  /\ Keep
  /\ UNCHANGED <<doc, due, boundary, loading, deadline, calls, moves>>

\* The browser gives up in time, or at once: refused, replaced, nothing there.  An
\* input that was not answered may have reached its control all the same.
GiveUp ==
  /\ call.phase = "running"
  /\ timer = 0 \/ (Doing = "goto" /\ (nav["main"] # None => nav["main"].by # "call"))
  /\ Fail("unavailable")
  /\ due' \in {due, due \/ (Doing = "input" /\ call.frame \in call.seen)}
  /\ UNCHANGED <<doc, boundary, loading, deadline, calls, moves>>

\* The input reaches the control it was resolved to, if that is still there, and
\* may make its page go somewhere, at once or later.  Only what Chromium has said
\* until the input is answered is waited for.
Land ==
  /\ call.phase = "running" /\ Doing = "input"
  /\ call.frame \in call.seen
  /\ \/ /\ \E f \in {g \in Frames : doc[g] # None}, url \in Addresses : AskFor(f, url, "call")
        /\ UNCHANGED due
     \/ due' \in {due, TRUE} /\ UNCHANGED <<nav, events>>
  /\ call' = [call EXCEPT !.phase = "draining", !.owed = Len(events')]
  /\ UNCHANGED <<doc, boundary, loading, deadline, timer, answer, calls, moves>>

\* A fault: what is loading is asked about straight away.
Drained_WithoutWaiting ==
  /\ call.phase = "draining"
  /\ call' = [call EXCEPT !.phase = "settling"]
  /\ UNCHANGED <<browser, boundary, loading, deadline, timer, answer, calls>>

Drained ==
  /\ call.phase = "draining" /\ call.owed = 0
  /\ call' = [call EXCEPT !.phase = "settling"]
  /\ UNCHANGED <<browser, boundary, loading, deadline, timer, answer, calls>>

Settled ==
  /\ call.phase = "settling" /\ loading = {}
  /\ Keep
  /\ UNCHANGED <<doc, due, boundary, loading, deadline, calls, moves>>

\* A fault: only the caller's deadline ends the wait.
Unsettled_AtTheDeadline ==
  /\ call.phase = "settling" /\ loading # {} /\ deadline = 0
  /\ Fail("unavailable")
  /\ UNCHANGED <<doc, due, boundary, loading, deadline, calls, moves>>

Unsettled ==
  /\ call.phase = "settling" /\ loading # {} /\ timer = 0
  /\ Fail("unavailable")
  /\ UNCHANGED <<doc, due, boundary, loading, deadline, calls, moves>>

-----------------------------------------------------------------------------
Init ==
  /\ doc = [main |-> Blank, child |-> None]
  /\ nav = [f \in Frames |-> None]
  /\ due = FALSE
  /\ boundary = None
  /\ events = <<>>
  /\ loading = {}
  /\ deadline = None
  /\ call = IF StartUrl = None THEN Idle
            ELSE [Idle EXCEPT !.op = "navigate", !.url = StartUrl, !.at = 1, !.phase = "ready"]
  /\ timer = 0
  /\ answer = None
  /\ calls = 0
  /\ moves = 0

Adapter ==
  \/ Refrain \/ CheckFrames \/ AuthorizeDestination \/ Decide \/ Satisfied \/ LookAgain
  \/ Begin \/ Finish \/ GiveUp \/ Land \/ Drained \/ Settled \/ Unsettled

Browser ==
  \/ PageNavigates \/ PageOpensChild \/ InputNavigates \/ PageRequests
  \/ \E f \in Frames : \/ Intercept(f) \/ LetThrough(f) \/ CannotWatch(f)
                       \/ Redirect(f) \/ Follow(f) \/ Commit(f)

Caller ==
  \/ \E op \in Operations, url \in Addresses \cup {None} :
       (op = "navigate" <=> url # None) /\ Ask(op, url)
  \/ \E value \in Deadlines \cup {None} : SetDeadline(value)

Next == Adapter \/ Browser \/ Caller \/ Hear \/ Tick

\* The adapter's own steps are taken, time passes, and what Chromium says is
\* heard; the page, the servers and the caller need never do anything.
Spec ==
  Init /\ [][Next]_vars
  /\ WF_vars(Adapter) /\ WF_vars(Hear) /\ WF_vars(Tick)

-----------------------------------------------------------------------------
Document == Addresses \cup {Blank, Data, StartUrl, None}

Navigations == [url : Document, by : {"call", "late", "page"},
                stage : {"asked", "cleared", "redirected", "sent"}]

Notices == [frame : Frames, adds : BOOLEAN]

Phases == {"idle", "ready", "running", "draining", "settling", "asleep"}

Calls == [op : Operations \cup {"none"}, url : Document, at : Nat, phase : Phases,
          frame : Frames, seen : SUBSET Frames, owed : Nat, round : Nat]

\* What the adapter and the browser hold has its type.
TypeOK ==
  /\ doc \in [Frames -> Document]
  /\ nav \in [Frames -> Navigations \cup {None}]
  /\ due \in BOOLEAN
  /\ boundary \in Document
  /\ events \in Seq(Notices)
  /\ loading \subseteq Frames
  /\ deadline \in Nat \cup {None}
  /\ call \in Calls
  /\ Busy => call.op \in Operations /\ call.at \in 1..Len(Program[call.op])
  /\ timer \in 0..ActionTimeout
  /\ calls \in 0..MaxCalls /\ moves \in 0..MaxMoves

\* Once an operation has answered, whichever way, every load Chromium had announced
\* by the time its input was answered, or its navigation begun, is over: a click that
\* answered shows what such a load led to, and one that failed leaves none of them to
\* arrive under the person who takes over (attempt, actOn).  What an input starts
\* only afterwards is not waited for; it is held to the boundary like any other load.
NothingStillArriving ==
  ~Busy => \A f \in Frames : nav[f] # None => nav[f].by # "call"

\* An input reaches only a document of a listed origin, wherever the page and
\* its frames have gone since the control was found (checkFrames, watchFrame).
InputsLandOnListedPages ==
  [][call.phase = "running" /\ call'.phase = "draining" =>
       Authorized(EffectiveUrl(call.frame))]_vars

Passed == {"cleared", "sent"}

\* The first refusal is final: it is never replaced, no attempt begins after it, no
\* request passes its check after it, and every later answer gives it as the reason
\* (boundaryFailure, context.route).  A request that had passed before, and waits
\* for its frame to be watched, may still go on, to the listed address it passed for.
RefusalIsFinal ==
  [][boundary # None =>
       /\ boundary' = boundary
       /\ call'.phase = "running" => call.phase = "running"
       /\ \A f \in Frames : nav'[f] # None /\ nav'[f].stage \in Passed =>
                              /\ nav[f] # None /\ nav[f].stage \in Passed
                              /\ nav'[f].url = nav[f].url /\ Authorized(nav[f].url)
       /\ answer' \in {answer, None} \/ answer'.says = "boundary"]_vars

\* Nothing answers well once the caller's deadline has passed (attempt).
NothingAnswersLate ==
  [][deadline = 0 /\ answer' # answer /\ answer' # None => answer'.says # "ok"]_vars

\* Every operation answers, whatever the page and the servers do.
EveryCallAnswers == Busy ~> ~Busy

=============================================================================
