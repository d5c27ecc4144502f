---------------------------- MODULE SurfaceProofs ----------------------------
(***************************************************************************)
(* What the surface promises, for every policy, page, address and bound.   *)
(*                                                                         *)
(* SInv is inductive.  Steady says what an attempt may rely on while it is *)
(* made: that what is decided at once is decided on what was just kept,    *)
(* and that between the check of the frames and the input no frame that    *)
(* was seen can have become another document.  Arriving says where the     *)
(* news of a navigation is while a call waits for it: still to be heard,   *)
(* among what was said before the input came back, or heard.               *)
(***************************************************************************)
EXTENDS Surface, TLAPS

-----------------------------------------------------------------------------
\* What the proofs need of the programs.

LEMMA ProgramsAreFinite ==
  ASSUME NEW op \in Operations
  PROVE  /\ Len(Program[op]) \in Nat \ {0}
         /\ Program[op][1] \in {"check", "authorize"}
<1>1. CASE op \in {"observe", "resolveTarget", "extract", "navigate"}
  BY <1>1 DEF Program
<1>2. CASE op \in {"click", "fill", "waitFor", "captureEvidence"}
  BY <1>2 DEF Program
<1> QED
  BY <1>1, <1>2 DEF Operations, Program

\* An input is the seventh attempt of a click or a fill, the frame chosen at the
\* fifth and every frame checked at the sixth.
LEMMA InputsAreSeventh ==
  ASSUME NEW op \in Operations, NEW i \in 1..Len(Program[op])
  PROVE  Program[op][i] = "input" => op \in {"click", "fill"} /\ i = 7
<1>1. CASE op = "observe"
  BY <1>1 DEF Program
<1>2. CASE op = "resolveTarget"
  BY <1>2 DEF Program
<1>3. CASE op = "extract"
  BY <1>3 DEF Program
<1>4. CASE op = "navigate"
  BY <1>4 DEF Program
<1>5. CASE op = "click"
  BY <1>5 DEF Program
<1>6. CASE op = "fill"
  BY <1>6 DEF Program
<1>7. CASE op = "waitFor"
  BY <1>7 DEF Program
<1>8. CASE op = "captureEvidence"
  BY <1>8 DEF Program
<1> QED
  BY <1>1, <1>2, <1>3, <1>4, <1>5, <1>6, <1>7, <1>8 DEF Operations, Program

LEMMA InputsAreChecked ==
  ASSUME NEW op \in {"click", "fill"}
  PROVE  Program[op][5] = "decide" /\ Program[op][6] = "check" /\ Program[op][7] = "input"
BY DEF Program

\* What a call is: the part of its type that does not depend on the document.
CallOK ==
  /\ call \in Calls
  /\ Busy => call.op \in Operations /\ call.at \in 1..Len(Program[call.op])

LEMMA Appending ==
  ASSUME NEW S, NEW s \in Seq(S), NEW e \in S
  PROVE  Append(s, e) \in Seq(S)
OBVIOUS

LEMMA AppendedLast ==
  ASSUME NEW S, NEW s \in Seq(S), NEW e \in S
  PROVE  /\ Len(s) \in Nat /\ Len(Append(s, e)) = Len(s) + 1
         /\ Append(s, e)[Len(s) + 1] = e
OBVIOUS

LEMMA Concatenating ==
  ASSUME NEW S, NEW s \in Seq(S), NEW t \in Seq(S)
  PROVE  s \o t \in Seq(S)
OBVIOUS

LEMMA Singles ==
  ASSUME NEW S, NEW a \in S, NEW b \in S
  PROVE  <<a>> \in Seq(S) /\ <<a, b>> \in Seq(S) /\ <<>> \in Seq(S)
OBVIOUS

LEMMA NoticesAreLoads ==
  ASSUME NEW f \in Frames, NEW adds \in BOOLEAN
  PROVE  Loads(f, adds) \in Notices
BY DEF Loads, Notices

LEMMA FramesAreTwo == Frames = {"main", "child"}
BY DEF Frames

LEMMA DocumentsAreFew ==
  /\ Blank \in Document /\ Data \in Document /\ StartUrl \in Document /\ None \in Document
  /\ Addresses \subseteq Document
BY DEF Document

LEMMA IdleIsACall == Idle \in Calls /\ Idle.phase = "idle"
BY DocumentsAreFew DEF Idle, Calls, Phases, Frames

LEMMA AdvanceIsTyped ==
  ASSUME TypeOK, Busy, Advance
  PROVE  CallOK' /\ timer' \in 0..ActionTimeout
<1>1. CASE call.at = Len(Program[call.op])
  BY <1>1, IdleIsACall, TimesAssumption DEF Advance, Reply, CallOK, Busy
<1>2. CASE call.at # Len(Program[call.op])
  <2>1. call.at + 1 \in 1..Len(Program[call.op])
    BY <1>2, ProgramsAreFinite DEF TypeOK
  <2> DEFINE seen == IF Doing = "aria" THEN {f \in Frames : doc[f] # None} ELSE call.seen
             next == [call EXCEPT !.at = call.at + 1, !.phase = "ready", !.owed = 0, !.seen = seen]
  <2>2. call \in Calls /\ call.op \in Operations
    BY DEF TypeOK
  <2>3. seen \in SUBSET Frames
    BY <2>2 DEF Calls
  <2>4. call.at + 1 \in Nat /\ "ready" \in Phases
    BY <2>2 DEF Calls, Phases
  <2> HIDE DEF seen
  <2>5. next \in Calls /\ next.op = call.op /\ next.at = call.at + 1
    BY <2>2, <2>3, <2>4 DEF Calls
  <2>6. call' = next
    BY <1>2 DEF Advance, seen
  <2>7. timer' = 0
    BY <1>2 DEF Advance
  <2> QED
    BY <2>1, <2>2, <2>5, <2>6, <2>7, TimesAssumption DEF CallOK, Busy
<1> QED
  BY <1>1, <1>2

LEMMA StopLoadingIsTyped ==
  ASSUME TypeOK, StopLoading
  PROVE  /\ nav' \in [Frames -> Navigations \cup {None}]
         /\ events' \in Seq(Notices)
<1>1. ASSUME NEW f \in Frames PROVE Stopped(f) \in Seq(Notices)
  <2>1. Loads(f, FALSE) \in Notices
    BY NoticesAreLoads
  <2> QED
    BY <2>1, Singles DEF Stopped
<1>2. Stopped("main") \in Seq(Notices) /\ Stopped("child") \in Seq(Notices)
  BY <1>1 DEF Frames
<1>3. events \in Seq(Notices)
  BY DEF TypeOK
<1>4. events \o Stopped("main") \o Stopped("child") \in Seq(Notices)
  BY <1>2, <1>3, Concatenating
<1> QED
  BY <1>4 DEF StopLoading

LEMMA FailIsTyped ==
  ASSUME TypeOK, NEW why, Fail(why)
  PROVE  /\ nav' \in [Frames -> Navigations \cup {None}]
         /\ events' \in Seq(Notices)
         /\ CallOK' /\ timer' \in 0..ActionTimeout
<1>1. CallOK' /\ timer' \in 0..ActionTimeout
  BY IdleIsACall, TimesAssumption DEF Fail, Reply, CallOK, Busy
<1> QED
  BY <1>1, StopLoadingIsTyped DEF Fail, TypeOK

LEMMA KeepIsTyped ==
  ASSUME TypeOK, Busy, Keep
  PROVE  /\ nav' \in [Frames -> Navigations \cup {None}]
         /\ events' \in Seq(Notices)
         /\ CallOK' /\ timer' \in 0..ActionTimeout
<1>1. CASE boundary # None \/ deadline = 0
  BY <1>1, FailIsTyped DEF Keep
<1>2. CASE ~(boundary # None \/ deadline = 0)
  BY <1>2, AdvanceIsTyped DEF Keep, TypeOK
<1> QED
  BY <1>1, <1>2

LEMMA AskForIsTyped ==
  ASSUME TypeOK, NEW f \in Frames, NEW url \in Document, NEW by \in {"call", "late", "page"},
         AskFor(f, url, by)
  PROVE  /\ nav' \in [Frames -> Navigations \cup {None}]
         /\ events' \in Seq(Notices)
<1>1. Navigation(url, by) \in Navigations
  BY DEF Navigation, Navigations
<1>2. nav' \in [Frames -> Navigations \cup {None}]
  BY <1>1 DEF AskFor, TypeOK
<1>3. events' \in Seq(Notices)
  BY NoticesAreLoads, Appending DEF AskFor, TypeOK
<1> QED
  BY <1>2, <1>3

LEMMA RefuseRequestIsTyped ==
  ASSUME TypeOK, NEW f \in Frames, nav[f] # None, RefuseRequest(f)
  PROVE  /\ nav' \in [Frames -> Navigations \cup {None}]
         /\ events' \in Seq(Notices)
         /\ boundary' \in Document
<1>1. nav[f].url \in Document
  BY DEF TypeOK, Navigations
<1>2. events' \in Seq(Notices)
  BY NoticesAreLoads, Appending DEF RefuseRequest, TypeOK
<1> QED
  BY <1>1, <1>2 DEF RefuseRequest, Refuse, TypeOK

LEMMA MovesOnIsTyped ==
  ASSUME TypeOK, NEW f \in Frames, nav[f] # None,
         NEW stage \in {"asked", "cleared", "redirected", "sent"}, MovesOn(f, stage)
  PROVE  /\ nav' \in [Frames -> Navigations \cup {None}]
         /\ events' \in Seq(Notices)
         /\ boundary' \in Document
<1>1. nav[f] \in Navigations
  BY DEF TypeOK
<1>2. [nav[f] EXCEPT !.stage = stage] \in Navigations
  BY <1>1 DEF Navigations
<1> QED
  BY <1>2 DEF MovesOn, TypeOK

\* A call that only loses frames, notices or its frame's control is the call it was.
SameCall ==
  /\ call' \in Calls
  /\ call'.op = call.op /\ call'.at = call.at /\ call'.phase = call.phase

LEMMA SameCallIsTyped ==
  ASSUME TypeOK, SameCall
  PROVE  CallOK'
BY DEF TypeOK, SameCall, CallOK, Busy

LEMMA TypeFromParts ==
  ASSUME TypeOK, CallOK',
         doc' \in [Frames -> Document],
         nav' \in [Frames -> Navigations \cup {None}],
         due' \in BOOLEAN,
         boundary' \in Document,
         events' \in Seq(Notices),
         loading' \subseteq Frames,
         deadline' \in Nat \cup {None},
         timer' \in 0..ActionTimeout,
         calls' \in 0..MaxCalls, moves' \in 0..MaxMoves
  PROVE  TypeOK'
BY DEF TypeOK, CallOK

\* The steps of the browser.
LEMMA TypeBrowser ==
  ASSUME TypeOK, Browser
  PROVE  TypeOK'
<1>0. Moves => moves' \in 0..MaxMoves /\ due' \in BOOLEAN
  BY BoundsAssumption DEF TypeOK, Moves
<1>1. ASSUME PageNavigates PROVE TypeOK'
  <2>1. PICK f \in Frames, url \in Addresses : AskFor(f, url, "page")
    BY <1>1 DEF PageNavigates
  <2>2. /\ nav' \in [Frames -> Navigations \cup {None}]
        /\ events' \in Seq(Notices)
    BY <2>1, DocumentsAreFew, AskForIsTyped
  <2> QED
    BY <1>0, <1>1, <2>2 DEF PageNavigates, TypeOK, Busy
<1>2. ASSUME PageOpensChild PROVE TypeOK'
  <2>1. SameCall
    BY <1>2 DEF PageOpensChild, Calls, SameCall, TypeOK
  <2>2. doc' \in [Frames -> Document] /\ nav' \in [Frames -> Navigations \cup {None}]
    BY <1>2, DocumentsAreFew DEF PageOpensChild, TypeOK
  <2>3. "child" \in Frames
    BY DEF Frames
  <2>4. events' \in Seq(Notices)
    BY <1>2, <2>3, NoticesAreLoads, Appending DEF PageOpensChild, TypeOK
  <2> QED
    BY <1>0, <1>2, <2>1, <2>2, <2>4, SameCallIsTyped, TypeFromParts DEF PageOpensChild, TypeOK
<1>3. ASSUME PageRequests PROVE TypeOK'
  BY <1>0, <1>3, DocumentsAreFew DEF PageRequests, Refuse, TypeOK, Busy
<1>4. ASSUME NEW f \in Frames, Intercept(f) \/ LetThrough(f) \/ Follow(f) PROVE TypeOK'
  <2>1. nav[f] # None
    BY <1>4 DEF Intercept, LetThrough, Follow, At
  <2>2. RefuseRequest(f) \/ \E stage \in {"cleared", "sent"} : MovesOn(f, stage)
    BY <1>4 DEF Intercept, LetThrough, Follow
  <2>3. /\ nav' \in [Frames -> Navigations \cup {None}]
        /\ events' \in Seq(Notices)
        /\ boundary' \in Document
    BY <2>1, <2>2, RefuseRequestIsTyped, MovesOnIsTyped
  <2>4. UNCHANGED <<doc, due, loading, deadline, call, timer, answer, calls, moves>>
    BY <1>4 DEF Intercept, LetThrough, Follow
  <2> QED
    BY <2>3, <2>4 DEF TypeOK, Busy
<1>5. ASSUME NEW f \in Frames, CannotWatch(f) PROVE TypeOK'
  <2>1. /\ nav' \in [Frames -> Navigations \cup {None}]
        /\ events' \in Seq(Notices)
        /\ boundary' \in Document
    BY <1>5, RefuseRequestIsTyped DEF CannotWatch, At
  <2> QED
    BY <1>0, <1>5, <2>1 DEF CannotWatch, TypeOK, Busy
<1>6. ASSUME NEW f \in Frames, Redirect(f) PROVE TypeOK'
  <2>1. PICK url \in Addresses : nav' = [nav EXCEPT ![f].url = url, ![f].stage = "redirected"]
    BY <1>6 DEF Redirect
  <2>2. nav[f] \in Navigations /\ url \in Document
    BY <1>6, DocumentsAreFew DEF Redirect, At, TypeOK
  <2>3. [[nav[f] EXCEPT !.url = url] EXCEPT !.stage = "redirected"] \in Navigations
    BY <2>2 DEF Navigations
  <2>4. nav' \in [Frames -> Navigations \cup {None}]
    BY <2>1, <2>3 DEF TypeOK
  <2> QED
    BY <1>0, <1>6, <2>4 DEF Redirect, TypeOK, Busy
<1>7. ASSUME NEW f \in Frames, Commit(f) PROVE TypeOK'
  <2>1. events' \in Seq(Notices)
    <3>1. "main" \in Frames /\ "child" \in Frames /\ events \in Seq(Notices)
      BY DEF Frames, TypeOK
    <3>2. Loads("main", FALSE) \in Notices /\ Loads("child", FALSE) \in Notices
      BY <3>1, NoticesAreLoads
    <3>3. /\ <<Loads("main", FALSE), Loads("child", FALSE)>> \in Seq(Notices)
          /\ <<Loads("child", FALSE)>> \in Seq(Notices)
      BY <3>2, Singles
    <3> QED
      BY <1>7, <3>1, <3>3, Concatenating DEF Commit
  <2>2. nav[f].url \in Document
    BY <1>7 DEF Commit, At, Navigations, TypeOK
  <2>3. doc' \in [Frames -> Document]
    BY <1>7, <2>2, DocumentsAreFew DEF Commit, TypeOK
  <2>4. nav' \in [Frames -> Navigations \cup {None}]
    BY <1>7 DEF Commit, TypeOK
  <2>5. SameCall
    BY <1>7 DEF Commit, Calls, SameCall, TypeOK
  <2> QED
    BY <1>7, <2>1, <2>3, <2>4, <2>5, SameCallIsTyped, TypeFromParts DEF Commit, TypeOK
<1>8. ASSUME InputNavigates PROVE TypeOK'
  <2>1. PICK f \in Frames, url \in Addresses : AskFor(f, url, "late")
    BY <1>8 DEF InputNavigates
  <2>2. /\ nav' \in [Frames -> Navigations \cup {None}]
        /\ events' \in Seq(Notices)
    BY <2>1, DocumentsAreFew, AskForIsTyped
  <2> QED
    BY <1>8, <2>2 DEF InputNavigates, TypeOK, Busy
<1> QED
  BY <1>1, <1>2, <1>3, <1>4, <1>5, <1>6, <1>7, <1>8 DEF Browser

-----------------------------------------------------------------------------
\* The steps of the adapter, the caller, the clock, and of what is heard.

LEMMA OwedIsTyped ==
  ASSUME TypeOK
  PROVE  (IF call.owed > 0 THEN call.owed - 1 ELSE 0) \in Nat
<1>1. call.owed \in Nat
  BY DEF TypeOK, Calls
<1> QED
  BY <1>1

LEMMA TypeHear ==
  ASSUME TypeOK, Hear
  PROVE  TypeOK'
<1>1. events \in Seq(Notices) /\ events # <<>>
  BY DEF TypeOK, Hear
<1>2. Tail(events) \in Seq(Notices) /\ Head(events) \in Notices
  BY <1>1
<1>3. Head(events).frame \in Frames
  BY <1>2 DEF Notices
<1>4. loading' \subseteq Frames
  BY <1>3 DEF Hear, TypeOK
<1>5. SameCall
  BY OwedIsTyped DEF Hear, Calls, SameCall, TypeOK
<1> QED
  BY <1>2, <1>4, <1>5, SameCallIsTyped, TypeFromParts DEF Hear, TypeOK

LEMMA TypeTick ==
  ASSUME TypeOK, Tick
  PROVE  TypeOK'
<1>1. timer' \in 0..ActionTimeout
  BY TimesAssumption DEF Tick, TypeOK
<1>2. deadline' \in Nat \cup {None}
  BY DEF Tick, TypeOK
<1> QED
  BY <1>1, <1>2 DEF Tick, TypeOK, Busy

LEMMA AskedIsTyped ==
  ASSUME NEW op \in Operations, NEW url \in Document,
         call' = [Idle EXCEPT !.op = op, !.url = url, !.at = 1, !.phase = "ready"]
  PROVE  CallOK'
<1>1. 1 \in 1..Len(Program[op])
  BY ProgramsAreFinite
<1>2. Idle \in Calls /\ "ready" \in Phases
  BY IdleIsACall DEF Phases
<1>3. call' \in Calls /\ call'.op = op /\ call'.at = 1
  BY <1>2 DEF Calls
<1> QED
  BY <1>1, <1>3 DEF CallOK

LEMMA TypeCaller ==
  ASSUME TypeOK, Caller
  PROVE  TypeOK'
<1>1. ASSUME NEW op \in Operations, NEW url \in Addresses \cup {None}, Ask(op, url)
      PROVE  TypeOK'
  <2>1. url \in Document
    BY DEF Document
  <2>2. CallOK'
    BY <1>1, <2>1, AskedIsTyped DEF Ask
  <2>3. calls' \in 0..MaxCalls
    BY <1>1, BoundsAssumption DEF Ask, TypeOK
  <2> QED
    BY <1>1, <2>2, <2>3, TypeFromParts DEF Ask, browser, TypeOK
<1>2. ASSUME NEW value \in Deadlines \cup {None}, SetDeadline(value)
      PROVE  TypeOK'
  <2>1. value \in Nat \cup {None}
    BY TimesAssumption
  <2> QED
    BY <1>2, <2>1 DEF SetDeadline, TypeOK, browser, Busy
<1> QED
  BY <1>1, <1>2 DEF Caller

\* What an attempt changes besides the call.
Around ==
  /\ doc' \in [Frames -> Document]
  /\ nav' \in [Frames -> Navigations \cup {None}]
  /\ due' \in BOOLEAN
  /\ events' \in Seq(Notices)
  /\ boundary' \in Document
  /\ UNCHANGED <<loading, deadline, calls, moves>>

LEMMA TypeAround ==
  ASSUME TypeOK, Around, CallOK', timer' \in 0..ActionTimeout
  PROVE  TypeOK'
BY TypeFromParts DEF Around, TypeOK

LEMMA ReplyIsTyped ==
  ASSUME TypeOK, NEW says, Reply(says)
  PROVE  CallOK' /\ timer' \in 0..ActionTimeout
BY IdleIsACall, TimesAssumption DEF Reply, CallOK, Busy

LEMMA ReadyIsBusy ==
  ASSUME call.phase \in {"ready", "running", "draining", "settling", "asleep"}
  PROVE  Busy
BY DEF Busy

\* The attempt goes on: the operation is the same, and it is where it was, further
\* on, or back at the beginning.
LEMMA StaysThere ==
  ASSUME TypeOK, Busy, call' \in Calls, call'.op = call.op, call'.at = call.at
  PROVE  CallOK'
BY DEF TypeOK, CallOK

LEMMA GoesOn ==
  ASSUME TypeOK, Busy, call' \in Calls, call'.op = call.op, call'.at = call.at + 1,
         call.at < Len(Program[call.op])
  PROVE  CallOK'
<1>1. call.op \in Operations /\ call.at \in 1..Len(Program[call.op])
  BY DEF TypeOK
<1>2. Len(Program[call.op]) \in Nat \ {0}
  BY <1>1, ProgramsAreFinite
<1>3. call'.at \in 1..Len(Program[call.op])
  BY <1>1, <1>2
<1> QED
  BY <1>1, <1>3 DEF CallOK

LEMMA GoesBack ==
  ASSUME TypeOK, Busy, call' \in Calls, call'.op = call.op, call'.at = 1
  PROVE  CallOK'
<1>1. call.op \in Operations
  BY DEF TypeOK
<1>2. 1 \in 1..Len(Program[call.op])
  BY <1>1, ProgramsAreFinite
<1> QED
  BY <1>1, <1>2 DEF CallOK

LEMMA TypeAdapterStarts ==
  ASSUME TypeOK, Refrain \/ CheckFrames \/ AuthorizeDestination \/ Decide
  PROVE  TypeOK'
<1>1. ASSUME Refrain PROVE TypeOK'
  <2>1. CASE boundary # None
    BY <1>1, <2>1, ReplyIsTyped, TypeAround DEF Refrain, Around, TypeOK
  <2>2. CASE boundary = None
    BY <1>1, <2>2, FailIsTyped, TypeAround DEF Refrain, Around, TypeOK
  <2> QED
    BY <2>1, <2>2
<1>2. ASSUME CheckFrames PROVE TypeOK'
  <2>1. CASE Refused = {}
    BY <1>2, <2>1, AdvanceIsTyped, ReadyIsBusy, TypeAround
       DEF CheckFrames, MayBegin, Around, TypeOK, browser
  <2>2. CASE Refused # {}
    <3>1. doc[IF "main" \in Refused THEN "main" ELSE "child"] \in Document
      BY DEF TypeOK, Frames
    <3>2. boundary' \in Document
      BY <1>2, <2>2, <3>1 DEF CheckFrames, Refuse, TypeOK
    <3> QED
      BY <1>2, <2>2, <3>2, ReplyIsTyped, TypeAround
         DEF CheckFrames, Around, TypeOK, browser
  <2> QED
    BY <2>1, <2>2
<1>3. ASSUME AuthorizeDestination PROVE TypeOK'
  <2>1. CASE Authorized(call.url)
    BY <1>3, <2>1, AdvanceIsTyped, ReadyIsBusy, TypeAround
       DEF AuthorizeDestination, MayBegin, Around, TypeOK, browser
  <2>2. CASE ~Authorized(call.url)
    <3>1. call.url \in Document
      BY DEF TypeOK, Calls
    <3>2. boundary' \in Document
      BY <1>3, <2>2, <3>1 DEF AuthorizeDestination, Refuse, TypeOK
    <3> QED
      BY <1>3, <2>2, <3>2, ReplyIsTyped, TypeAround
         DEF AuthorizeDestination, Around, TypeOK, browser
  <2> QED
    BY <2>1, <2>2
<1>4. ASSUME Decide PROVE TypeOK'
  <2>1. Busy
    BY <1>4, ReadyIsBusy DEF Decide
  <2>2. CASE \E says \in {"target", "ok"} : Reply(says)
    BY <1>4, <2>2, ReplyIsTyped, TypeAround DEF Decide, Around, TypeOK, browser
  <2>3. CASE /\ call.at < Len(Program[call.op])
             /\ \E f \in call.seen : call' = [call EXCEPT !.at = @ + 1, !.frame = f]
             /\ UNCHANGED <<timer, answer>>
    <3>1. PICK f \in call.seen : call' = [call EXCEPT !.at = call.at + 1, !.frame = f]
      BY <2>3
    <3>2. call \in Calls /\ f \in Frames /\ call.at + 1 \in Nat
      BY DEF TypeOK, Calls
    <3>3. call' \in Calls /\ call'.op = call.op /\ call'.at = call.at + 1
      BY <3>1, <3>2 DEF Calls
    <3>4. CallOK'
      BY <2>1, <2>3, <3>3, GoesOn
    <3> QED
      BY <1>4, <2>3, <3>4, TypeAround DEF Decide, Around, TypeOK, browser
  <2> QED
    BY <1>4, <2>2, <2>3 DEF Decide
<1> QED
  BY <1>1, <1>2, <1>3, <1>4

LEMMA TypeAdapterWaits ==
  ASSUME TypeOK, Satisfied \/ LookAgain \/ Begin \/ Land \/ Drained
  PROVE  TypeOK'
<1>1. ASSUME Satisfied PROVE TypeOK'
  <2>1. Busy
    BY <1>1, ReadyIsBusy DEF Satisfied
  <2>2. CASE \E says \in {"ok", "unmet", "boundary", "deadline"} : Reply(says)
    BY <1>1, <2>2, ReplyIsTyped, TypeAround DEF Satisfied, Around, TypeOK, browser
  <2>3. CASE /\ call' = [call EXCEPT !.phase = "asleep", !.round = @ + 1]
             /\ timer' = 1
             /\ UNCHANGED answer
    <3>1. call \in Calls /\ call.round + 1 \in Nat /\ "asleep" \in Phases
      BY DEF TypeOK, Calls, Phases
    <3>2. call' \in Calls /\ call'.op = call.op /\ call'.at = call.at
      BY <2>3, <3>1 DEF Calls
    <3>3. CallOK'
      BY <2>1, <3>2, StaysThere
    <3>4. timer' \in 0..ActionTimeout
      BY <2>3, TimesAssumption
    <3> QED
      BY <1>1, <3>3, <3>4, TypeAround DEF Satisfied, Around, TypeOK, browser
  <2> QED
    BY <1>1, <2>2, <2>3 DEF Satisfied
<1>2. ASSUME LookAgain PROVE TypeOK'
  <2>1. call \in Calls /\ "ready" \in Phases
    BY DEF TypeOK, Phases
  <2>2. call' \in Calls /\ call'.op = call.op /\ call'.at = 1
    BY <1>2, <2>1 DEF LookAgain, Calls
  <2>3. CallOK'
    <3>1. Busy
      BY <1>2, ReadyIsBusy DEF LookAgain
    <3> QED
      BY <2>2, <3>1, GoesBack
  <2> QED
    BY <1>2, <2>3, TypeAround DEF LookAgain, Around, TypeOK, browser
<1>3. ASSUME Begin PROVE TypeOK'
  <2>1. call \in Calls /\ "running" \in Phases /\ call.url \in Document
    BY DEF TypeOK, Calls, Phases
  <2>2. call' \in Calls /\ call'.op = call.op /\ call'.at = call.at
    BY <1>3, <2>1 DEF Begin, Calls
  <2>3. CallOK'
    <3>1. Busy
      BY <1>3, ReadyIsBusy DEF Begin, MayBegin
    <3> QED
      BY <2>2, <3>1, StaysThere
  <2>4. timer' \in 0..ActionTimeout
    BY <1>3, TimesAssumption DEF Begin, TypeOK
  <2>5. nav' \in [Frames -> Navigations \cup {None}] /\ events' \in Seq(Notices)
    <3>1. CASE Doing = "goto"
      <4>1. AskFor("main", call.url, "call")
        BY <1>3, <3>1 DEF Begin
      <4>2. "main" \in Frames /\ "call" \in {"call", "late", "page"}
        BY DEF Frames
      <4> QED
        BY <2>1, <4>1, <4>2, AskForIsTyped
    <3>2. CASE Doing # "goto"
      BY <1>3, <3>2 DEF Begin, TypeOK
    <3> QED
      BY <3>1, <3>2
  <2> QED
    BY <1>3, <2>3, <2>4, <2>5, TypeAround DEF Begin, Around, TypeOK
<1>4. ASSUME Land PROVE TypeOK'
  <2>1. nav' \in [Frames -> Navigations \cup {None}] /\ events' \in Seq(Notices)
    <3>1. CASE \E f \in {g \in Frames : doc[g] # None}, url \in Addresses : AskFor(f, url, "call")
      <4>1. PICK f \in Frames, url \in Addresses : AskFor(f, url, "call")
        BY <3>1
      <4> QED
        BY <4>1, DocumentsAreFew, AskForIsTyped
    <3>2. CASE UNCHANGED <<nav, events>>
      BY <3>2 DEF TypeOK
    <3> QED
      BY <1>4, <3>1, <3>2 DEF Land
  <2>2. call \in Calls /\ Len(events') \in Nat /\ "draining" \in Phases
    BY <2>1 DEF TypeOK, Phases
  <2>3. call' \in Calls /\ call'.op = call.op /\ call'.at = call.at
    BY <1>4, <2>2 DEF Land, Calls
  <2>4. CallOK'
    <3>1. Busy
      BY <1>4, ReadyIsBusy DEF Land
    <3> QED
      BY <2>3, <3>1, StaysThere
  <2>5. due' \in BOOLEAN
    BY <1>4 DEF Land, TypeOK
  <2> QED
    BY <1>4, <2>1, <2>4, <2>5, TypeAround DEF Land, Around, TypeOK
<1>5. ASSUME Drained PROVE TypeOK'
  <2>1. call \in Calls /\ "settling" \in Phases
    BY DEF TypeOK, Phases
  <2>2. call' \in Calls /\ call'.op = call.op /\ call'.at = call.at
    BY <1>5, <2>1 DEF Drained, Calls
  <2>3. CallOK'
    <3>1. Busy
      BY <1>5, ReadyIsBusy DEF Drained
    <3> QED
      BY <2>2, <3>1, StaysThere
  <2> QED
    BY <1>5, <2>3, TypeAround DEF Drained, Around, TypeOK, browser
<1> QED
  BY <1>1, <1>2, <1>3, <1>4, <1>5

LEMMA TypeAdapterEnds ==
  ASSUME TypeOK, Finish \/ GiveUp \/ Settled \/ Unsettled
  PROVE  TypeOK'
<1>1. ASSUME Finish PROVE TypeOK'
  BY <1>1, KeepIsTyped, ReadyIsBusy, TypeAround DEF Finish, Around, TypeOK
<1>2. ASSUME GiveUp PROVE TypeOK'
  BY <1>2, FailIsTyped, TypeAround DEF GiveUp, Around, TypeOK
<1>3. ASSUME Settled PROVE TypeOK'
  BY <1>3, KeepIsTyped, ReadyIsBusy, TypeAround DEF Settled, Around, TypeOK
<1>4. ASSUME Unsettled PROVE TypeOK'
  BY <1>4, FailIsTyped, TypeAround DEF Unsettled, Around, TypeOK
<1> QED
  BY <1>1, <1>2, <1>3, <1>4

LEMMA TypeInit ==
  ASSUME Init
  PROVE  TypeOK
<1>1. CallOK
  <2>1. CASE StartUrl = None
    BY <2>1, IdleIsACall DEF Init, CallOK, Busy
  <2>2. CASE StartUrl # None
    <3>1. "navigate" \in Operations /\ StartUrl \in Document
      BY DocumentsAreFew DEF Operations, Program
    <3>2. 1 \in 1..Len(Program["navigate"]) /\ Idle \in Calls /\ "ready" \in Phases
      BY <3>1, ProgramsAreFinite, IdleIsACall DEF Phases
    <3>3. call = [Idle EXCEPT !.op = "navigate", !.url = StartUrl, !.at = 1, !.phase = "ready"]
      BY <2>2 DEF Init
    <3>4. call \in Calls /\ call.op = "navigate" /\ call.at = 1
      BY <3>1, <3>2, <3>3 DEF Calls
    <3> QED
      BY <3>1, <3>2, <3>4 DEF CallOK
  <2> QED
    BY <2>1, <2>2
<1>2. doc \in [Frames -> Document]
  BY DocumentsAreFew DEF Init, Frames
<1>3. /\ nav \in [Frames -> Navigations \cup {None}]
      /\ events \in Seq(Notices)
      /\ boundary \in Document
      /\ loading \subseteq Frames
      /\ deadline \in Nat \cup {None}
  BY DocumentsAreFew DEF Init
<1>4. timer \in 0..ActionTimeout /\ calls \in 0..MaxCalls /\ moves \in 0..MaxMoves
  BY TimesAssumption, BoundsAssumption DEF Init
<1>5. due \in BOOLEAN
  BY DEF Init
<1> QED
  BY <1>1, <1>2, <1>3, <1>4, <1>5 DEF TypeOK, CallOK

LEMMA TypeStep ==
  ASSUME TypeOK, [Next]_vars
  PROVE  TypeOK'
<1>1. CASE Next
  BY <1>1, TypeBrowser, TypeHear, TypeTick, TypeCaller, TypeAdapterStarts, TypeAdapterWaits,
     TypeAdapterEnds DEF Next, Adapter
<1>2. CASE UNCHANGED vars
  BY <1>2 DEF vars, TypeOK, Busy
<1> QED
  BY <1>1, <1>2

\* What the adapter, the browser and the caller's operation hold has its type,
\* whatever addresses, deadlines and bounds there are.
THEOREM SurfaceTypeCorrect == Spec => []TypeOK
<1>1. Init => TypeOK
  BY TypeInit
<1>2. TypeOK /\ [Next]_vars => TypeOK'
  BY TypeStep
<1> QED
  BY <1>1, <1>2, PTL DEF Spec

-----------------------------------------------------------------------------
\* The invariant.

\* What is being done fits how far it is.
Stage ==
  /\ call.phase = "running" => Doing \in Native
  /\ call.phase \in {"draining", "settling"} => Doing = "input"

\* What is decided at once is decided on what was just kept.
Fresh ==
  call.phase = "ready" /\ Doing \in {"decide", "satisfied"} => boundary = None /\ deadline # 0

\* A frame that was seen is still there.
Seen == \A f \in call.seen : doc[f] # None

Inputs == call.op \in {"click", "fill"}

\* The frame that was chosen is not a blank page.
Chosen ==
  Inputs /\ call.at \in {6, 7} /\ call.frame \in call.seen =>
    ~(call.frame = "main" /\ doc["main"] = Blank)

Listed(f) == Authorized(EffectiveUrl(f)) \/ (f = "main" /\ doc["main"] = Blank)

\* Between the check and the input, what was seen is listed.
Checked ==
  Inputs /\ call.at = 7 /\ call.phase \in {"ready", "running"} => \A f \in call.seen : Listed(f)

ByCall(f) == nav[f] # None /\ nav[f].by = "call"

\* The adapter has heard that the frame is loading, and nothing since.
Heard(f) == f \in loading /\ \A j \in 1..Len(events) : events[j].frame # f

\* The adapter is about to hear that the frame is loading, and nothing since.
Ahead(f) ==
  \E i \in 1..Len(events) :
    /\ i <= call.owed
    /\ events[i] = Loads(f, TRUE)
    /\ \A j \in 1..Len(events) : j > i => events[j].frame # f

\* What a call began is under way only while the call is where it waits for it.
Arriving ==
  \A f \in Frames : ByCall(f) =>
    \/ call.phase = "running" /\ Doing = "goto" /\ f = "main"
    \/ call.phase = "draining" /\ (Ahead(f) \/ Heard(f))
    \/ call.phase = "settling" /\ Heard(f)

Steady == Stage /\ Fresh /\ Seen /\ Chosen /\ Checked

\* A request that has passed its check is to a listed address.
Vetted == \A f \in Frames : nav[f] # None /\ nav[f].stage \in Passed => Authorized(nav[f].url)

SInv == TypeOK /\ Steady /\ Vetted /\ Arriving

-----------------------------------------------------------------------------
\* The steps that leave the call where it is.

SamePlace == call'.op = call.op /\ call'.at = call.at /\ call'.phase = call.phase

\* Frames may be lost from what was seen; what is left of it is as it was.
SeenIsAsItWas ==
  /\ call'.frame = call.frame
  /\ call'.seen \subseteq call.seen
  /\ \A f \in call'.seen : doc'[f] = doc[f] /\ EffectiveUrl(f)' = EffectiveUrl(f)

LEMMA SteadyWhenYielded ==
  ASSUME TypeOK, Steady, SamePlace, SeenIsAsItWas, Yielded
  PROVE  Steady'
<1>1. Doing' = Doing
  BY DEF SamePlace, Doing
<1>2. Stage' /\ Fresh'
  BY <1>1 DEF Steady, Stage, Fresh, SamePlace, Yielded
<1>3. Seen'
  BY DEF Steady, Seen, SeenIsAsItWas
<1>4. Chosen'
  BY DEF Steady, Chosen, Inputs, SamePlace, SeenIsAsItWas
<1>5. Checked'
  <2>1. ASSUME NEW f \in call'.seen, Listed(f) PROVE Listed(f)'
    BY <2>1 DEF Listed, SeenIsAsItWas, Authorized
  <2> QED
    BY <2>1 DEF Steady, Checked, Inputs, SamePlace, SeenIsAsItWas
<1> QED
  BY <1>2, <1>3, <1>4, <1>5 DEF Steady

LEMMA DocUnchanged ==
  ASSUME doc' = doc, call' = call
  PROVE  SamePlace /\ SeenIsAsItWas
BY DEF SamePlace, SeenIsAsItWas, EffectiveUrl

LEMMA SteadyBrowser ==
  ASSUME TypeOK, Steady, Browser
  PROVE  Steady'
<1>1. CASE PageNavigates
  BY <1>1, DocUnchanged, SteadyWhenYielded DEF PageNavigates, Moves
<1>2. CASE PageOpensChild
  <2>1. call \in Calls /\ doc \in [Frames -> Document]
    BY DEF TypeOK
  <2>2. SamePlace /\ call'.seen = call.seen \ {"child"} /\ call'.frame = call.frame
    BY <1>2, <2>1 DEF PageOpensChild, SamePlace, Calls
  <2>3. doc'["main"] = doc["main"] /\ call.seen \subseteq Frames
    BY <1>2, <2>1 DEF PageOpensChild, Frames, Calls
  <2>4. SeenIsAsItWas
    BY <2>2, <2>3 DEF SeenIsAsItWas, EffectiveUrl, Frames
  <2> QED
    BY <1>2, <2>2, <2>4, SteadyWhenYielded DEF PageOpensChild, Moves
<1>3. CASE PageRequests
  BY <1>3, DocUnchanged, SteadyWhenYielded DEF PageRequests, Moves
<1>4. ASSUME NEW f \in Frames, Intercept(f) \/ LetThrough(f) \/ Follow(f) PROVE Steady'
  BY <1>4, DocUnchanged, SteadyWhenYielded DEF Intercept, LetThrough, Follow
<1>5. ASSUME NEW f \in Frames, CannotWatch(f) PROVE Steady'
  BY <1>5, DocUnchanged, SteadyWhenYielded DEF CannotWatch, Moves
<1>6. ASSUME NEW f \in Frames, Redirect(f) PROVE Steady'
  BY <1>6, DocUnchanged, SteadyWhenYielded DEF Redirect, Moves
<1>7. ASSUME NEW f \in Frames, Commit(f) PROVE Steady'
  <2>1. call \in Calls /\ doc \in [Frames -> Document]
    BY DEF TypeOK
  <2>2. /\ SamePlace /\ call'.frame = call.frame
        /\ call'.seen = call.seen \ (IF f = "main" THEN Frames ELSE {f})
    BY <1>7, <2>1 DEF Commit, SamePlace, Calls
  <2>3. call.seen \subseteq Frames
    BY <2>1 DEF Calls
  <2>4. CASE f = "main"
    BY <2>2, <2>3, <2>4, <1>7, SteadyWhenYielded DEF SeenIsAsItWas, Commit
  <2>5. CASE f = "child"
    <3>1. doc'["main"] = doc["main"]
      BY <1>7, <2>5 DEF Commit, Frames
    <3>2. SeenIsAsItWas
      BY <2>2, <2>3, <2>5, <3>1 DEF SeenIsAsItWas, EffectiveUrl, Frames
    <3> QED
      BY <1>7, <2>2, <3>2, SteadyWhenYielded DEF Commit
  <2> QED
    BY <2>4, <2>5 DEF Frames
<1>8. CASE InputNavigates
  BY <1>8, DocUnchanged, SteadyWhenYielded DEF InputNavigates
<1> QED
  BY <1>1, <1>2, <1>3, <1>4, <1>5, <1>6, <1>7, <1>8 DEF Browser

LEMMA SteadyHearTick ==
  ASSUME TypeOK, Steady, Hear \/ Tick
  PROVE  Steady'
<1>1. CASE Hear
  <2>1. call \in Calls
    BY DEF TypeOK
  <2>2. SamePlace /\ call'.seen = call.seen /\ call'.frame = call.frame
    BY <1>1, <2>1 DEF Hear, SamePlace, Calls
  <2>3. SeenIsAsItWas
    BY <1>1, <2>2 DEF Hear, SeenIsAsItWas, EffectiveUrl
  <2> QED
    BY <1>1, <2>2, <2>3, SteadyWhenYielded DEF Hear
<1>2. CASE Tick
  BY <1>2, DocUnchanged, SteadyWhenYielded DEF Tick
<1> QED
  BY <1>1, <1>2

-----------------------------------------------------------------------------
\* The steps that move the call on.

\* The first attempt of every operation is a check.
LEMMA BegunIsSteady ==
  ASSUME call'.phase \in {"idle", "ready"}, call'.seen = {},
         call'.phase = "ready" => Doing' \in {"check", "authorize"},
         call'.at \in {0, 1}
  PROVE  Steady'
BY DEF Steady, Stage, Fresh, Seen, Chosen, Checked, Inputs

LEMMA RepliedIsSteady ==
  ASSUME call' = Idle
  PROVE  Steady'
BY BegunIsSteady DEF Idle

\* What the next attempt begins with, when this one was kept.
LEMMA AdvanceIsSteady ==
  ASSUME TypeOK, Steady, Busy, Advance,
         Doing # "decide", Doing = "check" => Refused = {},
         boundary = None, deadline # 0, boundary' = boundary, deadline' = deadline, doc' = doc
  PROVE  Steady'
<1>1. CASE call.at = Len(Program[call.op])
  BY <1>1, RepliedIsSteady DEF Advance, Reply
<1>2. CASE call.at # Len(Program[call.op])
  <2> DEFINE seen == IF Doing = "aria" THEN {f \in Frames : doc[f] # None} ELSE call.seen
  <2>1. call \in Calls
    BY DEF TypeOK
  <2>2. /\ call'.op = call.op /\ call'.at = call.at + 1 /\ call'.phase = "ready"
        /\ call'.frame = call.frame /\ call'.seen = seen
    BY <1>2, <2>1 DEF Advance, Calls
  <2>3. Stage' /\ Fresh'
    BY <2>2 DEF Stage, Fresh
  <2>4. Seen'
    BY <2>2 DEF Seen, Steady
  <2>5. ASSUME Inputs', call'.at \in {6, 7} PROVE call.at = 6 /\ Doing = "check" /\ Inputs
    <3>1. call.at \in Nat
      BY <2>1 DEF Calls
    <3>2. Inputs /\ call.at \in {5, 6}
      BY <2>2, <2>5, <3>1 DEF Inputs
    <3> QED
      BY <3>2, InputsAreChecked DEF Inputs, Doing
  <2>6. Chosen'
    <3>1. SUFFICES ASSUME Inputs', call'.at \in {6, 7}, call'.frame \in call'.seen
                   PROVE  ~(call'.frame = "main" /\ doc'["main"] = Blank)
      BY DEF Chosen
    <3>2. Inputs /\ call.at = 6 /\ Doing = "check"
      BY <3>1, <2>5
    <3>3. call.frame \in call.seen
      BY <2>2, <3>1, <3>2
    <3> QED
      BY <2>2, <3>2, <3>3 DEF Steady, Chosen
  <2>7. Checked'
    <3>1. SUFFICES ASSUME Inputs', call'.at = 7, NEW f \in call'.seen
                   PROVE  Listed(f)'
      BY DEF Checked
    <3>2. Doing = "check"
      BY <3>1, <2>5
    <3>3. f \in call.seen /\ Refused = {}
      BY <2>2, <3>1, <3>2
    <3>4. f \in Frames /\ doc[f] # None
      BY <2>1, <3>3 DEF Calls, Steady, Seen
    <3>5. Listed(f)
      BY <3>3, <3>4 DEF Refused, Listed
    <3> QED
      BY <3>5 DEF Listed, Authorized, EffectiveUrl
  <2> QED
    BY <2>3, <2>4, <2>6, <2>7 DEF Steady
<1> QED
  BY <1>1, <1>2

LEMMA KeepIsSteady ==
  ASSUME TypeOK, Steady, Busy, Keep, Doing \notin {"decide", "check"},
         boundary' = boundary, deadline' = deadline, doc' = doc
  PROVE  Steady'
<1>1. CASE boundary # None \/ deadline = 0
  BY <1>1, RepliedIsSteady DEF Keep, Fail, Reply
<1>2. CASE ~(boundary # None \/ deadline = 0)
  BY <1>2, AdvanceIsSteady DEF Keep
<1> QED
  BY <1>1, <1>2

LEMMA SteadyAdapterStarts ==
  ASSUME TypeOK, Steady, Refrain \/ CheckFrames \/ AuthorizeDestination \/ Decide
  PROVE  Steady'
<1>1. CASE Refrain
  BY <1>1, RepliedIsSteady DEF Refrain, Reply, Fail
<1>2. CASE CheckFrames
  <2>1. CASE Refused = {}
    BY <1>2, <2>1, AdvanceIsSteady, ReadyIsBusy DEF CheckFrames, MayBegin, browser
  <2>2. CASE Refused # {}
    BY <1>2, <2>2, RepliedIsSteady DEF CheckFrames, Reply
  <2> QED
    BY <2>1, <2>2
<1>3. CASE AuthorizeDestination
  <2>1. CASE Authorized(call.url)
    BY <1>3, <2>1, AdvanceIsSteady, ReadyIsBusy DEF AuthorizeDestination, MayBegin, browser
  <2>2. CASE ~Authorized(call.url)
    BY <1>3, <2>2, RepliedIsSteady DEF AuthorizeDestination, Reply
  <2> QED
    BY <2>1, <2>2
<1>4. CASE Decide
  <2>1. CASE call' = Idle
    BY <2>1, RepliedIsSteady
  <2>2. CASE \E f \in call.seen : /\ ~(f = "main" /\ doc[f] = Blank)
                                  /\ call' = [call EXCEPT !.at = @ + 1, !.frame = f]
    <3>1. PICK f \in call.seen : /\ ~(f = "main" /\ doc[f] = Blank)
                                 /\ call' = [call EXCEPT !.at = call.at + 1, !.frame = f]
      BY <2>2
    <3>2. call \in Calls
      BY DEF TypeOK
    <3>3. /\ call'.op = call.op /\ call'.at = call.at + 1 /\ call'.phase = "ready"
          /\ call'.frame = f /\ call'.seen = call.seen
      BY <1>4, <3>1, <3>2 DEF Calls, Decide
    <3>4. /\ doc' = doc /\ boundary' = None /\ deadline' # 0
      BY <1>4 DEF Decide, browser, Steady, Fresh
    <3>5. Stage' /\ Fresh' /\ Seen'
      BY <3>3, <3>4 DEF Stage, Fresh, Seen, Steady
    <3>6. Chosen'
      BY <3>1, <3>3, <3>4 DEF Chosen
    <3>7. Checked'
      <4>1. ASSUME Inputs', call'.at = 7 PROVE FALSE
        <5>1. Inputs /\ call.at = 6
          BY <3>2, <3>3, <4>1 DEF Inputs, Calls
        <5> QED
          BY <1>4, <5>1, InputsAreChecked DEF Inputs, Doing, Decide
      <4> QED
        BY <4>1 DEF Checked
    <3> QED
      BY <3>5, <3>6, <3>7 DEF Steady
  <2> QED
    BY <1>4, <2>1, <2>2 DEF Decide, Reply
<1> QED
  BY <1>1, <1>2, <1>3, <1>4

\* The attempt is the same; it is only further.
LEMMA FurtherIsSteady ==
  ASSUME TypeOK, Steady, call' \in Calls,
         call'.op = call.op, call'.at = call.at, call'.frame = call.frame, call'.seen = call.seen,
         doc' = doc, call'.phase \in {"running", "draining", "settling", "asleep"},
         call'.phase = "running" => call.phase = "ready" /\ Doing \in Native,
         call'.phase \in {"draining", "settling"} => Doing = "input"
  PROVE  Steady'
<1>1. Stage' /\ Fresh' /\ Seen' /\ Chosen'
  BY DEF Steady, Stage, Fresh, Seen, Chosen, Inputs, Doing
<1>2. ASSUME NEW f \in call.seen, Listed(f) PROVE Listed(f)'
  BY <1>2 DEF Listed, Authorized, EffectiveUrl
<1>3. Checked'
  BY <1>2 DEF Steady, Checked, Inputs
<1> QED
  BY <1>1, <1>3 DEF Steady

LEMMA SteadyAdapterWaits ==
  ASSUME TypeOK, TypeOK', Steady, Satisfied \/ LookAgain \/ Begin \/ Land \/ Drained
  PROVE  Steady'
<1>0. call \in Calls /\ call' \in Calls
  BY DEF TypeOK
<1>1. CASE Satisfied
  <2>1. CASE call' = Idle
    BY <2>1, RepliedIsSteady
  <2>2. CASE call' = [call EXCEPT !.phase = "asleep", !.round = @ + 1]
    <3>1. /\ call'.op = call.op /\ call'.at = call.at /\ call'.frame = call.frame
          /\ call'.seen = call.seen /\ call'.phase = "asleep"
      BY <1>0, <2>2 DEF Calls
    <3> QED
      BY <1>0, <1>1, <3>1, FurtherIsSteady DEF Satisfied, browser
  <2> QED
    BY <1>1, <2>1, <2>2 DEF Satisfied, Reply
<1>2. CASE LookAgain
  <2>1. /\ call'.op = call.op /\ call'.at = 1 /\ call'.phase = "ready"
        /\ call'.seen = call.seen /\ doc' = doc
    BY <1>0, <1>2 DEF LookAgain, Calls, browser
  <2>2. Doing' \in {"check", "authorize"}
    BY <1>2, <2>1, ProgramsAreFinite DEF Doing, TypeOK, LookAgain, Busy
  <2> QED
    BY <2>1, <2>2 DEF Steady, Stage, Fresh, Seen, Chosen, Checked, Inputs
<1>3. CASE Begin
  <2>1. /\ call'.op = call.op /\ call'.at = call.at /\ call'.frame = call.frame
        /\ call'.seen = call.seen /\ call'.phase = "running"
    BY <1>0, <1>3 DEF Begin, Calls
  <2> QED
    BY <1>0, <1>3, <2>1, FurtherIsSteady DEF Begin, MayBegin
<1>4. CASE Land
  <2>1. /\ call'.op = call.op /\ call'.at = call.at /\ call'.frame = call.frame
        /\ call'.seen = call.seen /\ call'.phase = "draining"
    BY <1>0, <1>4 DEF Land, Calls
  <2> QED
    BY <1>0, <1>4, <2>1, FurtherIsSteady DEF Land
<1>5. CASE Drained
  <2>1. /\ call'.op = call.op /\ call'.at = call.at /\ call'.frame = call.frame
        /\ call'.seen = call.seen /\ call'.phase = "settling"
    BY <1>0, <1>5 DEF Drained, Calls
  <2>2. Doing = "input"
    BY <1>5 DEF Drained, Steady, Stage
  <2> QED
    BY <1>0, <1>5, <2>1, <2>2, FurtherIsSteady DEF Drained, browser
<1> QED
  BY <1>1, <1>2, <1>3, <1>4, <1>5

LEMMA SteadyAdapterEnds ==
  ASSUME TypeOK, Steady, Finish \/ GiveUp \/ Settled \/ Unsettled
  PROVE  Steady'
<1>1. CASE Finish
  <2>1. Busy /\ Doing \notin {"decide", "check"}
    BY <1>1, ReadyIsBusy DEF Finish, Native
  <2> QED
    BY <1>1, <2>1, KeepIsSteady DEF Finish
<1>2. CASE GiveUp
  BY <1>2, RepliedIsSteady DEF GiveUp, Fail, Reply
<1>3. CASE Settled
  <2>1. Busy /\ Doing \notin {"decide", "check"}
    BY <1>3, ReadyIsBusy DEF Settled, Steady, Stage
  <2> QED
    BY <1>3, <2>1, KeepIsSteady DEF Settled
<1>4. CASE Unsettled
  BY <1>4, RepliedIsSteady DEF Unsettled, Fail, Reply
<1> QED
  BY <1>1, <1>2, <1>3, <1>4

LEMMA SteadyCaller ==
  ASSUME TypeOK, Steady, Caller
  PROVE  Steady'
<1>1. ASSUME NEW op \in Operations, NEW url, Ask(op, url) PROVE Steady'
  <2>1. call'.op = op /\ call'.at = 1 /\ call'.phase = "ready" /\ call'.seen = {}
    BY <1>1 DEF Ask, Idle
  <2>2. Doing' \in {"check", "authorize"}
    BY <2>1, ProgramsAreFinite DEF Doing
  <2> QED
    BY <2>1, <2>2, BegunIsSteady
<1>2. ASSUME NEW value, SetDeadline(value) PROVE Steady'
  <2>1. call' = call /\ doc' = doc /\ call.phase = "idle"
    BY <1>2 DEF SetDeadline, browser, Busy
  <2> QED
    BY <2>1, DocUnchanged, SteadyWhenYielded DEF Yielded
<1> QED
  BY <1>1, <1>2 DEF Caller

LEMMA SteadyInit ==
  ASSUME Init
  PROVE  Steady
<1>1. call.phase \in {"idle", "ready"} /\ call.seen = {} /\ call.at \in {0, 1}
  BY DEF Init, Idle
<1>2. call.phase = "ready" => Doing \in {"check", "authorize"}
  <2>1. "navigate" \in Operations
    BY DEF Operations, Program
  <2>2. call.phase = "ready" => call.op = "navigate" /\ call.at = 1
    BY DEF Init, Idle
  <2> QED
    BY <2>1, <2>2, ProgramsAreFinite DEF Doing
<1> QED
  BY <1>1, <1>2 DEF Steady, Stage, Fresh, Seen, Chosen, Checked, Inputs

LEMMA SteadyStep ==
  ASSUME TypeOK, Steady, [Next]_vars
  PROVE  Steady'
<1>1. CASE Next
  <2>1. TypeOK'
    BY <1>1, TypeStep
  <2> QED
    BY <1>1, <2>1, SteadyBrowser, SteadyHearTick, SteadyCaller, SteadyAdapterStarts,
       SteadyAdapterWaits, SteadyAdapterEnds DEF Next, Adapter
<1>2. CASE UNCHANGED vars
  BY <1>2 DEF vars, Steady, Stage, Fresh, Seen, Chosen, Checked, Inputs, Listed, Doing,
     Authorized, EffectiveUrl
<1> QED
  BY <1>1, <1>2

LEMMA SteadyAlways == Spec => [](TypeOK /\ Steady)
<1>1. Init => TypeOK /\ Steady
  BY TypeInit, SteadyInit
<1>2. TypeOK /\ Steady /\ [Next]_vars => (TypeOK /\ Steady)'
  BY TypeStep, SteadyStep
<1> QED
  BY <1>1, <1>2, PTL DEF Spec

-----------------------------------------------------------------------------
\* What the invariant is for.

\* An input lands only where the check just before it looked.
LEMMA LandsOnListed ==
  ASSUME TypeOK, Steady, [Next]_vars, call.phase = "running", call'.phase = "draining"
  PROVE  Authorized(EffectiveUrl(call.frame))
<1>1. call \in Calls /\ call' # call
  BY DEF TypeOK
<1>2. ASSUME NEW says, Reply(says) PROVE FALSE
  BY <1>2 DEF Reply, Idle
<1>3. ASSUME Advance PROVE FALSE
  BY <1>1, <1>2, <1>3 DEF Advance, Calls
<1>4. ~(Finish \/ GiveUp \/ Settled \/ Unsettled)
  BY <1>2, <1>3 DEF Finish, GiveUp, Settled, Unsettled, Keep, Fail
<1>5. ~(Refrain \/ CheckFrames \/ AuthorizeDestination \/ Decide \/ Satisfied \/ LookAgain \/ Begin
        \/ Drained)
  BY DEF Refrain, CheckFrames, AuthorizeDestination, MayBegin, Decide, Satisfied, LookAgain, Begin,
         Drained
<1>6. ~Browser
  BY <1>1 DEF Browser, PageNavigates, PageOpensChild, InputNavigates, PageRequests, Intercept,
              LetThrough, CannotWatch, Redirect, Follow, Commit, Calls
<1>7. ~Hear /\ ~Tick /\ ~Caller
  BY <1>1 DEF Hear, Tick, Caller, Ask, SetDeadline, Busy, Calls, Idle
<1>8. Land
  BY <1>1, <1>4, <1>5, <1>6, <1>7 DEF Next, Adapter, vars
<1>9. Inputs /\ call.at = 7 /\ call.frame \in call.seen
  <2>1. call.op \in Operations /\ call.at \in 1..Len(Program[call.op]) /\ Doing = "input"
    BY <1>8 DEF TypeOK, Land, Busy
  <2> QED
    BY <1>8, <2>1, InputsAreSeventh DEF Land, Inputs, Doing
<1>10. Listed(call.frame) /\ ~(call.frame = "main" /\ doc["main"] = Blank)
  BY <1>9 DEF Steady, Checked, Chosen
<1> QED
  BY <1>10 DEF Listed

\* Whatever the page, its script and the servers do between the check of the
\* frames and the input, for every policy and every address: the input is made on
\* a document of a listed origin, or not at all.
THEOREM SurfaceActsWhereItMay == Spec => InputsLandOnListedPages
<1>1. TypeOK /\ Steady /\ [Next]_vars =>
        [call.phase = "running" /\ call'.phase = "draining" =>
           Authorized(EffectiveUrl(call.frame))]_vars
  BY LandsOnListed
<1> QED
  BY <1>1, SteadyAlways, PTL DEF Spec, InputsLandOnListedPages

\* How far a step may take a request: no further than it was, unless it is checked
\* in that step, before any refusal.

Held(f) ==
  nav'[f] # None /\ nav'[f].stage \in Passed =>
    nav[f] # None /\ nav[f].stage \in Passed /\ nav'[f].url = nav[f].url

LEMMA RefusedIsHeld ==
  ASSUME TypeOK, NEW f \in Frames, RefuseRequest(f)
  PROVE  \A g \in Frames : Held(g)
BY DEF TypeOK, RefuseRequest, Held

LEMMA AskedIsHeld ==
  ASSUME TypeOK, NEW f \in Frames, NEW url, NEW by, AskFor(f, url, by)
  PROVE  \A g \in Frames : Held(g)
BY DEF TypeOK, AskFor, Navigation, Passed, Held

LEMMA FewerAreHeld ==
  ASSUME \A f \in Frames : nav'[f] \in {None, nav[f]}
  PROVE  \A f \in Frames : Held(f)
BY DEF Held

LEMMA MovedIsHeld ==
  ASSUME TypeOK, NEW f \in Frames, nav[f] # None, nav[f].stage \in Passed, NEW stage, MovesOn(f, stage)
  PROVE  \A g \in Frames : Held(g)
<1>1. nav[f] \in Navigations /\ nav \in [Frames -> Navigations \cup {None}]
  BY DEF TypeOK
<1>2. nav'[f].url = nav[f].url /\ \A g \in Frames \ {f} : nav'[g] = nav[g]
  BY <1>1 DEF MovesOn, Navigations
<1> QED
  BY <1>2 DEF Held

LEMMA RedirectedIsHeld ==
  ASSUME TypeOK, NEW f \in Frames, Redirect(f)
  PROVE  \A g \in Frames : Held(g)
<1>1. PICK url : nav' = [nav EXCEPT ![f].url = url, ![f].stage = "redirected"]
  BY DEF Redirect
<1>2. nav[f] \in Navigations /\ nav \in [Frames -> Navigations \cup {None}]
  BY DEF TypeOK, Redirect, At
<1>3. nav'[f].stage = "redirected" /\ \A g \in Frames \ {f} : nav'[g] = nav[g]
  BY <1>1, <1>2 DEF Navigations
<1> QED
  BY <1>3 DEF Held, Passed

\* The only steps that take a request past its check.
LEMMA PassingIsChecked ==
  ASSUME TypeOK, NEW f \in Frames, Intercept(f) \/ Follow(f)
  PROVE  \/ \A g \in Frames : Held(g)
         \/ /\ boundary = None
            /\ Authorized(nav'[f].url)
            /\ \A g \in Frames \ {f} : Held(g)
<1>1. nav[f] \in Navigations /\ nav \in [Frames -> Navigations \cup {None}]
  BY DEF TypeOK, Intercept, Follow, At
<1>2. CASE Forbidden(f)
  BY <1>2, RefusedIsHeld DEF Intercept, Follow
<1>3. CASE ~Forbidden(f)
  <2>1. PICK stage : MovesOn(f, stage)
    BY <1>3 DEF Intercept, Follow
  <2>2. nav'[f].url = nav[f].url /\ \A g \in Frames \ {f} : nav'[g] = nav[g]
    BY <1>1, <2>1 DEF MovesOn, Navigations
  <2> QED
    BY <1>3, <2>2 DEF Forbidden, Held
<1> QED
  BY <1>2, <1>3

LEMMA BrowserHolds ==
  ASSUME TypeOK, Browser \/ Hear \/ Tick
  PROVE  \/ \A f \in Frames : Held(f)
         \/ \E f \in Frames : /\ boundary = None
                              /\ Authorized(nav'[f].url)
                              /\ \A g \in Frames \ {f} : Held(g)
<1>1. CASE PageNavigates \/ InputNavigates
  <2>1. PICK f \in Frames, url \in Addresses, by \in {"page", "late"} : AskFor(f, url, by)
    BY <1>1 DEF PageNavigates, InputNavigates
  <2> QED
    BY <2>1, AskedIsHeld
<1>2. CASE PageOpensChild
  BY <1>2, FewerAreHeld DEF PageOpensChild, TypeOK
<1>3. CASE PageRequests \/ Hear \/ Tick
  BY <1>3, FewerAreHeld DEF PageRequests, Hear, Tick
<1>4. ASSUME NEW f \in Frames, Intercept(f) \/ Follow(f)
      PROVE  \/ \A g \in Frames : Held(g)
             \/ /\ boundary = None
                /\ Authorized(nav'[f].url)
                /\ \A g \in Frames \ {f} : Held(g)
  BY <1>4, PassingIsChecked
<1>5. ASSUME NEW f \in Frames, LetThrough(f) PROVE \A g \in Frames : Held(g)
  <2>1. nav[f] # None /\ nav[f].stage \in Passed
    BY <1>5 DEF LetThrough, At, Passed
  <2> QED
    BY <1>5, <2>1, RefusedIsHeld, MovedIsHeld DEF LetThrough
<1>6. ASSUME NEW f \in Frames, CannotWatch(f) PROVE \A g \in Frames : Held(g)
  BY <1>6, RefusedIsHeld DEF CannotWatch
<1>7. ASSUME NEW f \in Frames, Redirect(f) PROVE \A g \in Frames : Held(g)
  BY <1>7, RedirectedIsHeld
<1>8. ASSUME NEW f \in Frames, Commit(f) PROVE \A g \in Frames : Held(g)
  BY <1>8, FewerAreHeld DEF Commit
<1> QED
  BY <1>1, <1>2, <1>3, <1>4, <1>5, <1>6, <1>7, <1>8 DEF Browser

LEMMA FailClears ==
  ASSUME NEW why, Fail(why)
  PROVE  /\ \A f \in Frames : nav'[f] \in {None, nav[f]}
         /\ Doing \in Stopping => \A f \in Frames : nav'[f] = None
BY DEF Fail, StopLoading

LEMMA AdapterHolds ==
  ASSUME TypeOK, Adapter \/ Caller
  PROVE  \A f \in Frames : Held(f)
<1>1. CASE CheckFrames \/ AuthorizeDestination \/ Decide \/ Satisfied \/ LookAgain \/ Drained \/ Caller
  BY <1>1, FewerAreHeld DEF CheckFrames, AuthorizeDestination, Decide, Satisfied, LookAgain,
     Drained, Caller, Ask, SetDeadline, browser
<1>2. CASE Refrain \/ Finish \/ GiveUp \/ Settled \/ Unsettled
  <2>1. nav' = nav \/ \E why : Fail(why)
    BY <1>2 DEF Refrain, Finish, GiveUp, Settled, Unsettled, Keep
  <2> QED
    BY <2>1, FailClears, FewerAreHeld
<1>3. CASE Begin \/ Land
  <2>1. nav' = nav \/ \E f \in Frames : \E url : AskFor(f, url, "call")
    BY <1>3 DEF Begin, Land, Frames
  <2> QED
    BY <2>1, AskedIsHeld, FewerAreHeld
<1> QED
  BY <1>1, <1>2, <1>3 DEF Adapter

LEMMA VettedStep ==
  ASSUME TypeOK, Vetted, [Next]_vars
  PROVE  Vetted'
<1>1. ASSUME NEW f \in Frames, Held(f), nav'[f] # None, nav'[f].stage \in Passed
      PROVE  Authorized(nav'[f].url)
  BY <1>1 DEF Held, Vetted
<1>2. \A f \in Frames : nav'[f] # None /\ nav'[f].stage \in Passed => Authorized(nav'[f].url)
  <2>1. CASE Browser \/ Hear \/ Tick
    BY <1>1, <2>1, BrowserHolds
  <2>2. CASE Adapter \/ Caller
    BY <1>1, <2>2, AdapterHolds
  <2>3. CASE UNCHANGED vars
    BY <2>3 DEF vars, Vetted
  <2> QED
    BY <2>1, <2>2, <2>3 DEF Next
<1> QED
  BY <1>2 DEF Vetted, Authorized

LEMMA VettedAlways == Spec => [](TypeOK /\ Steady /\ Vetted)
<1>1. Init => TypeOK /\ Steady /\ Vetted
  BY TypeInit, SteadyInit DEF Init, Vetted
<1>2. TypeOK /\ Steady /\ Vetted /\ [Next]_vars => (TypeOK /\ Steady /\ Vetted)'
  BY TypeStep, SteadyStep, VettedStep
<1> QED
  BY <1>1, <1>2, PTL DEF Spec

\* After a refusal, no step of the adapter answers with anything else or begins
\* anything.
LEMMA FinalForBrowser ==
  ASSUME TypeOK, boundary # None, Browser \/ Hear \/ Tick
  PROVE  boundary' = boundary /\ call'.phase = call.phase /\ answer' = answer
<1>0. call \in Calls
  BY DEF TypeOK
<1>1. CASE PageNavigates \/ InputNavigates \/ PageRequests
  BY <1>1 DEF PageNavigates, InputNavigates, PageRequests, Refuse
<1>2. CASE PageOpensChild
  BY <1>0, <1>2 DEF PageOpensChild, Calls
<1>3. ASSUME NEW f \in Frames,
             Intercept(f) \/ LetThrough(f) \/ CannotWatch(f) \/ Redirect(f) \/ Follow(f)
      PROVE  boundary' = boundary /\ call' = call /\ answer' = answer
  BY <1>3 DEF Intercept, LetThrough, CannotWatch, Redirect, Follow, RefuseRequest, MovesOn, Refuse
<1>4. ASSUME NEW f \in Frames, Commit(f)
      PROVE  boundary' = boundary /\ call'.phase = call.phase /\ answer' = answer
  BY <1>0, <1>4 DEF Commit, Calls
<1>5. CASE Hear \/ Tick
  BY <1>0, <1>5 DEF Hear, Tick, Calls
<1> QED
  BY <1>1, <1>2, <1>3, <1>4, <1>5 DEF Browser

LEMMA ReplyAfterRefusal ==
  ASSUME NEW says, Reply(says), says = "boundary"
  PROVE  call'.phase = "idle" /\ answer'.says = "boundary"
BY DEF Reply, Idle, Answer

\* An adapter's step after a refusal.
LEMMA FinalForAdapter ==
  ASSUME TypeOK, Steady, boundary # None, Adapter
  PROVE  /\ boundary' = boundary
         /\ call'.phase = "running" => call.phase = "running"
         /\ answer' = answer \/ answer'.says = "boundary"
<1>0. call \in Calls
  BY DEF TypeOK
<1>1. ASSUME NEW why, Fail(why)
      PROVE  call'.phase = "idle" /\ answer'.says = "boundary"
  BY <1>1, ReplyAfterRefusal DEF Fail
<1>2. CASE Refrain
  BY <1>2, ReplyAfterRefusal DEF Refrain
<1>3. ~CheckFrames /\ ~AuthorizeDestination /\ ~Begin
  BY DEF CheckFrames, AuthorizeDestination, Begin, MayBegin
<1>4. ~Decide /\ ~Satisfied
  BY DEF Decide, Satisfied, Steady, Fresh
<1>5. CASE LookAgain
  BY <1>0, <1>5 DEF LookAgain, Calls
<1>6. CASE Finish \/ GiveUp \/ Settled \/ Unsettled
  <2>1. \E why : Fail(why)
    BY <1>6 DEF Finish, GiveUp, Settled, Unsettled, Keep
  <2>2. boundary' = boundary
    BY <1>6 DEF Finish, GiveUp, Settled, Unsettled
  <2> QED
    BY <1>1, <2>1, <2>2
<1>7. CASE Land \/ Drained
  BY <1>0, <1>7 DEF Land, Drained, Calls
<1> QED
  BY <1>2, <1>3, <1>4, <1>5, <1>6, <1>7 DEF Adapter

\* After a refusal, for every policy, page and sequence of calls: it is the reason of
\* every later answer, no attempt begins, and no request passes its check.  What had
\* passed before the refusal may still go on, and an input already with the browser
\* may still land; both are of, and to, listed origins.
THEOREM SurfaceRefusesForGood == Spec => RefusalIsFinal
<1> DEFINE Final ==
      /\ boundary' = boundary
      /\ call'.phase = "running" => call.phase = "running"
      /\ \A f \in Frames : nav'[f] # None /\ nav'[f].stage \in Passed =>
                             /\ nav[f] # None /\ nav[f].stage \in Passed
                             /\ nav'[f].url = nav[f].url /\ Authorized(nav[f].url)
      /\ answer' \in {answer, None} \/ answer'.says = "boundary"
<1>1. ASSUME TypeOK, Steady, Vetted, boundary # None, Next PROVE Final
  <2>1. \A f \in Frames : Held(f)
    BY <1>1, BrowserHolds, AdapterHolds DEF Next
  <2>2. \A f \in Frames : nav'[f] # None /\ nav'[f].stage \in Passed =>
                            /\ nav[f] # None /\ nav[f].stage \in Passed
                            /\ nav'[f].url = nav[f].url /\ Authorized(nav[f].url)
    BY <1>1, <2>1 DEF Held, Vetted
  <2>3. CASE Browser \/ Hear \/ Tick
    BY <1>1, <2>2, <2>3, FinalForBrowser
  <2>4. CASE Adapter
    BY <1>1, <2>2, <2>4, FinalForAdapter
  <2>5. CASE Caller
    <3>1. boundary' = boundary /\ call'.phase \in {"ready", call.phase} /\ answer' \in {answer, None}
      BY <2>5 DEF Caller, Ask, SetDeadline, Idle
    <3> QED
      BY <2>2, <3>1
  <2> QED
    BY <1>1, <2>3, <2>4, <2>5 DEF Next
<1>2. TypeOK /\ Steady /\ Vetted /\ [Next]_vars => [boundary # None => Final]_vars
  BY <1>1
<1> QED
  BY <1>2, VettedAlways, PTL DEF Spec, RefusalIsFinal

\* What answers well asked about the time at the same moment, or just before.
LEMMA LateIsNotWell ==
  ASSUME TypeOK, Steady, deadline = 0, Next, answer' # answer, answer' # None
  PROVE  answer'.says # "ok"
<1>1. ASSUME NEW says, Reply(says), says # "ok" PROVE answer'.says # "ok"
  BY <1>1 DEF Reply, Answer
<1>2. ASSUME NEW why, Fail(why), why # "ok" PROVE answer'.says # "ok"
  <2>1. \E says : Reply(says) /\ says # "ok"
    BY <1>2 DEF Fail
  <2> QED
    BY <1>1, <2>1
<1>3. ~Decide /\ ~Satisfied /\ ~MayBegin
  BY DEF Decide, Satisfied, Steady, Fresh, MayBegin
<1>4. ~CheckFrames /\ ~AuthorizeDestination /\ ~Begin
  BY <1>3 DEF CheckFrames, AuthorizeDestination, Begin
<1>5. CASE Refrain
  BY <1>1, <1>2, <1>5 DEF Refrain
<1>6. CASE Finish \/ GiveUp \/ Settled \/ Unsettled
  BY <1>2, <1>6 DEF Finish, GiveUp, Settled, Unsettled, Keep
<1>7. ~(LookAgain \/ Land \/ Drained)
  BY DEF LookAgain, Land, Drained
<1>8. ~Browser /\ ~Hear /\ ~Tick /\ ~Caller
  BY DEF Browser, PageNavigates, PageOpensChild, InputNavigates, PageRequests, Intercept,
         LetThrough, CannotWatch, Redirect, Follow, Commit, Hear, Tick, Caller, Ask, SetDeadline
<1> QED
  BY <1>3, <1>4, <1>5, <1>6, <1>7, <1>8 DEF Next, Adapter

\* No operation answers well once the caller's deadline has passed, for every
\* deadline and every length of an attempt.
THEOREM SurfaceIsNeverLate == Spec => NothingAnswersLate
<1>1. TypeOK /\ Steady /\ [Next]_vars =>
        [deadline = 0 /\ answer' # answer /\ answer' # None => answer'.says # "ok"]_vars
  BY LateIsNotWell
<1> QED
  BY <1>1, SteadyAlways, PTL DEF Spec, NothingAnswersLate

-----------------------------------------------------------------------------
\* What is still arriving.

\* The notices a step adds are of frames whose navigation is over, or the page's.
LEMMA AddedNotices ==
  ASSUME TypeOK, Arriving, Yielded, NEW g \in Frames, NEW b \in BOOLEAN,
         events' = Append(events, Loads(g, b)), ~ByCall(g)',
         \A f \in Frames : ByCall(f)' => ByCall(f),
         loading' = loading, call'.phase = call.phase, call'.owed = call.owed, Doing' = Doing
  PROVE  Arriving'
<1>1. events \in Seq(Notices) /\ Len(events) \in Nat
  BY DEF TypeOK
<1>2. Len(events') = Len(events) + 1 /\ events'[Len(events) + 1].frame = g
  BY <1>1 DEF Loads
<1>3. \A j \in 1..Len(events) : events'[j] = events[j]
  BY <1>1
<1>4. ASSUME NEW f \in Frames, f # g, Heard(f) PROVE Heard(f)'
  BY <1>1, <1>2, <1>3, <1>4 DEF Heard
<1>5. ASSUME NEW f \in Frames, f # g, Ahead(f) PROVE Ahead(f)'
  <2>1. PICK i \in 1..Len(events) :
          /\ i <= call.owed
          /\ events[i] = Loads(f, TRUE)
          /\ \A j \in 1..Len(events) : j > i => events[j].frame # f
    BY <1>5 DEF Ahead
  <2>2. /\ i \in 1..Len(events') /\ i <= call'.owed /\ events'[i] = Loads(f, TRUE)
    <3>1. i \in 1..Len(events')
      BY <1>1, <1>2
    <3>2. events'[i] = events[i]
      BY <1>3
    <3>3. i <= call'.owed
      BY <2>1
    <3> QED
      BY <2>1, <3>1, <3>2, <3>3
  <2>3. \A j \in 1..Len(events') : j > i => events'[j].frame # f
    BY <1>1, <1>2, <1>3, <1>5, <2>1
  <2> QED
    BY <2>2, <2>3 DEF Ahead
<1> QED
  BY <1>4, <1>5 DEF Arriving

\* A step that touches neither the notices nor where the call is.
LEMMA NothingAdded ==
  ASSUME TypeOK, Arriving, events' = events, loading' = loading,
         call'.phase = call.phase, call'.owed = call.owed, Doing' = Doing,
         \A f \in Frames : ByCall(f)' => ByCall(f)
  PROVE  Arriving'
<1>1. ASSUME NEW f \in Frames PROVE (Heard(f) => Heard(f)') /\ (Ahead(f) => Ahead(f)')
  BY DEF Heard, Ahead, Loads
<1> QED
  BY <1>1 DEF Arriving

LEMMA NothingByCall ==
  ASSUME \A f \in Frames : ~ByCall(f)'
  PROVE  Arriving'
BY DEF Arriving

LEMMA ArrivingBrowser ==
  ASSUME TypeOK, Arriving, Browser
  PROVE  Arriving'
<1>0. call \in Calls /\ nav \in [Frames -> Navigations \cup {None}] /\ events \in Seq(Notices)
  BY DEF TypeOK
<1>1. CASE PageNavigates
  <2>1. PICK f \in Frames, url \in Addresses : AskFor(f, url, "page")
    BY <1>1 DEF PageNavigates
  <2>2. nav' = [nav EXCEPT ![f] = Navigation(url, "page")] /\ events' = Append(events, Loads(f, TRUE))
    BY <2>1 DEF AskFor
  <2>3. ~ByCall(f)' /\ \A g \in Frames : ByCall(g)' => ByCall(g)
    BY <1>0, <2>2 DEF ByCall, Navigation
  <2> QED
    BY <1>1, <2>2, <2>3, AddedNotices DEF PageNavigates, Moves, Doing
<1>2. CASE PageOpensChild
  <2>1. /\ call'.phase = call.phase /\ call'.owed = call.owed
        /\ call'.op = call.op /\ call'.at = call.at
    BY <1>0, <1>2 DEF PageOpensChild, Calls
  <2>2. "child" \in Frames /\ ~ByCall("child")' /\ \A g \in Frames : ByCall(g)' => ByCall(g)
    BY <1>0, <1>2 DEF PageOpensChild, ByCall, Frames
  <2>3. /\ events' = Append(events, Loads("child", FALSE)) /\ loading' = loading /\ Yielded
    BY <1>2 DEF PageOpensChild, Moves
  <2> QED
    BY <2>1, <2>2, <2>3, AddedNotices DEF Doing
<1>3. CASE PageRequests
  BY <1>3, NothingAdded DEF PageRequests, ByCall, Doing
<1>4. ASSUME NEW f \in Frames,
             Intercept(f) \/ LetThrough(f) \/ CannotWatch(f) \/ Follow(f)
      PROVE  Arriving'
  <2>1. /\ call' = call /\ loading' = loading /\ Yielded /\ nav[f] # None
        /\ RefuseRequest(f) \/ \E stage : MovesOn(f, stage)
    BY <1>4 DEF Intercept, LetThrough, CannotWatch, Follow, Moves, At
  <2>2. CASE RefuseRequest(f)
    <3>1. nav' = [nav EXCEPT ![f] = None] /\ events' = Append(events, Loads(f, FALSE))
      BY <2>2 DEF RefuseRequest
    <3>2. ~ByCall(f)' /\ \A g \in Frames : ByCall(g)' => ByCall(g)
      BY <1>0, <3>1 DEF ByCall
    <3> QED
      BY <2>1, <3>1, <3>2, AddedNotices DEF Doing
  <2>3. CASE \E stage : MovesOn(f, stage)
    <3>1. PICK stage : nav' = [nav EXCEPT ![f].stage = stage] /\ events' = events
      BY <2>3 DEF MovesOn
    <3>2. nav[f] \in Navigations
      BY <1>0, <2>1
    <3>3. \A g \in Frames : ByCall(g)' => ByCall(g)
      BY <1>0, <2>1, <3>1, <3>2 DEF ByCall, Navigations
    <3> QED
      BY <2>1, <3>1, <3>3, NothingAdded DEF Doing
  <2> QED
    BY <2>1, <2>2, <2>3
<1>5. CASE InputNavigates
  <2>1. PICK f \in Frames, url \in Addresses : AskFor(f, url, "late")
    BY <1>5 DEF InputNavigates
  <2>2. nav' = [nav EXCEPT ![f] = Navigation(url, "late")] /\ events' = Append(events, Loads(f, TRUE))
    BY <2>1 DEF AskFor
  <2>3. ~ByCall(f)' /\ \A g \in Frames : ByCall(g)' => ByCall(g)
    BY <1>0, <2>2 DEF ByCall, Navigation
  <2> QED
    BY <1>5, <2>2, <2>3, AddedNotices DEF InputNavigates, Doing
<1>6. ASSUME NEW f \in Frames, Redirect(f) PROVE Arriving'
  <2>1. PICK url \in Addresses : nav' = [nav EXCEPT ![f].url = url, ![f].stage = "redirected"]
    BY <1>6 DEF Redirect
  <2>2. nav[f] \in Navigations /\ nav[f] # None
    BY <1>0, <1>6 DEF Redirect, At
  <2>3. \A g \in Frames : ByCall(g)' => ByCall(g)
    BY <1>0, <2>1, <2>2 DEF ByCall, Navigations
  <2> QED
    BY <1>6, <2>3, NothingAdded DEF Redirect, Doing
<1>7. ASSUME NEW f \in Frames, Commit(f) PROVE Arriving'
  <2>1. CASE f = "main"
    <3>1. \A g \in Frames : ~ByCall(g)'
      BY <1>7, <2>1 DEF Commit, ByCall
    <3> QED
      BY <3>1, NothingByCall
  <2>2. CASE f = "child"
    <3>1. /\ call'.phase = call.phase /\ call'.owed = call.owed
          /\ call'.op = call.op /\ call'.at = call.at
      BY <1>0, <1>7 DEF Commit, Calls
    <3>2. "child" \in Frames /\ ~ByCall("child")' /\ \A g \in Frames : ByCall(g)' => ByCall(g)
      BY <1>0, <1>7, <2>2 DEF Commit, ByCall, Frames
    <3>3. Loads("child", FALSE) \in Notices
      BY <3>2, NoticesAreLoads
    <3>4. events' = Append(events, Loads("child", FALSE))
      <4>1. events' = events \o <<Loads("child", FALSE)>>
        BY <1>7, <2>2 DEF Commit
      <4>2. \A n \in Notices : events \o <<n>> = Append(events, n)
        BY <1>0
      <4> QED
        BY <3>3, <4>1, <4>2
    <3> QED
      BY <1>7, <3>1, <3>2, <3>4, AddedNotices DEF Commit, Doing
  <2> QED
    BY <2>1, <2>2 DEF Frames
<1> QED
  BY <1>1, <1>2, <1>3, <1>4, <1>5, <1>6, <1>7 DEF Browser

\* What was about to be heard is heard, or is one nearer.
LEMMA ArrivingHear ==
  ASSUME TypeOK, Arriving, Hear
  PROVE  Arriving'
<1>1. call \in Calls /\ events \in Seq(Notices) /\ events # <<>> /\ Len(events) \in Nat
  BY DEF TypeOK, Hear
<1>2. /\ call'.phase = call.phase /\ call'.op = call.op /\ call'.at = call.at
      /\ call'.owed = (IF call.owed > 0 THEN call.owed - 1 ELSE 0)
  BY <1>1 DEF Hear, Calls
<1>3. /\ Len(events') = Len(events) - 1
      /\ \A j \in 1..Len(events') : events'[j] = events[j + 1] /\ j + 1 \in 1..Len(events)
  BY <1>1 DEF Hear
<1>4. /\ Head(events) = events[1] /\ 1 \in 1..Len(events)
  BY <1>1
<1>5. loading' = IF events[1].adds THEN loading \cup {events[1].frame} ELSE loading \ {events[1].frame}
  BY <1>4 DEF Hear
<1>6. ASSUME NEW f \in Frames, Heard(f) PROVE Heard(f)'
  BY <1>3, <1>4, <1>5, <1>6 DEF Heard
<1>7. ASSUME NEW f \in Frames, Ahead(f) PROVE Ahead(f)' \/ Heard(f)'
  <2>1. PICK i \in 1..Len(events) :
          /\ i <= call.owed
          /\ events[i] = Loads(f, TRUE)
          /\ \A j \in 1..Len(events) : j > i => events[j].frame # f
    BY <1>7 DEF Ahead
  <2>2. CASE i = 1
    <3>1. events[1].adds /\ events[1].frame = f
      BY <2>1, <2>2 DEF Loads
    <3>2. f \in loading'
      BY <1>5, <3>1
    <3>3. \A j \in 1..Len(events') : events'[j].frame # f
      BY <1>3, <2>1, <2>2
    <3> QED
      BY <3>2, <3>3 DEF Heard
  <2>3. CASE i # 1
    <3>1. i - 1 \in 1..Len(events') /\ i \in Nat
      BY <1>1, <1>3, <2>1, <2>3
    <3>2. events'[i - 1] = events[i]
      BY <1>3, <3>1
    <3>3. i - 1 <= call'.owed
      BY <1>1, <1>2, <2>1, <2>3, <3>1 DEF Calls
    <3>4. ASSUME NEW j \in 1..Len(events'), j > i - 1 PROVE events'[j].frame # f
      <4>1. j + 1 \in 1..Len(events) /\ events'[j] = events[j + 1] /\ j + 1 > i
        BY <1>3, <3>1, <3>4
      <4> QED
        BY <2>1, <4>1
    <3> QED
      BY <2>1, <3>1, <3>2, <3>3, <3>4 DEF Ahead
  <2> QED
    BY <2>2, <2>3
<1>8. \A f \in Frames : ByCall(f)' => ByCall(f)
  BY DEF Hear, ByCall
<1> QED
  BY <1>2, <1>6, <1>7, <1>8 DEF Arriving, Doing

\* Nothing a call began is under way unless the call waits for it.
LEMMA ClearUnlessWaiting ==
  ASSUME Arriving, call.phase \in {"idle", "ready", "asleep"}
  PROVE  \A f \in Frames : ~ByCall(f)
BY DEF Arriving

LEMMA ClearUnlessGoing ==
  ASSUME Arriving, call.phase = "running", Doing # "goto"
  PROVE  \A f \in Frames : ~ByCall(f)
BY DEF Arriving

LEMMA ClearStays ==
  ASSUME \A f \in Frames : ~ByCall(f), \A f \in Frames : nav'[f] \in {None, nav[f]}
  PROVE  Arriving'
BY DEF Arriving, ByCall

LEMMA ArrivingAdapter ==
  ASSUME TypeOK, TypeOK', Steady, Arriving, Adapter
  PROVE  Arriving'
<1>0. call \in Calls /\ call' \in Calls /\ nav \in [Frames -> Navigations \cup {None}]
  BY DEF TypeOK
<1>1. CASE Refrain
  <2>1. \A f \in Frames : nav'[f] \in {None, nav[f]}
    BY <1>1, FailClears DEF Refrain
  <2>2. call.phase = "ready"
    BY <1>1 DEF Refrain
  <2> QED
    BY <2>1, <2>2, ClearUnlessWaiting, ClearStays
<1>2. CASE CheckFrames \/ AuthorizeDestination \/ Decide \/ Satisfied \/ LookAgain
  <2>1. nav' = nav /\ call.phase \in {"ready", "asleep"}
    BY <1>2 DEF CheckFrames, AuthorizeDestination, MayBegin, Decide, Satisfied, LookAgain, browser
  <2>2. \A f \in Frames : ~ByCall(f)
    BY <2>1, ClearUnlessWaiting
  <2> QED
    BY <2>1, <2>2, ClearStays
<1>3. CASE Begin
  <2>1. \A f \in Frames : ~ByCall(f)
    <3>1. call.phase = "ready"
      BY <1>3 DEF Begin, MayBegin
    <3> QED
      BY <3>1, ClearUnlessWaiting
  <2>2. CASE Doing = "goto"
    <3>1. nav' = [nav EXCEPT !["main"] = Navigation(call.url, "call")]
      BY <1>3, <2>2 DEF Begin, AskFor
    <3>2. call'.phase = "running" /\ Doing' = "goto"
      BY <1>0, <1>3, <2>2 DEF Begin, Calls, Doing
    <3>3. \A f \in Frames : ByCall(f)' => f = "main"
      BY <1>0, <2>1, <3>1 DEF ByCall
    <3> QED
      BY <3>2, <3>3 DEF Arriving
  <2>3. CASE Doing # "goto"
    BY <1>3, <2>1, <2>3, ClearStays DEF Begin
  <2> QED
    BY <2>2, <2>3
<1>4. CASE Finish
  <2>1. \A f \in Frames : ~ByCall(f)
    BY <1>4 DEF Finish, Arriving, ByCall
  <2>2. \A f \in Frames : nav'[f] \in {None, nav[f]}
    BY <1>4, FailClears DEF Finish, Keep
  <2> QED
    BY <2>1, <2>2, ClearStays
<1>5. CASE GiveUp
  <2>1. Fail("unavailable") /\ call.phase = "running"
    BY <1>5 DEF GiveUp
  <2>2. CASE Doing \in Stopping
    BY <2>1, <2>2, FailClears, NothingByCall DEF ByCall
  <2>3. CASE Doing \notin Stopping
    <3>1. \A f \in Frames : ~ByCall(f)
      BY <2>1, <2>3, ClearUnlessGoing DEF Stopping
    <3> QED
      BY <2>1, <3>1, FailClears, ClearStays
  <2> QED
    BY <2>2, <2>3
<1>6. CASE Land
  <2>1. \A f \in Frames : ~ByCall(f)
    BY <1>6, ClearUnlessGoing DEF Land
  <2>2. call'.phase = "draining" /\ call'.owed = Len(events')
    BY <1>0, <1>6 DEF Land, Calls
  <2>3. CASE UNCHANGED <<nav, events>>
    BY <2>1, <2>3, ClearStays
  <2>4. CASE \E f \in Frames, url \in Addresses : AskFor(f, url, "call")
    <3>1. PICK f \in Frames, url \in Addresses : AskFor(f, url, "call")
      BY <2>4
    <3>2. \A g \in Frames : ByCall(g)' => g = f
      BY <1>0, <2>1, <3>1 DEF AskFor, ByCall
    <3>3. events \in Seq(Notices) /\ events' = Append(events, Loads(f, TRUE))
      BY <3>1 DEF AskFor, TypeOK
    <3> DEFINE n == Len(events')
    <3>4. n \in Nat /\ n \in 1..n /\ n <= n /\ events'[n] = Loads(f, TRUE)
      <4>1. Loads(f, TRUE) \in Notices
        BY NoticesAreLoads
      <4>2. n = Len(events) + 1 /\ Len(events) \in Nat
        BY <3>3, <4>1
      <4>3. events'[Len(events) + 1] = Loads(f, TRUE)
        BY <3>3, <4>1, AppendedLast
      <4> QED
        BY <4>2, <4>3
    <3>5. Ahead(f)'
      <4>1. \A j \in 1..n : ~(j > n)
        BY <3>4
      <4> HIDE DEF n
      <4>2. /\ n <= call'.owed
            /\ events'[n] = Loads(f, TRUE)
            /\ \A j \in 1..n : j > n => events'[j].frame # f
        BY <2>2, <3>4, <4>1 DEF n
      <4>3. n \in 1..n
        BY <3>4
      <4>4. \E i \in 1..n :
              /\ i <= call'.owed
              /\ events'[i] = Loads(f, TRUE)
              /\ \A j \in 1..n : j > i => events'[j].frame # f
        BY <4>2, <4>3
      <4> QED
        BY <4>4 DEF Ahead, n, Loads
    <3> QED
      BY <2>2, <3>2, <3>5 DEF Arriving
  <2> QED
    BY <1>6, <2>3, <2>4 DEF Land
<1>7. CASE Drained
  <2>1. call'.phase = "settling" /\ call.owed = 0 /\ call.phase = "draining"
    BY <1>0, <1>7 DEF Drained, Calls
  <2>2. ASSUME NEW f \in Frames, ByCall(f) PROVE Heard(f)
    <3>1. Ahead(f) \/ Heard(f)
      BY <2>1, <2>2 DEF Arriving
    <3>2. ASSUME NEW i \in 1..Len(events) PROVE ~(i <= call.owed)
      <4>1. Len(events) \in Nat
        BY DEF TypeOK
      <4> QED
        BY <2>1, <4>1
    <3>3. ~Ahead(f)
      BY <3>2 DEF Ahead
    <3> QED
      BY <3>1, <3>3
  <2> QED
    BY <1>7, <2>1, <2>2 DEF Drained, browser, Arriving, ByCall, Heard
<1>8. CASE Settled
  <2>1. \A f \in Frames : ~ByCall(f)
    BY <1>8 DEF Settled, Arriving, Heard
  <2>2. \A f \in Frames : nav'[f] \in {None, nav[f]}
    BY <1>8, FailClears DEF Settled, Keep
  <2> QED
    BY <2>1, <2>2, ClearStays
<1>9. CASE Unsettled
  <2>1. Doing \in Stopping /\ Fail("unavailable")
    BY <1>9 DEF Unsettled, Steady, Stage, Stopping
  <2> QED
    BY <2>1, FailClears, NothingByCall DEF ByCall
<1> QED
  BY <1>1, <1>2, <1>3, <1>4, <1>5, <1>6, <1>7, <1>8, <1>9 DEF Adapter

LEMMA ArrivingStep ==
  ASSUME TypeOK, Steady, Arriving, [Next]_vars
  PROVE  Arriving'
<1>1. CASE Adapter
  <2>1. TypeOK'
    BY TypeStep
  <2> QED
    BY <1>1, <2>1, ArrivingAdapter
<1>2. CASE Browser
  BY <1>2, ArrivingBrowser
<1>3. CASE Hear
  BY <1>3, ArrivingHear
<1>4. CASE Tick
  BY <1>4, NothingAdded DEF Tick, ByCall, Doing
<1>5. CASE Caller
  <2>1. call.phase = "idle" /\ nav' = nav
    BY <1>5 DEF Caller, Ask, SetDeadline, browser, Busy
  <2>2. \A f \in Frames : ~ByCall(f)
    BY <2>1, ClearUnlessWaiting
  <2> QED
    BY <2>1, <2>2, ClearStays
<1>6. CASE UNCHANGED vars
  BY <1>6, NothingAdded DEF vars, ByCall, Doing
<1> QED
  BY <1>1, <1>2, <1>3, <1>4, <1>5, <1>6 DEF Next

LEMMA SInvAlways == Spec => []SInv
<1>1. Init => SInv
  <2>1. Init => Arriving
    BY DEF Init, Arriving, ByCall
  <2>2. Init => Vetted
    BY DEF Init, Vetted
  <2> QED
    BY <2>1, <2>2, TypeInit, SteadyInit DEF SInv
<1>2. SInv /\ [Next]_vars => SInv'
  BY TypeStep, SteadyStep, VettedStep, ArrivingStep DEF SInv
<1> QED
  BY <1>1, <1>2, PTL DEF Spec

\* When an operation has answered, nothing Chromium had announced by the time its
\* input was answered, or its navigation begun, is on its way in any frame, for every
\* page, policy and length of an attempt.
THEOREM SurfaceLeavesNothingArriving == Spec => []NothingStillArriving
<1>1. SInv => NothingStillArriving
  <2>1. ASSUME Arriving, ~Busy, NEW f \in Frames, nav[f] # None PROVE nav[f].by # "call"
    <3>1. ~ByCall(f)
      <4>1. call.phase = "idle"
        BY <2>1 DEF Busy
      <4> QED
        BY <2>1, <4>1, ClearUnlessWaiting
    <3> QED
      BY <2>1, <3>1 DEF ByCall
  <2> QED
    BY <2>1 DEF SInv, NothingStillArriving
<1> QED
  BY <1>1, SInvAlways, PTL

=============================================================================
