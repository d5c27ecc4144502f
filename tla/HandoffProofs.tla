---------------------------- MODULE HandoffProofs ----------------------------
(***************************************************************************)
(* Theorems about Handoff for any set of secrets, any number of requests    *)
(* in flight and any bound on episodes.                                     *)
(***************************************************************************)
EXTENDS Handoff, TLAPS

USE HandoffAssumption

-----------------------------------------------------------------------------
(* Null values have their types                                             *)

\* The values that stand for nothing (no record, no screen, no look) are of the
\* types of the real ones.
LEMMA NullTypes ==
  /\ NoEpisode \in InterventionRecord
  /\ NotWatching \in Watched
  /\ Idle \in Look
BY DEF NoEpisode, InterventionRecord, Classification, NotWatching, Watched, Idle, Look, Texts

\* A raised record is open, untouched, and not the null one.
LEMMA RaisedRecord ==
  ASSUME NEW e \in Episodes
  PROVE  /\ raise(e) \in OpenRecord
         /\ raise(e).episode = e /\ raise(e).classification = "open"
         /\ raise(e).held = FALSE /\ raise(e).notes = {}
<1>1. e \in 0..MaxEpisodes /\ e # 0
  BY DEF Episodes
<1> QED
  BY <1>1 DEF raise, OpenRecord, InterventionRecord, Classification

\* An event of any kind about a numbered episode is an event.
LEMMA EventTypes ==
  ASSUME NEW e \in Episodes, NEW kind \in {"raise", "human_action", "note", "resolve"}
  PROVE  event(kind, e) \in Event
BY DEF event, Event, Episodes, Texts, Classification

\* A record that is open is not the null one, and is of a numbered episode.
LEMMA OpenIsNotNull ==
  ASSUME NEW record \in OpenRecord
  PROVE  /\ record # NoEpisode /\ record.episode \in Episodes
         /\ record \in InterventionRecord
BY DEF OpenRecord, NoEpisode, InterventionRecord, Episodes

\* Changing one field of an open record leaves an open record, and leaves the
\* other fields alone.
LEMMA HeldUpdate ==
  ASSUME NEW record \in OpenRecord
  PROVE  LET after == [record EXCEPT !.held = TRUE]
         IN /\ after \in OpenRecord /\ after.episode = record.episode
            /\ after.held = TRUE /\ after.notes = record.notes
            /\ after.classification = record.classification
BY DEF OpenRecord, InterventionRecord

\* The same for the fields the Session observed.
LEMMA ObservedUpdate ==
  ASSUME NEW record \in OpenRecord, NEW fields \in SUBSET Secrets
  PROVE  LET after == [record EXCEPT !.observed = @ \cup fields]
         IN /\ after \in OpenRecord /\ after.episode = record.episode
            /\ after.held = record.held /\ after.notes = record.notes
            /\ after.classification = record.classification
BY DEF OpenRecord, InterventionRecord

\* The same for a note the person wrote.
LEMMA NotesUpdate ==
  ASSUME NEW record \in OpenRecord, NEW text \in Texts
  PROVE  LET after == [record EXCEPT !.notes = @ \cup {text}]
         IN /\ after \in OpenRecord /\ after.episode = record.episode
            /\ after.held = record.held /\ after.notes = record.notes \cup {text}
            /\ after.classification = record.classification
BY DEF OpenRecord, InterventionRecord

\* The same for the answer the person gave.
LEMMA ClassificationUpdate ==
  ASSUME NEW record \in OpenRecord, NEW answer \in Classification
  PROVE  LET after == [record EXCEPT !.classification = answer]
         IN /\ after \in OpenRecord /\ after.episode = record.episode
            /\ after.held = record.held /\ after.notes = record.notes
            /\ after.classification = answer
BY DEF OpenRecord, InterventionRecord

-----------------------------------------------------------------------------
(* The inductive invariant                                                  *)

\* Inside pause an episode is open, and it is the last one raised; outside it
\* the session is automation's.
Phases ==
  /\ HoldsControlWhileRunning
  /\ engine \in {"baselining", "parked", "waking"} =>
       owner # "automation" /\ pending # NoEpisode /\ pending.episode = raised
  /\ screen.on <=> engine \in {"parked", "waking"}

\* The Deferred is completed exactly when a return has been committed, and only
\* then does the open record carry an answer.
Answers ==
  /\ answered <=> owner = "resume_requested"
  /\ owner = "resume_requested" => pending.classification \in OperatorAnswers
  /\ owner # "resume_requested" => pending.classification = "open"

\* Episodes are numbered in the order they are raised, and the log and the
\* closed records know of no other.
Numbering ==
  /\ \A ev \in log : ev.episode <= raised
  /\ \A ev \in log : ev.kind = "resolve" => ev.answer # "open"
  /\ \A record \in resolved : record.episode \in 1..raised
  /\ pending # NoEpisode => \A record \in resolved : record.episode # pending.episode

\* A look that still holds the current `screen` started from values that are
\* accounted for.
Looks ==
  /\ SeenIsAccountedFor
  /\ \A c \in Captors : looking[c].kind = "return" => looking[c].answer \in OperatorAnswers
  /\ \A c \in Captors :
       looking[c].current => screen.on /\ looking[c].seen \subseteq screen.baseline \cup needles

IInv ==
  TypeOK /\ Phases /\ Answers /\ Numbering /\ EvidenceAgrees /\ ResumedOnlyOnRecord /\ Looks

-----------------------------------------------------------------------------
(* Type correctness                                                         *)

\* Whatever screen the looks started from, outdating them keeps their type.
LEMMA OutdatedType ==
  ASSUME looking \in [Captors -> Look]
  PROVE  Outdated(looking) \in [Captors -> Look]
BY DEF Outdated, Look

\* Fields are added to the open record, if there is one, and nothing else.
LEMMA NoteCapture ==
  ASSUME TypeOK, NEW fields \in SUBSET Secrets
  PROVE  LET after == noteCapture(fields)
         IN /\ after \in OpenRecord \cup {NoEpisode}
            /\ after = NoEpisode <=> pending = NoEpisode
            /\ after.episode = pending.episode /\ after.held = pending.held
            /\ after.notes = pending.notes
            /\ after.classification = pending.classification
<1>1. CASE pending = NoEpisode
  BY <1>1 DEF noteCapture
<1>2. CASE pending \in OpenRecord
  <2>1. pending # NoEpisode
    BY <1>2, OpenIsNotNull
  <2>2. noteCapture(fields) = [pending EXCEPT !.observed = @ \cup fields]
    BY <2>1 DEF noteCapture
  <2>3. noteCapture(fields) \in OpenRecord
    BY <1>2, <2>2, ObservedUpdate
  <2> QED
    BY <1>2, <2>1, <2>2, <2>3, ObservedUpdate, OpenIsNotNull
<1> QED
  BY <1>1, <1>2 DEF TypeOK

\* A look that is answered leaves the needles, the screen and the looks of
\* their types.
LEMMA CaptureTypes ==
  ASSUME TypeOK, NEW c \in Captors, Capture(c)
  PROVE  /\ needles' \subseteq Secrets
         /\ screen' \in Watched
         /\ looking' \in [Captors -> Look]
         /\ sawEntries(c) \in SUBSET Secrets
<1>1. sawEntries(c) \in SUBSET Secrets
  BY DEF TypeOK, sawEntries
<1>2. looking[c].seen \in SUBSET Secrets
  BY DEF TypeOK, Look
<1>3. screen' \in Watched
  BY <1>2 DEF TypeOK, Capture, Watched
<1>4. looking' \in [Captors -> Look]
  BY OutdatedType, NullTypes DEF TypeOK, Capture
<1> QED
  BY <1>1, <1>3, <1>4 DEF TypeOK, Capture

\* A transition that is given records and an event writes records and events.
LEMMA TransitionTypes ==
  ASSUME TypeOK,
         NEW expected \in ControlOwner, NEW before \in OpenRecord \cup {NoEpisode},
         NEW record, NEW next \in ControlOwner,
         NEW completes \in BOOLEAN, NEW written,
         before \in OpenRecord => record \in OpenRecord /\ written \in Event,
         Transition(expected, before, record, next, completes, written)
  PROVE  /\ owner' \in ControlOwner /\ pending' \in OpenRecord \cup {NoEpisode}
         /\ answered' \in BOOLEAN /\ log' \subseteq Event
BY DEF Transition, RolledBack, TypeOK

\* What a person asks for is a look with a kind, a text and an answer.
LEMMA AskedTypes ==
  ASSUME TypeOK, NEW body \in Asked
  PROVE  body \in Look /\ (body.kind = "return" => body.answer \in OperatorAnswers)
<1>1. pending.episode \in 0..MaxEpisodes
  BY OpenIsNotNull, NullTypes DEF TypeOK, InterventionRecord
<1>2. CASE \E t \in Texts : body = [Idle EXCEPT !.kind = "note", !.text = t, !.issued = pending.episode]
  <2>1. PICK t \in Texts : body = [Idle EXCEPT !.kind = "note", !.text = t, !.issued = pending.episode]
    BY <1>2
  <2>2. body.kind = "note"
    BY <2>1, NullTypes DEF Look
  <2> QED
    BY <1>1, <2>1, <2>2, NullTypes DEF Look
<1>3. CASE \E a \in OperatorAnswers : body = [Idle EXCEPT !.kind = "return", !.answer = a, !.issued = pending.episode]
  <2>1. PICK a \in OperatorAnswers : body = [Idle EXCEPT !.kind = "return", !.answer = a, !.issued = pending.episode]
    BY <1>3
  <2>2. body.answer = a
    BY <2>1, NullTypes DEF Look
  <2> QED
    BY <1>1, <2>1, <2>2, NullTypes DEF Look, Classification
<1> QED
  BY <1>2, <1>3 DEF Asked, Texts

-----------------------------------------------------------------------------
(* The record of an episode and its events                                  *)

\* Writing nothing, or an event of another episode, disturbs no agreement.
LEMMA AgreesElsewhere ==
  ASSUME NEW record \in InterventionRecord, AgreesWithLog(record),
         \/ log' = log
         \/ \E ev \in Event : log' = log \cup {ev} /\ ev.episode # record.episode
  PROVE  AgreesWithLog(record)'
BY DEF AgreesWithLog, Recorded, EventsOf

\* Two records that differ in what the Session observed agree with the same logs.
LEMMA AgreesSameFields ==
  ASSUME NEW record, NEW after, AgreesWithLog(record),
         after.episode = record.episode, after.held = record.held,
         after.notes = record.notes, after.classification = record.classification
  PROVE  AgreesWithLog(after)
BY DEF AgreesWithLog

\* The three events a person causes, each with the field it speaks of.
LEMMA AgreesTaken ==
  ASSUME NEW record, NEW after, NEW ev, AgreesWithLog(record),
         after.episode = record.episode, after.held = TRUE,
         after.notes = record.notes, after.classification = record.classification,
         ev.episode = record.episode, ev.kind = "human_action",
         log' = log \cup {ev}
  PROVE  AgreesWithLog(after)'
BY DEF AgreesWithLog, Recorded, EventsOf

\* Writing the note that the record gains keeps the two in agreement.
LEMMA AgreesNoted ==
  ASSUME NEW record, NEW after, NEW ev, AgreesWithLog(record),
         after.episode = record.episode, after.held = record.held,
         after.notes = record.notes \cup {ev.text},
         after.classification = record.classification,
         ev.episode = record.episode, ev.kind = "note", log' = log \cup {ev}
  PROVE  AgreesWithLog(after)'
BY DEF AgreesWithLog, Recorded, EventsOf

\* Writing the answer that the record gains keeps the two in agreement.
LEMMA AgreesReturned ==
  ASSUME NEW record, NEW after, NEW ev, AgreesWithLog(record),
         record.classification = "open",
         \A other \in log : other.kind = "resolve" => other.answer # "open",
         after.episode = record.episode, after.held = record.held,
         after.notes = record.notes, after.classification = ev.answer,
         ev.episode = record.episode, ev.kind = "resolve", log' = log \cup {ev}
  PROVE  AgreesWithLog(after)'
BY DEF AgreesWithLog, Recorded, EventsOf

-----------------------------------------------------------------------------
(* A step on the open record                                                *)

\* `before` is the open record as a capture may have left it.
SameButObserved(before) ==
  /\ before \in OpenRecord \cup {NoEpisode}
  /\ before = NoEpisode <=> pending = NoEpisode
  /\ before.episode = pending.episode /\ before.held = pending.held
  /\ before.notes = pending.notes /\ before.classification = pending.classification

\* The four things a call on the session can come to.
Refused(before) ==
  pending' = before /\ UNCHANGED <<owner, answered, log>>

Taken(ev) ==
  /\ owner = "paused" /\ owner' = "operator" /\ answered' = answered
  /\ pending # NoEpisode /\ pending' = [pending EXCEPT !.held = TRUE]
  /\ ev.kind = "human_action"

Noted(before, ev) ==
  /\ owner = "operator" /\ owner' = "operator" /\ answered' = answered
  /\ before # NoEpisode /\ pending' = [before EXCEPT !.notes = @ \cup {ev.text}]
  /\ ev.kind = "note"

Returned(before, ev) ==
  /\ owner = "operator" /\ owner' = "resume_requested" /\ answered' = TRUE
  /\ before # NoEpisode /\ pending' = [before EXCEPT !.classification = ev.answer]
  /\ ev.kind = "resolve" /\ ev.answer \in OperatorAnswers

Wrote(before, ev) ==
  /\ ev.episode = pending.episode /\ log' = log \cup {ev}
  /\ Taken(ev) \/ Noted(before, ev) \/ Returned(before, ev)

SessionStep(before) == Refused(before) \/ \E ev \in Event : Wrote(before, ev)

\* The body of noteAction and of returnControl is one step on the open record:
\* refused, or written with its event.
LEMMA WriteDownIsStep ==
  ASSUME TypeOK, NEW body \in Look, NEW before, NEW known, SameButObserved(before),
         body.kind = "return" => body.answer \in OperatorAnswers,
         WriteDown(body, before, known)
  PROVE  SessionStep(before)
<1> DEFINE said == [event("note", before.episode) EXCEPT
                      !.text = body.text, !.issued = body.issued,
                      !.clear = {body.text} \cap (Secrets \ known)]
           returned == [said EXCEPT !.kind = "resolve", !.answer = body.answer]
<1>1. CASE pending' = before /\ UNCHANGED <<owner, answered, log>>
  BY <1>1 DEF SessionStep, Refused
<1>2. ASSUME ~(pending' = before /\ UNCHANGED <<owner, answered, log>>)
      PROVE  before \in OpenRecord /\ before.episode \in Episodes
  <2>1. before # NoEpisode
    BY <1>2 DEF WriteDown, Transition, RolledBack
  <2> QED
    BY <2>1, OpenIsNotNull DEF SameButObserved
<1>3. CASE /\ ~(pending' = before /\ UNCHANGED <<owner, answered, log>>)
           /\ body.kind = "note"
  <2>1. event("note", before.episode) \in Event /\ event("note", before.episode).kind = "note"
        /\ event("note", before.episode).episode = before.episode
    BY <1>2, <1>3, EventTypes DEF event
  <2>5. said \in Event /\ said.kind = "note" /\ said.episode = before.episode
        /\ said.text = body.text
    BY <1>3, <2>1 DEF Event, Look
  <2>2. /\ owner = "operator" /\ before # NoEpisode
        /\ pending' = [before EXCEPT !.notes = @ \cup {body.text}]
        /\ owner' = "operator" /\ answered' = answered /\ log' = log \cup {said}
    BY <1>3 DEF WriteDown, Transition, RolledBack
  <2>3. Noted(before, said)
    BY <2>2, <2>5 DEF Noted
  <2> QED
    BY <2>2, <2>3, <2>5 DEF SessionStep, Wrote, SameButObserved
<1>4. CASE /\ ~(pending' = before /\ UNCHANGED <<owner, answered, log>>)
           /\ body.kind = "return"
  <2>1. event("note", before.episode) \in Event /\ event("note", before.episode).episode = before.episode
    BY <1>2, <1>4, EventTypes DEF event
  <2>2. returned \in Event /\ returned.kind = "resolve" /\ returned.episode = before.episode
        /\ returned.answer = body.answer
    BY <1>4, <2>1 DEF Event, Look
  <2>3. /\ owner = "operator" /\ before # NoEpisode
        /\ pending' = [before EXCEPT !.classification = body.answer]
        /\ owner' = "resume_requested" /\ answered' = TRUE /\ log' = log \cup {returned}
    BY <1>4 DEF WriteDown, Transition, RolledBack
  <2>4. Returned(before, returned)
    BY <1>4, <2>2, <2>3 DEF Returned
  <2> QED
    BY <2>2, <2>3, <2>4 DEF SessionStep, Wrote, SameButObserved
<1> QED
  BY <1>1, <1>3, <1>4 DEF WriteDown, Look

\* What every kind of step on the open record has in common: the episode is the
\* same, and what is written is about it.
LEMMA StepShape ==
  ASSUME TypeOK, NEW before, SameButObserved(before), SessionStep(before)
  PROVE  /\ owner' \in ControlOwner /\ answered' \in BOOLEAN
         /\ pending' \in OpenRecord \cup {NoEpisode}
         /\ pending' = NoEpisode <=> pending = NoEpisode
         /\ pending'.episode = pending.episode
         /\ log' \subseteq Event
         /\ \/ log' = log
            \/ \E ev \in Event : log' = log \cup {ev} /\ ev.episode = pending.episode
<1>1. CASE Refused(before)
  BY <1>1 DEF Refused, SameButObserved, TypeOK
<1>2. ASSUME NEW ev \in Event, ev.episode = pending.episode, log' = log \cup {ev}, Taken(ev)
      PROVE  /\ owner' \in ControlOwner /\ answered' \in BOOLEAN
             /\ pending' \in OpenRecord /\ pending # NoEpisode
             /\ pending'.episode = pending.episode
  <2>1. pending \in OpenRecord
    BY <1>2 DEF Taken, TypeOK
  <2> QED
    BY <1>2, <2>1, HeldUpdate DEF Taken, TypeOK, ControlOwner
<1>3. ASSUME NEW ev \in Event, ev.episode = pending.episode, log' = log \cup {ev},
             Noted(before, ev) \/ Returned(before, ev)
      PROVE  /\ owner' \in ControlOwner /\ answered' \in BOOLEAN
             /\ pending' \in OpenRecord /\ pending # NoEpisode
             /\ pending'.episode = pending.episode
  <2>1. before \in OpenRecord /\ pending # NoEpisode /\ before.episode = pending.episode
    BY <1>3 DEF Noted, Returned, SameButObserved
  <2>2. CASE Noted(before, ev)
    <3>1. ev.text \in Texts
      BY DEF Event
    <3> QED
      BY <2>1, <2>2, <3>1, NotesUpdate DEF Noted, TypeOK, ControlOwner
  <2>3. CASE Returned(before, ev)
    <3>1. ev.answer \in Classification
      BY DEF Event
    <3> QED
      BY <2>1, <2>3, <3>1, ClassificationUpdate DEF Returned, TypeOK, ControlOwner
  <2> QED
    BY <1>3, <2>2, <2>3
<1>4. CASE \E ev \in Event : Wrote(before, ev)
  <2>1. PICK ev \in Event : Wrote(before, ev)
    BY <1>4
  <2>2. /\ owner' \in ControlOwner /\ answered' \in BOOLEAN
        /\ pending' \in OpenRecord /\ pending # NoEpisode
        /\ pending'.episode = pending.episode
    BY <2>1, <1>2, <1>3 DEF Wrote
  <2>3. pending' # NoEpisode
    BY <2>2, OpenIsNotNull
  <2> QED
    BY <2>1, <2>2, <2>3 DEF TypeOK, Wrote
<1> QED
  BY <1>1, <1>4 DEF SessionStep

\* A step on the open record moves the owner only inside pause.
LEMMA StepPhases ==
  ASSUME IInv, NEW before, SameButObserved(before), SessionStep(before),
         engine' = engine, raised' = raised, screen'.on = screen.on
  PROVE  Phases'
<1>1. pending' = NoEpisode <=> pending = NoEpisode
  BY StepShape DEF IInv
<1>2. pending'.episode = pending.episode
  BY StepShape DEF IInv
<1>3. owner # "automation" => owner' # "automation"
  BY DEF SessionStep, Wrote, Refused, Taken, Noted, Returned
<1>4. owner = "automation" => owner' = "automation"
  BY DEF SessionStep, Wrote, Refused, Taken, Noted, Returned
<1> QED
  BY <1>1, <1>2, <1>3, <1>4 DEF IInv, Phases, HoldsControlWhileRunning

\* A step on the open record keeps owner, answer and Deferred consistent.
LEMMA StepAnswers ==
  ASSUME IInv, NEW before, SameButObserved(before), SessionStep(before)
  PROVE  Answers'
<1>1. CASE Refused(before)
  BY <1>1 DEF Refused, SameButObserved, IInv, Answers
<1>2. ASSUME NEW ev \in Event, Taken(ev) PROVE Answers'
  <2>1. pending \in OpenRecord
    BY <1>2 DEF Taken, IInv, TypeOK
  <2>2. pending'.classification = pending.classification
    BY <1>2, <2>1, HeldUpdate DEF Taken
  <2> QED
    BY <1>2, <2>2 DEF Taken, IInv, Answers
<1>3. ASSUME NEW ev \in Event, Noted(before, ev) PROVE Answers'
  <2>1. before \in OpenRecord /\ ev.text \in Texts
    BY <1>3 DEF Noted, SameButObserved, Event
  <2>2. pending'.classification = before.classification
    BY <1>3, <2>1, NotesUpdate DEF Noted
  <2> QED
    BY <1>3, <2>2 DEF Noted, SameButObserved, IInv, Answers
<1>4. ASSUME NEW ev \in Event, Returned(before, ev) PROVE Answers'
  <2>1. before \in OpenRecord /\ ev.answer \in Classification
    BY <1>4 DEF Returned, SameButObserved, Event
  <2>2. pending'.classification = ev.answer
    BY <1>4, <2>1, ClassificationUpdate DEF Returned
  <2> QED
    BY <1>4, <2>2 DEF Returned, Answers
<1> QED
  BY <1>1, <1>2, <1>3, <1>4 DEF SessionStep, Wrote

\* A step on the open record writes about the episode that is open.
LEMMA StepNumbering ==
  ASSUME IInv, NEW before, SameButObserved(before), SessionStep(before),
         raised' = raised, resolved' = resolved
  PROVE  Numbering'
<1>1. /\ pending' = NoEpisode <=> pending = NoEpisode
      /\ pending'.episode = pending.episode
  BY StepShape DEF IInv
<1>2. CASE Refused(before)
  BY <1>1, <1>2 DEF Refused, IInv, Numbering
<1>3. CASE \E ev \in Event : Wrote(before, ev)
  <2>1. PICK ev \in Event : Wrote(before, ev)
    BY <1>3
  <2>2. pending # NoEpisode
    BY <2>1 DEF Wrote, Taken, Noted, Returned, SameButObserved
  <2>3. pending.episode <= raised
    BY <2>2 DEF IInv, Phases, HoldsControlWhileRunning, TypeOK
  <2>4. ev.kind = "resolve" => ev.answer # "open"
    BY <2>1 DEF Wrote, Taken, Noted, Returned, OperatorAnswers
  <2> QED
    BY <1>1, <2>1, <2>3, <2>4 DEF Wrote, IInv, Numbering
<1> QED
  BY <1>2, <1>3 DEF SessionStep

\* A step on the open record leaves every record in agreement with the log.
LEMMA StepEvidence ==
  ASSUME IInv, NEW before, SameButObserved(before), SessionStep(before),
         resolved' = resolved, told' = told
  PROVE  EvidenceAgrees' /\ ResumedOnlyOnRecord'
<1>1. /\ pending' = NoEpisode <=> pending = NoEpisode
      /\ log \subseteq log'
  BY StepShape DEF IInv
<1>2. ResumedOnlyOnRecord'
  BY <1>1 DEF IInv, ResumedOnlyOnRecord, EventsOf
<1>3. pending # NoEpisode => AgreesWithLog(pending) /\ AgreesWithLog(before)
  <2>1. pending # NoEpisode => AgreesWithLog(pending)
    BY DEF IInv, EvidenceAgrees
  <2> QED
    BY <2>1, AgreesSameFields DEF SameButObserved
<1>4. CASE Refused(before)
  <2>1. ASSUME NEW record \in resolved PROVE AgreesWithLog(record)'
    BY <1>4, <2>1, AgreesElsewhere DEF Refused, IInv, TypeOK, EvidenceAgrees
  <2>2. before # NoEpisode => AgreesWithLog(before)'
    BY <1>3, <1>4, AgreesElsewhere, OpenIsNotNull DEF Refused, SameButObserved
  <2> QED
    BY <1>2, <1>4, <2>1, <2>2 DEF Refused, EvidenceAgrees
<1>5. ASSUME NEW ev \in Event, Wrote(before, ev) PROVE EvidenceAgrees'
  <2>1. /\ pending # NoEpisode /\ pending \in OpenRecord
        /\ before # NoEpisode /\ before \in OpenRecord
        /\ ev.episode = pending.episode /\ log' = log \cup {ev}
    BY <1>5 DEF Wrote, Taken, Noted, Returned, SameButObserved, IInv, TypeOK
  <2>2. ASSUME NEW record \in resolved PROVE AgreesWithLog(record)'
    <3>1. record.episode # ev.episode
      BY <2>1 DEF IInv, Numbering
    <3> QED
      BY <2>1, <3>1, AgreesElsewhere DEF IInv, TypeOK, EvidenceAgrees
  <2>3. ASSUME Taken(ev) PROVE AgreesWithLog(pending)'
    <3>1. /\ pending'.episode = pending.episode /\ pending'.held = TRUE
          /\ pending'.notes = pending.notes
          /\ pending'.classification = pending.classification
      BY <2>1, <2>3, HeldUpdate DEF Taken
    <3> QED
      BY <1>3, <2>1, <2>3, <3>1, AgreesTaken DEF Taken
  <2>4. ASSUME Noted(before, ev) PROVE AgreesWithLog(pending)'
    <3>1. ev.text \in Texts
      BY DEF Event
    <3>2. /\ pending'.episode = before.episode /\ pending'.held = before.held
          /\ pending'.notes = before.notes \cup {ev.text}
          /\ pending'.classification = before.classification
      BY <2>1, <2>4, <3>1, NotesUpdate DEF Noted
    <3> QED
      BY <1>3, <2>1, <2>4, <3>2, AgreesNoted DEF Noted, SameButObserved
  <2>5. ASSUME Returned(before, ev) PROVE AgreesWithLog(pending)'
    <3>1. ev.answer \in Classification
      BY DEF Event
    <3>2. before.classification = "open"
      BY <2>5 DEF Returned, IInv, Answers, SameButObserved
    <3>3. /\ pending'.episode = before.episode /\ pending'.held = before.held
          /\ pending'.notes = before.notes /\ pending'.classification = ev.answer
      BY <2>1, <2>5, <3>1, ClassificationUpdate DEF Returned
    <3>4. \A other \in log : other.kind = "resolve" => other.answer # "open"
      BY DEF IInv, Numbering
    <3> QED
      BY <1>3, <2>1, <2>5, <3>2, <3>3, <3>4, AgreesReturned DEF Returned, SameButObserved
  <2> QED
    BY <1>5, <2>2, <2>3, <2>4, <2>5 DEF Wrote, EvidenceAgrees
<1> QED
  BY <1>2, <1>4, <1>5 DEF SessionStep

-----------------------------------------------------------------------------
(* The looks at the screen                                                  *)

\* A look that is answered registers what it is about to call seen, so no
\* later look starts from a value unaccounted for.
LEMMA CaptureLooks ==
  ASSUME IInv, NEW c \in Captors, Capture(c)
  PROVE  Looks' /\ screen'.on = screen.on
<1> USE DEF IInv, TypeOK
<1>1. CASE looking[c].current
  <2>1. /\ screen'.on = screen.on /\ screen'.baseline = screen.baseline
        /\ screen'.seen = looking[c].seen \cup page
    BY <1>1 DEF Capture, Watched
  <2>2. SeenIsAccountedFor'
    BY <1>1, <2>1 DEF Capture, Looks, SeenIsAccountedFor, sawEntries
  <2>3. ASSUME NEW d \in Captors
        PROVE  /\ ~looking'[d].current
               /\ looking'[d].kind = "return" => looking'[d].answer \in OperatorAnswers
    <3>1. looking' = [Outdated(looking) EXCEPT ![c] = Idle]
      BY <1>1 DEF Capture
    <3>2. CASE d = c
      BY <3>1, <3>2 DEF Outdated, Idle
    <3>3. CASE d # c
      <4>1. looking'[d] = [looking[d] EXCEPT !.current = FALSE]
        BY <3>1, <3>3 DEF Outdated
      <4> QED
        BY <4>1 DEF Look, Looks
    <3> QED
      BY <3>2, <3>3
  <2> QED
    BY <2>1, <2>2, <2>3 DEF Looks
<1>2. CASE ~looking[c].current
  <2>1. looking' = [looking EXCEPT ![c] = Idle] /\ screen' = screen /\ needles \subseteq needles'
    BY <1>2 DEF Capture
  <2>2. ASSUME NEW d \in Captors PROVE looking'[d] = Idle \/ looking'[d] = looking[d]
    BY <2>1
  <2>3. Idle.kind = "idle" /\ Idle.current = FALSE
    BY DEF Idle
  <2> QED
    BY <2>1, <2>2, <2>3 DEF Looks, SeenIsAccountedFor
<1> QED
  BY <1>1, <1>2

\* `screen` is replaced by one that has seen only its own baseline, or by none.
LEMMA ReplacedScreenLooks ==
  ASSUME IInv, looking' = Outdated(looking), needles' = needles,
         screen'.seen \subseteq screen'.baseline
  PROVE  Looks'
<1>1. ASSUME NEW d \in Captors
      PROVE  /\ ~looking'[d].current
             /\ looking'[d].kind = "return" => looking'[d].answer \in OperatorAnswers
  <2>1. looking'[d] = [looking[d] EXCEPT !.current = FALSE]
    BY DEF Outdated
  <2>2. looking[d] \in Look
    BY DEF IInv, TypeOK
  <2> QED
    BY <2>1, <2>2 DEF Look, Looks, IInv
<1> QED
  BY <1>1 DEF Looks, SeenIsAccountedFor

\* A look that begins now starts from what `screen` has seen so far.
LEMMA BegunLooks ==
  ASSUME IInv, NEW c \in Captors, NEW body, UNCHANGED <<screen, needles>>, screen.on,
         looking' = [looking EXCEPT ![c] = body],
         body.seen = screen.seen, body.kind = "return" => body.answer \in OperatorAnswers
  PROVE  Looks'
<1>1. ASSUME NEW d \in Captors PROVE looking'[d] = looking[d] \/ looking'[d] = body
  BY DEF IInv, TypeOK
<1> QED
  BY <1>1 DEF IInv, Looks, SeenIsAccountedFor

-----------------------------------------------------------------------------
(* Steps that leave the session's own state alone                           *)

\* A step that touches neither owner, records, log nor what the run was told
\* keeps the parts of the invariant that speak of them.
LEMMA QuietKeeps ==
  ASSUME IInv, UNCHANGED <<owner, pending, answered, raised, resolved, told, log>>
  PROVE  Answers' /\ Numbering' /\ EvidenceAgrees' /\ ResumedOnlyOnRecord'
<1>1. Answers' /\ Numbering' /\ ResumedOnlyOnRecord'
  BY DEF IInv, Answers, Numbering, ResumedOnlyOnRecord, EventsOf
<1>2. EvidenceAgrees'
  BY DEF IInv, EvidenceAgrees, AgreesWithLog, Recorded, EventsOf
<1> QED
  BY <1>1, <1>2

-----------------------------------------------------------------------------
(* The invariant holds at first and is kept by every action                 *)

\* The session as it opens satisfies the invariant.
LEMMA InitInvariant == Init => IInv
<1> SUFFICES ASSUME Init PROVE IInv
  OBVIOUS
<1>1. TypeOK
  <2>1. told \in [episode: 0..MaxEpisodes,
                  result: {"nothing", "resumed", "stopped", "unwritable"}]
    BY DEF Init
  <2>2. looking \in [Captors -> Look]
    BY NullTypes DEF Init
  <2>3. /\ owner \in ControlOwner /\ pending \in OpenRecord \cup {NoEpisode}
        /\ screen \in Watched /\ raised \in 0..MaxEpisodes
    BY NullTypes DEF Init, ControlOwner
  <2>5. attached \in BOOLEAN /\ answered \in BOOLEAN
    BY Zenon DEF Init
  <2>4. /\ engine \in {"running", "baselining", "parked", "waking", "ended"}
        /\ resolved \subseteq InterventionRecord /\ needles \subseteq Secrets
        /\ log \subseteq Event /\ page \subseteq Secrets /\ typed \subseteq Episodes \X Secrets
    BY DEF Init
  <2> QED
    BY <2>1, <2>2, <2>3, <2>4, <2>5 DEF TypeOK
<1>2. Phases /\ Answers /\ Numbering
  BY DEF Init, Phases, HoldsControlWhileRunning, NotWatching, Answers, NoEpisode, Numbering
<1>3. EvidenceAgrees /\ ResumedOnlyOnRecord
  BY DEF Init, EvidenceAgrees, ResumedOnlyOnRecord
<1>4. Looks
  BY DEF Init, Looks, SeenIsAccountedFor, NotWatching, Idle
<1> QED
  BY <1>1, <1>2, <1>3, <1>4 DEF IInv

\* Attach, Detach, Act, End, Type, Disappear and the awakening.
LEMMA OutsideInvariant ==
  ASSUME IInv,
         \/ Attach \/ Detach \/ Act \/ End \/ Wake \/ Expire
         \/ \E s \in Secrets : Type(s) \/ Disappear(s)
  PROVE  IInv'
<1>1. UNCHANGED <<owner, pending, answered, raised, resolved, told, log, screen, needles>>
  BY DEF Attach, Detach, Act, End, Wake, Expire, Awake, Type, Disappear, stateVars, watchVars, worldVars
<1>2. Answers' /\ Numbering' /\ EvidenceAgrees' /\ ResumedOnlyOnRecord'
  BY <1>1, QuietKeeps
<1>3. looking' = looking \/ looking' = [looking EXCEPT ![Watcher] = Idle]
  BY DEF Attach, Detach, Act, End, Wake, Expire, Awake, Type, Disappear, watchVars
<1>4. looking' \in [Captors -> Look]
  BY <1>3, NullTypes DEF IInv, TypeOK
<1>5. page' \subseteq Secrets /\ typed' \subseteq Episodes \X Secrets
  <2>1. ASSUME NEW s \in Secrets, Type(s) PROVE pending.episode \in Episodes
    BY <2>1, OpenIsNotNull DEF Type, IInv, Phases, HoldsControlWhileRunning, TypeOK
  <2> QED
    BY <2>1 DEF IInv, TypeOK, Attach, Detach, Act, End, Wake, Expire, Awake, Type, Disappear, worldVars
<1>6. attached' \in BOOLEAN /\ engine' \in {"running", "baselining", "parked", "waking", "ended"}
  BY DEF IInv, TypeOK, Attach, Detach, Act, End, Wake, Expire, Awake, Type, Disappear
<1>7. TypeOK'
  BY <1>1, <1>4, <1>5, <1>6 DEF IInv, TypeOK
<1>8. Phases'
  BY <1>1 DEF IInv, Phases, HoldsControlWhileRunning, Attach, Detach, Act, End, Wake, Expire, Awake, Type, Disappear
<1>9. Looks'
  <2>1. ASSUME NEW d \in Captors PROVE looking'[d] = looking[d] \/ looking'[d] = Idle
    BY <1>3 DEF IInv, TypeOK
  <2>2. Idle.kind = "idle" /\ Idle.current = FALSE
    BY DEF Idle
  <2> QED
    BY <1>1, <2>1, <2>2 DEF IInv, Looks, SeenIsAccountedFor
<1> QED
  BY <1>2, <1>7, <1>8, <1>9 DEF IInv

\* The first look of pause keeps the invariant: its screen has seen nothing
\* beyond its own baseline.
LEMMA BaselineInvariant ==
  ASSUME IInv, Baseline
  PROVE  IInv'
<1>1. UNCHANGED <<owner, pending, answered, raised, resolved, told, log, needles>>
  BY DEF Baseline, stateVars
<1>2. Answers' /\ Numbering' /\ EvidenceAgrees' /\ ResumedOnlyOnRecord'
  BY <1>1, QuietKeeps
<1>3. screen' \in Watched /\ screen'.seen = screen'.baseline
  BY DEF IInv, TypeOK, Baseline, Watched
<1>4. TypeOK'
  BY <1>1, <1>3, OutdatedType DEF IInv, TypeOK, Baseline, worldVars
<1>5. Phases'
  BY <1>1 DEF IInv, Phases, HoldsControlWhileRunning, Baseline
<1>6. Looks'
  BY <1>1, <1>3, ReplacedScreenLooks DEF Baseline
<1> QED
  BY <1>2, <1>4, <1>5, <1>6 DEF IInv

\* A turn of the watching fiber begins from an accounted screen.
LEMMA WatcherLooksInvariant ==
  ASSUME IInv, WatcherLooks
  PROVE  IInv'
<1> DEFINE body == [Idle EXCEPT !.kind = "watch", !.seen = screen.seen, !.current = TRUE]
<1>1. UNCHANGED <<owner, pending, answered, raised, resolved, told, log, needles, screen, engine>>
  BY DEF WatcherLooks, stateVars
<1>2. Answers' /\ Numbering' /\ EvidenceAgrees' /\ ResumedOnlyOnRecord'
  BY <1>1, QuietKeeps
<1>3. screen.seen \in SUBSET Secrets
  BY DEF IInv, TypeOK, Watched
<1>4. body \in Look /\ body.kind = "watch" /\ body.seen = screen.seen
  BY <1>3, NullTypes DEF Look
<1>5. looking' = [looking EXCEPT ![Watcher] = body] /\ Watcher \in Captors
  BY DEF WatcherLooks, Captors
<1> HIDE DEF body
<1>6. TypeOK'
  BY <1>1, <1>4, <1>5 DEF IInv, TypeOK, WatcherLooks, worldVars
<1>7. Phases'
  BY <1>1 DEF IInv, Phases, HoldsControlWhileRunning
<1>8. screen.on
  BY DEF WatcherLooks, IInv, Phases
<1>9. Looks'
  BY <1>1, <1>4, <1>5, <1>8, BegunLooks
<1> QED
  BY <1>2, <1>6, <1>7, <1>9 DEF IInv

\* The steps on the open record share all but the looks and the types of the
\* variables they leave to the capture.
LEMMA SessionInvariant ==
  ASSUME IInv, NEW before, SameButObserved(before), SessionStep(before),
         UNCHANGED <<attached, raised, resolved, engine, told, page, typed>>,
         screen'.on = screen.on, screen' \in Watched, needles' \subseteq Secrets,
         looking' \in [Captors -> Look], Looks'
  PROVE  IInv'
<1>1. TypeOK'
  BY StepShape DEF IInv, TypeOK
<1>2. Phases'
  BY StepPhases
<1>3. Answers'
  BY StepAnswers
<1>4. Numbering'
  BY StepNumbering
<1>5. EvidenceAgrees' /\ ResumedOnlyOnRecord'
  BY StepEvidence
<1> QED
  BY <1>1, <1>2, <1>3, <1>4, <1>5 DEF IInv

\* A record differs from itself in nothing.
LEMMA PendingIsItself ==
  ASSUME TypeOK
  PROVE  SameButObserved(pending)
BY DEF TypeOK, SameButObserved

\* The watcher's look adds fields to the open record and keeps the rest.
LEMMA WatcherSeesInvariant ==
  ASSUME IInv, WatcherSees
  PROVE  IInv'
<1> DEFINE before == noteCapture(sawEntries(Watcher))
<1>1. Watcher \in Captors /\ Capture(Watcher)
  BY DEF WatcherSees, Captors
<1>2. /\ needles' \subseteq Secrets /\ screen' \in Watched
      /\ looking' \in [Captors -> Look] /\ sawEntries(Watcher) \in SUBSET Secrets
  BY <1>1, CaptureTypes DEF IInv
<1>3. Looks' /\ screen'.on = screen.on
  BY <1>1, CaptureLooks
<1>4. SameButObserved(before)
  BY <1>2, NoteCapture DEF IInv, SameButObserved
<1>5. Refused(before)
  BY DEF WatcherSees, Refused
<1> HIDE DEF before
<1> QED
  BY <1>2, <1>3, <1>4, <1>5, SessionInvariant DEF WatcherSees, worldVars, SessionStep

\* takeControl is a step on the open record.
LEMMA TakeControlIsStep ==
  ASSUME IInv, TakeControl
  PROVE  SessionStep(pending)
<1>1. CASE UNCHANGED <<owner, pending, answered, log>>
  BY <1>1 DEF SessionStep, Refused
<1>2. CASE ~UNCHANGED <<owner, pending, answered, log>>
  <2>1. /\ owner = "paused" /\ pending # NoEpisode
        /\ pending' = [pending EXCEPT !.held = TRUE] /\ owner' = "operator"
        /\ answered' = answered /\ log' = log \cup {event("human_action", pending.episode)}
    BY <1>2 DEF TakeControl, Transition, RolledBack
  <2>2. pending.episode \in Episodes
    BY <2>1, OpenIsNotNull DEF IInv, TypeOK
  <2>3. /\ event("human_action", pending.episode) \in Event
        /\ event("human_action", pending.episode).episode = pending.episode
        /\ event("human_action", pending.episode).kind = "human_action"
    BY <2>2, EventTypes DEF event
  <2> QED
    BY <2>1, <2>3 DEF SessionStep, Wrote, Taken
<1> QED
  BY <1>1, <1>2

\* takeControl keeps the invariant.
LEMMA TakeControlInvariant ==
  ASSUME IInv, TakeControl
  PROVE  IInv'
<1>1. UNCHANGED <<screen, looking, needles, attached, raised, resolved, engine, told, page, typed>>
  BY DEF TakeControl, watchVars, worldVars
<1>2. Looks'
  BY <1>1 DEF IInv, Looks, SeenIsAccountedFor
<1> QED
  BY <1>1, <1>2, TakeControlIsStep, PendingIsItself, SessionInvariant DEF IInv, TypeOK

\* A request that begins its look keeps the invariant, and so does one that
\* finds no screen to look at.
LEMMA SubmitInvariant ==
  ASSUME IInv, NEW r \in Requests, Submit(r)
  PROVE  IInv'
<1>1. r \in Captors
  BY DEF Captors
<1>2. PICK body \in Asked :
        \/ /\ screen.on
           /\ looking' = [looking EXCEPT ![r] = [body EXCEPT !.seen = screen.seen, !.current = TRUE]]
           /\ UNCHANGED <<owner, pending, answered, log>>
        \/ /\ ~screen.on /\ WriteDown(body, pending, needles) /\ looking' = looking
  BY DEF Submit, stateVars
<1>3. body \in Look /\ (body.kind = "return" => body.answer \in OperatorAnswers)
  BY AskedTypes DEF IInv
<1>4. UNCHANGED <<attached, raised, resolved, screen, engine, told, needles, page, typed>>
  BY DEF Submit, worldVars
<1>5. CASE /\ screen.on
           /\ looking' = [looking EXCEPT ![r] = [body EXCEPT !.seen = screen.seen, !.current = TRUE]]
           /\ UNCHANGED <<owner, pending, answered, log>>
  <2> DEFINE begun == [body EXCEPT !.seen = screen.seen, !.current = TRUE]
  <2>1. screen.seen \in SUBSET Secrets
    BY DEF IInv, TypeOK, Watched
  <2>2. /\ begun \in Look /\ begun.seen = screen.seen
        /\ begun.kind = "return" => begun.answer \in OperatorAnswers
    BY <1>3, <2>1 DEF Look
  <2>3. looking' = [looking EXCEPT ![r] = begun]
    BY <1>5
  <2> HIDE DEF begun
  <2>4. TypeOK'
    BY <1>4, <1>5, <2>2, <2>3 DEF IInv, TypeOK
  <2>5. Looks'
    BY <1>1, <1>4, <1>5, <2>2, <2>3, BegunLooks
  <2>6. Phases'
    BY <1>4, <1>5 DEF IInv, Phases, HoldsControlWhileRunning
  <2>7. Answers' /\ Numbering' /\ EvidenceAgrees' /\ ResumedOnlyOnRecord'
    BY <1>4, <1>5, QuietKeeps
  <2> QED
    BY <2>4, <2>5, <2>6, <2>7 DEF IInv
<1>6. CASE ~screen.on /\ WriteDown(body, pending, needles) /\ looking' = looking
  <2>1. SessionStep(pending)
    BY <1>3, <1>6, PendingIsItself, WriteDownIsStep DEF IInv
  <2>2. Looks'
    BY <1>4, <1>6 DEF IInv, Looks, SeenIsAccountedFor
  <2> QED
    BY <1>4, <1>6, <2>1, <2>2, PendingIsItself, SessionInvariant DEF IInv, TypeOK
<1> QED
  BY <1>2, <1>5, <1>6

\* A request without a look is a step on the open record, or no step.
LEMMA SubmitIsStep ==
  ASSUME IInv, NEW r \in Requests, Submit(r)
  PROVE  SessionStep(pending)
<1>1. PICK body \in Asked :
        \/ UNCHANGED <<owner, pending, answered, log>>
        \/ WriteDown(body, pending, needles)
  BY DEF Submit, stateVars
<1>2. body \in Look /\ (body.kind = "return" => body.answer \in OperatorAnswers)
  BY AskedTypes DEF IInv
<1> QED
  BY <1>1, <1>2, PendingIsItself, WriteDownIsStep DEF IInv, SessionStep, Refused

\* A request whose look was answered is a step on the open record.
LEMMA AnswerIsStep ==
  ASSUME IInv, NEW r \in Requests, Answer(r)
  PROVE  LET before == noteCapture(sawEntries(r))
         IN SameButObserved(before) /\ SessionStep(before)
<1> DEFINE before == noteCapture(sawEntries(r))
<1>1. r \in Captors /\ Capture(r)
  BY DEF Answer, Captors
<1>2. sawEntries(r) \in SUBSET Secrets
  BY <1>1, CaptureTypes DEF IInv
<1>3. SameButObserved(before)
  BY <1>2, NoteCapture DEF IInv, SameButObserved
<1>4. WriteDown(looking[r], before, needles')
  BY DEF Answer
<1> HIDE DEF before
<1>5. looking[r] \in Look /\ (looking[r].kind = "return" => looking[r].answer \in OperatorAnswers)
  BY <1>1 DEF IInv, TypeOK, Looks
<1>6. SessionStep(before)
  BY <1>3, <1>4, <1>5, WriteDownIsStep DEF IInv
<1> QED
  BY <1>3, <1>6 DEF before

\* A request whose look was answered keeps the invariant.
LEMMA AnswerInvariant ==
  ASSUME IInv, NEW r \in Requests, Answer(r)
  PROVE  IInv'
<1>1. r \in Captors /\ Capture(r)
  BY DEF Answer, Captors
<1>2. /\ needles' \subseteq Secrets /\ screen' \in Watched /\ looking' \in [Captors -> Look]
  BY <1>1, CaptureTypes DEF IInv
<1>3. Looks' /\ screen'.on = screen.on
  BY <1>1, CaptureLooks
<1>4. PICK before : SameButObserved(before) /\ SessionStep(before)
  BY AnswerIsStep
<1> QED
  BY <1>2, <1>3, <1>4, SessionInvariant DEF Answer, worldVars

\* pause up to its first suspension keeps the invariant, raised or rolled back.
LEMMA RaiseInvariant ==
  ASSUME IInv, Raise
  PROVE  IInv'
<1> DEFINE ev == event("raise", raised + 1)
<1>1. UNCHANGED <<attached, resolved, screen, looking, needles, page, typed>>
  BY DEF Raise, watchVars, worldVars
<1>2. Looks'
  BY <1>1 DEF IInv, Looks, SeenIsAccountedFor
<1>3. CASE /\ told' = [episode |-> 0, result |-> "unwritable"]
           /\ UNCHANGED <<stateVars, raised, log, engine>>
  <2>1. UNCHANGED <<owner, pending, answered, raised, resolved, log, engine, screen>>
    BY <1>1, <1>3 DEF stateVars
  <2>2. TypeOK'
    BY <1>1, <1>3, <2>1 DEF IInv, TypeOK
  <2>3. Phases'
    BY <2>1 DEF IInv, Phases, HoldsControlWhileRunning
  <2>4. Answers' /\ Numbering'
    BY <2>1 DEF IInv, Answers, Numbering
  <2>5. EvidenceAgrees'
    BY <2>1 DEF IInv, EvidenceAgrees, AgreesWithLog, Recorded, EventsOf
  <2>6. ResumedOnlyOnRecord'
    BY <1>3 DEF ResumedOnlyOnRecord
  <2> QED
    BY <1>2, <2>2, <2>3, <2>4, <2>5, <2>6 DEF IInv
<1>4. CASE /\ owner' = "paused" /\ pending' = raise(raised + 1) /\ answered' = FALSE
           /\ raised' = raised + 1 /\ log' = log \cup {ev}
           /\ engine' = "baselining" /\ UNCHANGED told
  <2>1. raised + 1 \in Episodes /\ raised \in Nat
    BY DEF Raise, IInv, TypeOK, Episodes
  <2>2. ev \in Event /\ ev.episode = raised + 1 /\ ev.kind = "raise"
    BY <2>1, EventTypes DEF event
  <2>3. /\ pending' \in OpenRecord /\ pending' # NoEpisode /\ pending'.episode = raised + 1
        /\ pending'.classification = "open" /\ pending'.held = FALSE /\ pending'.notes = {}
    BY <1>4, <2>1, RaisedRecord, OpenIsNotNull
  <2>4. pending = NoEpisode /\ ~screen.on
    BY DEF Raise, IInv, Phases, HoldsControlWhileRunning
  <2> HIDE DEF ev
  <2>5. TypeOK'
    <3>1. raised' \in 0..MaxEpisodes
      BY <1>4, <2>1 DEF Episodes
    <3>2. owner' \in ControlOwner /\ answered' \in BOOLEAN
      BY <1>4 DEF ControlOwner
    <3> QED
      BY <1>1, <1>4, <2>2, <2>3, <3>1, <3>2 DEF IInv, TypeOK
  <2>6. Phases'
    BY <1>1, <1>4, <2>3, <2>4 DEF Phases, HoldsControlWhileRunning
  <2>7. Answers'
    BY <1>4, <2>3 DEF Answers
  <2>8. Numbering'
    <3>1. \A other \in log' : other.episode <= raised'
      BY <1>4, <2>1, <2>2 DEF IInv, Numbering, TypeOK, Event, Episodes
    <3>2. \A other \in log' : other.kind = "resolve" => other.answer # "open"
      BY <1>4, <2>2 DEF IInv, Numbering
    <3>3. \A record \in resolved' : record.episode \in 1..raised' /\ record.episode # pending'.episode
      BY <1>1, <1>4, <2>1, <2>3 DEF IInv, Numbering
    <3> QED
      BY <3>1, <3>2, <3>3 DEF Numbering
  <2>9. EvidenceAgrees'
    <3>1. ASSUME NEW record \in resolved PROVE AgreesWithLog(record)'
      <4>1. record.episode # raised + 1
        BY <2>1 DEF IInv, Numbering
      <4> QED
        BY <1>4, <2>2, <4>1, AgreesElsewhere DEF IInv, TypeOK, EvidenceAgrees
    <3>2. AgreesWithLog(pending)'
      <4>1. \A other \in log : other.episode # raised + 1
        BY <2>1 DEF IInv, Numbering, TypeOK, Event, Episodes
      <4> QED
        BY <1>4, <2>2, <2>3, <4>1 DEF AgreesWithLog, Recorded, EventsOf, OperatorAnswers
    <3> QED
      BY <1>1, <3>1, <3>2 DEF EvidenceAgrees
  <2>10. ResumedOnlyOnRecord'
    BY <1>4 DEF IInv, ResumedOnlyOnRecord, EventsOf
  <2> QED
    BY <1>2, <2>5, <2>6, <2>7, <2>8, <2>9, <2>10 DEF IInv
<1> QED
  BY <1>3, <1>4 DEF Raise

\* The end of pause keeps the invariant, whoever answered and whatever could
\* be written.
LEMMA SettleInvariant ==
  ASSUME IInv, Settle
  PROVE  IInv'
<1>1. /\ pending \in OpenRecord /\ pending # NoEpisode /\ pending.episode = raised
      /\ pending.episode \in Episodes
  BY OpenIsNotNull DEF Settle, IInv, Phases, TypeOK
<1>2. /\ Closed \in InterventionRecord /\ Closed.episode = pending.episode
      /\ Closed.held = pending.held /\ Closed.notes = pending.notes
      /\ Closed.classification =
           IF owner = "resume_requested" THEN pending.classification ELSE "unattended"
  <2>1. CASE owner = "resume_requested"
    BY <1>1, <2>1, OpenIsNotNull DEF Closed
  <2>2. CASE owner # "resume_requested"
    BY <1>1, <2>2, ClassificationUpdate, OpenIsNotNull DEF Closed, Classification
  <2> QED
    BY <2>1, <2>2
<1>3. /\ owner' = "automation" /\ pending' = NoEpisode /\ answered' = FALSE
      /\ resolved' = resolved \cup {Closed} /\ screen' = NotWatching
      /\ looking' = Outdated(looking) /\ engine' = "running"
      /\ UNCHANGED <<attached, raised, needles, page, typed>>
  BY DEF Settle, worldVars
<1> DEFINE ev == [event("resolve", pending.episode) EXCEPT !.answer = "unattended"]
<1>4. ev \in Event /\ ev.episode = pending.episode /\ ev.kind = "resolve" /\ ev.answer = "unattended"
  <2>1. event("resolve", pending.episode) \in Event
        /\ event("resolve", pending.episode).episode = pending.episode
        /\ event("resolve", pending.episode).kind = "resolve"
    BY <1>1, EventTypes DEF event
  <2> QED
    BY <2>1 DEF Event, Classification
<1>5. log' = log \/ (owner # "resume_requested" /\ log' = log \cup {ev})
  BY DEF Settle
<1>6. told' \in [episode: 0..MaxEpisodes, result: {"nothing", "resumed", "stopped", "unwritable"}]
  <2>1. pending.episode \in 0..MaxEpisodes
    BY <1>1 DEF Episodes
  <2> QED
    BY <2>1 DEF Settle
<1> HIDE DEF ev
<1>7. TypeOK'
  <2>1. owner' \in ControlOwner /\ answered' \in BOOLEAN /\ log' \subseteq Event
    BY <1>3, <1>4, <1>5 DEF ControlOwner, IInv, TypeOK
  <2> QED
    BY <1>2, <1>3, <1>6, <2>1, NullTypes, OutdatedType DEF IInv, TypeOK
<1>8. Phases'
  BY <1>3 DEF Phases, HoldsControlWhileRunning, NotWatching
<1>9. Answers'
  BY <1>3 DEF Answers, NoEpisode
<1>10. Numbering'
  <2>1. pending.episode \in 1..raised
    BY <1>1 DEF Episodes, IInv, TypeOK
  <2> QED
    BY <1>1, <1>2, <1>3, <1>4, <1>5, <2>1 DEF IInv, Numbering
<1>11. EvidenceAgrees'
  <2>1. ASSUME NEW record \in resolved PROVE AgreesWithLog(record)'
    <3>1. record.episode # pending.episode
      BY <1>1 DEF IInv, Numbering
    <3> QED
      BY <1>4, <1>5, <3>1, AgreesElsewhere DEF IInv, TypeOK, EvidenceAgrees
  <2>2. ASSUME NEW closed, closed = Closed PROVE AgreesWithLog(closed)'
    <3>1. AgreesWithLog(pending)
      BY <1>1 DEF IInv, EvidenceAgrees
    <3>2. \A other \in log : other.kind = "resolve" => other.answer # "open"
      BY DEF IInv, Numbering
    <3>3. CASE owner = "resume_requested"
      BY <1>2, <1>5, <2>2, <3>1, <3>3 DEF AgreesWithLog, Recorded, EventsOf
    <3>4. CASE owner # "resume_requested"
      <4>1. pending.classification = "open"
        BY <3>4 DEF IInv, Answers
      <4> QED
        BY <1>2, <1>4, <1>5, <2>2, <3>1, <3>2, <3>4, <4>1
           DEF AgreesWithLog, Recorded, EventsOf, OperatorAnswers
    <3> QED
      BY <3>3, <3>4
  <2>3. \A closed : closed = Closed => AgreesWithLog(closed)'
    BY <2>2
  <2> QED
    BY <1>3, <2>1, <2>3 DEF EvidenceAgrees
<1>12. ResumedOnlyOnRecord'
  <2>1. CASE told'.result # "resumed"
    BY <2>1 DEF ResumedOnlyOnRecord
  <2>2. CASE told'.result = "resumed"
    <3>1. /\ owner = "resume_requested" /\ told'.episode = pending.episode
          /\ pending.classification = "resolved" /\ log' = log
      BY <1>2, <2>2 DEF Settle
    <3>2. \E other \in EventsOf(pending.episode) :
            other.kind = "resolve" /\ other.answer = "resolved"
      BY <1>1, <3>1 DEF IInv, EvidenceAgrees, AgreesWithLog, Recorded, OperatorAnswers
    <3> QED
      BY <3>1, <3>2 DEF ResumedOnlyOnRecord, EventsOf
  <2> QED
    BY <2>1, <2>2
<1>13. Looks'
  <2>1. screen'.seen \subseteq screen'.baseline
    BY <1>3 DEF NotWatching
  <2> QED
    BY <1>3, <2>1, ReplacedScreenLooks
<1> QED
  BY <1>7, <1>8, <1>9, <1>10, <1>11, <1>12, <1>13 DEF IInv

\* A step that changes nothing keeps the invariant.
LEMMA StutterInvariant ==
  ASSUME IInv, UNCHANGED vars
  PROVE  IInv'
<1>1. Answers' /\ Numbering' /\ EvidenceAgrees' /\ ResumedOnlyOnRecord'
  BY QuietKeeps DEF vars
<1>2. TypeOK' /\ Phases' /\ Looks'
  BY DEF vars, IInv, TypeOK, Phases, HoldsControlWhileRunning, Looks, SeenIsAccountedFor
<1> QED
  BY <1>1, <1>2 DEF IInv

\* The strengthened invariant: every behaviour of the session stays in IInv.
THEOREM HandoffInvariant == Spec => []IInv
<1>1. IInv /\ [Next]_vars => IInv'
  BY OutsideInvariant, RaiseInvariant, BaselineInvariant, SettleInvariant,
     WatcherLooksInvariant, WatcherSeesInvariant, TakeControlInvariant,
     SubmitInvariant, AnswerInvariant, StutterInvariant DEF Next
<1> QED
  BY InitInvariant, <1>1, PTL DEF Spec

\* Every reachable state is of its type.
THEOREM HandoffTypeCorrect == Spec => []TypeOK
BY HandoffInvariant, PTL DEF IInv

\* While the run executes, nobody else has the session.
THEOREM HandoffHoldsControl == Spec => []HoldsControlWhileRunning
BY HandoffInvariant, PTL DEF IInv, Phases

\* A run that resumed did so on a resolution that is in the log.
THEOREM HandoffResumesOnRecord == Spec => []ResumedOnlyOnRecord
BY HandoffInvariant, PTL DEF IInv

\* Records and log tell the same story, whatever writes failed.
THEOREM HandoffEvidenceAgrees == Spec => []EvidenceAgrees
BY HandoffInvariant, PTL DEF IInv

\* No value is passed over as already seen.
THEOREM HandoffAccountsForSeen == Spec => []SeenIsAccountedFor
BY HandoffInvariant, PTL DEF IInv, Looks

-----------------------------------------------------------------------------
(* Handoff implements ControlOwnership                                      *)

\* A step on the open record is an arrow of the ownership machine, or none.
LEMMA SessionStepImplements ==
  ASSUME IInv, NEW before, SameButObserved(before), SessionStep(before),
         raised' = raised, told' = told
  PROVE  \/ Ownership!Take \/ Ownership!Return
         \/ UNCHANGED <<owner, raised, pending.classification, told>>
<1>1. CASE Refused(before)
  BY <1>1 DEF Refused, SameButObserved
<1>2. ASSUME NEW ev \in Event, Wrote(before, ev)
      PROVE  \/ Ownership!Take \/ Ownership!Return
             \/ UNCHANGED <<owner, raised, pending.classification, told>>
  <2>1. CASE Taken(ev)
    <3>1. pending \in OpenRecord
      BY <2>1 DEF Taken, IInv, TypeOK
    <3>2. pending'.classification = pending.classification
      BY <2>1, <3>1, HeldUpdate DEF Taken
    <3> QED
      BY <2>1, <3>2 DEF Taken, Ownership!Take
  <2>2. CASE Noted(before, ev)
    <3>1. before \in OpenRecord /\ ev.text \in Texts
      BY <2>2 DEF Noted, SameButObserved, Event
    <3>2. pending'.classification = before.classification
      BY <2>2, <3>1, NotesUpdate DEF Noted
    <3> QED
      BY <2>2, <3>2 DEF Noted, SameButObserved
  <2>3. CASE Returned(before, ev)
    <3>1. before \in OpenRecord /\ ev.answer \in Classification
      BY <2>3 DEF Returned, SameButObserved, Event
    <3>2. pending'.classification = ev.answer
      BY <2>3, <3>1, ClassificationUpdate DEF Returned
    <3> QED
      BY <2>3, <3>2 DEF Returned, Ownership!Return, OperatorAnswers
  <2> QED
    BY <1>2, <2>1, <2>2, <2>3 DEF Wrote
<1> QED
  BY <1>1, <1>2 DEF SessionStep

\* Every action of Handoff is a step of the ownership machine or a stutter.
LEMMA StepImplements ==
  ASSUME IInv, [Next]_vars
  PROVE  [Ownership!OwnershipNext]_(Ownership!ownershipVars)
<1> DEFINE Stutter == UNCHANGED <<owner, raised, pending.classification, told>>
<1> USE DEF Ownership!OwnershipNext, Ownership!ownershipVars
<1>1. CASE \/ Attach \/ Detach \/ Act \/ End \/ Wake \/ Expire \/ Baseline \/ WatcherLooks
           \/ \E s \in Secrets : Type(s) \/ Disappear(s)
  <2>1. Stutter
    BY <1>1 DEF Attach, Detach, Act, End, Wake, Expire, Awake, Baseline, WatcherLooks,
       Type, Disappear, stateVars
  <2> QED
    BY <2>1
<1>2. CASE UNCHANGED vars
  BY <1>2 DEF vars
<1>3. CASE Raise
  <2>1. CASE told' = [episode |-> 0, result |-> "unwritable"] /\ UNCHANGED <<stateVars, raised>>
    BY <1>3, <2>1 DEF Raise, stateVars, Ownership!PauseUnwritable
  <2>2. CASE /\ owner' = "paused" /\ pending' = raise(raised + 1)
             /\ raised' = raised + 1 /\ told' = told
    <3>1. raised + 1 \in Episodes
      BY <1>3 DEF Raise, IInv, TypeOK, Episodes
    <3>2. pending'.classification = "open" /\ pending.classification = "open"
      BY <1>3, <2>2, <3>1, RaisedRecord DEF Raise, IInv, Answers
    <3> QED
      BY <1>3, <2>2, <3>2 DEF Raise, Ownership!Pause
  <2> QED
    BY <1>3, <2>1, <2>2 DEF Raise
<1>4. CASE Settle
  <2>1. pending.episode = raised /\ owner # "automation"
    BY <1>4 DEF Settle, IInv, Phases
  <2>2. pending'.classification = "open" /\ owner' = "automation" /\ raised' = raised
    BY <1>4 DEF Settle, NoEpisode
  <2>3. CASE owner = "resume_requested"
    <3>1. Closed = pending
      BY <2>3 DEF Closed
    <3> QED
      BY <1>4, <2>1, <2>2, <2>3, <3>1 DEF Settle, Ownership!TakeBack
  <2>4. CASE owner # "resume_requested"
    <3>1. owner \in {"paused", "operator"}
      BY <2>1, <2>4 DEF IInv, TypeOK, ControlOwner
    <3> QED
      BY <1>4, <2>1, <2>2, <2>4, <3>1 DEF Settle, Ownership!GiveUp
  <2> QED
    BY <2>3, <2>4
<1>5. CASE WatcherSees
  <2>1. pending'.classification = pending.classification
    BY <1>5, CaptureTypes, NoteCapture DEF WatcherSees, Captors, IInv
  <2> QED
    BY <1>5, <2>1 DEF WatcherSees
<1>6. CASE TakeControl
  <2>1. SessionStep(pending)
    BY <1>6, TakeControlIsStep
  <2> QED
    BY <1>6, <2>1, PendingIsItself, SessionStepImplements DEF TakeControl, IInv
<1>7. ASSUME NEW r \in Requests, Submit(r)
      PROVE  [Ownership!OwnershipNext]_(Ownership!ownershipVars)
  <2>1. SessionStep(pending)
    BY <1>7, SubmitIsStep
  <2> QED
    BY <1>7, <2>1, PendingIsItself, SessionStepImplements DEF Submit, IInv
<1>8. ASSUME NEW r \in Requests, Answer(r)
      PROVE  [Ownership!OwnershipNext]_(Ownership!ownershipVars)
  <2>1. PICK before : SameButObserved(before) /\ SessionStep(before)
    BY <1>8, AnswerIsStep
  <2> QED
    BY <1>8, <2>1, SessionStepImplements DEF Answer
<1> QED
  BY <1>1, <1>2, <1>3, <1>4, <1>5, <1>6, <1>7, <1>8 DEF Next

\* The session behaves as the ownership machine of Session.ts says it does:
\* four owners, its arrows, and no resumption without an answer that resolves.
THEOREM HandoffImplementsOwnership == Spec => ImplementsOwnership
<1>1. Init => Ownership!OwnershipInit
  BY DEF Init, Ownership!OwnershipInit, NoEpisode
<1> QED
  BY HandoffInvariant, <1>1, StepImplements, PTL
     DEF Spec, ImplementsOwnership, Ownership!OwnershipSpec
=============================================================================
