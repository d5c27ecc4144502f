------------------------------- MODULE Handoff -------------------------------
(***************************************************************************)
(* One browser Session that a run hands to a person and takes back:        *)
(* packages/session/src/Handoff.ts, with the screen watch of Watching.ts.   *)
(*                                                                         *)
(* Everything runs on one JavaScript thread, and the evidence writer that   *)
(* ships is synchronous, so the code between two suspension points is one   *)
(* action here: a transition, its event and the rollback of an unwritable   *)
(* event are one step.  The points where another fiber may run are          *)
(*   - the look at the live screen (`watch.entries`, a browser round trip)  *)
(*     in pause, in the watching fiber, in noteAction and in returnControl; *)
(*   - the wait on the Deferred, and the interruption of the watcher.       *)
(*                                                                         *)
(* Data kept: a Secret is a value a person types, and the field it is typed *)
(* in; a text is the secret a note or a reason quotes, or NoText.  Names,   *)
(* dates, wording and the two next-time answers are left out (Learning      *)
(* models what is made of the answers), and so is intervention.observed,    *)
(* an event whose failure is ignored.  A call refused before it touches the *)
(* state (blank name, blank reason, pause with nobody attached) is a         *)
(* stuttering step.                                                        *)
(***************************************************************************)
EXTENDS Naturals

CONSTANTS
  Secrets,      \* values a person may type into the live window
  Requests,     \* operator requests that may be in the server at one time
  Watcher,      \* the fiber that looks at the screen while the run is parked
  NoText,       \* a note or reason that quotes nothing
  MaxEpisodes   \* bound: interventions one session may raise

ASSUME HandoffAssumption ==
  /\ Watcher \notin Requests
  /\ NoText \notin Secrets
  /\ MaxEpisodes \in Nat \ {0}

VARIABLES
  owner,      \* State.owner: who may act
  attached,   \* State.operatorUrl is defined
  pending,    \* State.pending.record, or NoEpisode
  answered,   \* the Deferred of the pending episode has been completed
  raised,     \* State.raised
  resolved,   \* State.resolved, the closed records
  screen,     \* the Ref `screen`: what is watched and what has been seen on it
  looking,    \* looks at the screen in progress, by who is waiting for them
  engine,     \* where the run is: running, or inside pause
  told,       \* what the last pause that raised an episode gave its caller
  needles,    \* values registered with Evidence.redact
  log,        \* intervention events on disk
  page,       \* values a field of the live page is holding
  typed       \* <<e, s>>: a person typed s while holding episode e

stateVars == <<owner, pending, answered>>
watchVars == <<screen, looking>>
worldVars == <<page, typed>>
vars == <<owner, attached, pending, answered, raised, resolved, screen,
          looking, engine, told, needles, log, page, typed>>

-----------------------------------------------------------------------------
(* Types and null values                                                    *)

ControlOwner == {"automation", "paused", "operator", "resume_requested"}
\* `blocked` differs from `unresolved` only in the sentence a caller is given.
OperatorAnswers == {"resolved", "unresolved"}
Classification == OperatorAnswers \cup {"open", "unattended"}
Episodes == 1..MaxEpisodes
Texts == Secrets \cup {NoText}
Captors == Requests \cup {Watcher}

\* `held` stands for operator and tookControlAt, which are set together.
InterventionRecord ==
  [episode: 0..MaxEpisodes, held: BOOLEAN, observed: SUBSET Secrets,
   notes: SUBSET Texts, classification: Classification]

NoEpisode == [episode |-> 0, held |-> FALSE, observed |-> {}, notes |-> {},
              classification |-> "open"]

OpenRecord == {record \in InterventionRecord : record.episode # 0}

raise(e) == [episode |-> e, held |-> FALSE, observed |-> {}, notes |-> {},
             classification |-> "open"]

\* What pause saw first (never registered) and all that is accounted for since.
Watched == [on: BOOLEAN, baseline: SUBSET Secrets, seen: SUBSET Secrets]
NotWatching == [on |-> FALSE, baseline |-> {}, seen |-> {}]

\* A look in progress: on whose behalf, the words it will write, the episode
\* it was asked in, the WatchState it started from, and whether `screen` is
\* still the object it started from.
Look == [kind: {"idle", "watch", "note", "return"}, text: Texts,
         answer: Classification, issued: 0..MaxEpisodes,
         seen: SUBSET Secrets, current: BOOLEAN]
Idle == [kind |-> "idle", text |-> NoText, answer |-> "open", issued |-> 0,
         seen |-> {}, current |-> FALSE]

\* An event, the words it quotes, and the secrets it put on disk unredacted.
Event == [kind: {"raise", "human_action", "note", "resolve"},
          episode: Episodes, text: Texts, clear: SUBSET Secrets,
          answer: Classification, issued: 0..MaxEpisodes]
event(kind, e) == [kind |-> kind, episode |-> e, text |-> NoText, clear |-> {},
                   answer |-> "open", issued |-> e]

TypeOK ==
  /\ owner \in ControlOwner
  /\ attached \in BOOLEAN
  /\ pending \in OpenRecord \cup {NoEpisode}
  /\ answered \in BOOLEAN
  /\ raised \in 0..MaxEpisodes
  /\ resolved \subseteq InterventionRecord
  /\ screen \in Watched
  /\ looking \in [Captors -> Look]
  /\ engine \in {"running", "baselining", "parked", "waking", "ended"}
  /\ told \in [episode: 0..MaxEpisodes,
               result: {"nothing", "resumed", "stopped", "unwritable"}]
  /\ needles \subseteq Secrets
  /\ log \subseteq Event
  /\ page \subseteq Secrets
  /\ typed \subseteq Episodes \X Secrets

Init ==
  /\ owner = "automation" /\ attached = FALSE
  /\ pending = NoEpisode /\ answered = FALSE
  /\ raised = 0 /\ resolved = {}
  /\ screen = NotWatching /\ looking = [c \in Captors |-> Idle]
  /\ engine = "running" /\ told = [episode |-> 0, result |-> "nothing"]
  /\ needles = {} /\ log = {} /\ page = {} /\ typed = {}

-----------------------------------------------------------------------------
(* Helpers                                                                  *)

\* `screen` now holds another object: no look in progress started from it.
Outdated(looks) == [c \in Captors |-> [looks[c] EXCEPT !.current = FALSE]]

\* sawEntries: the values on the page this look has not accounted for.
sawEntries(c) == page \ looking[c].seen

\* Mutant: `seen` is put back whatever `screen` holds by now.
Capture_AlwaysCurrent(c) ==
  /\ needles' = needles \cup sawEntries(c)
  /\ screen' = [screen EXCEPT !.seen = looking[c].seen \cup page]
  /\ looking' = [Outdated(looking) EXCEPT ![c] = Idle]

\* capture, from the browser's answer on: remember what was seen if `screen`
\* is still the one the look started from, and register what is new.
Capture(c) ==
  /\ needles' = needles \cup sawEntries(c)
  /\ IF looking[c].current
     THEN /\ screen' = [screen EXCEPT !.seen = looking[c].seen \cup page]
          /\ looking' = [Outdated(looking) EXCEPT ![c] = Idle]
     ELSE /\ looking' = [looking EXCEPT ![c] = Idle]
          /\ UNCHANGED screen

\* noteCapture: the fields go on whichever episode is pending by now.
noteCapture(fields) ==
  IF pending = NoEpisode THEN pending ELSE [pending EXCEPT !.observed = @ \cup fields]

\* rollBack: the event could not be written, so the state is what it was.
RolledBack(record) ==
  /\ pending' = record
  /\ UNCHANGED <<owner, answered, log>>

\* Mutant: the state stays committed when the event cannot be written.
Transition_NoRollBack(expected, before, record, next, completes, written) ==
  \/ /\ owner = expected /\ before # NoEpisode
     /\ pending' = record /\ owner' = next /\ answered' = completes
     /\ log' = log \cup {written}
  \/ /\ owner = expected /\ before # NoEpisode
     /\ pending' = record /\ owner' = next
     /\ UNCHANGED <<answered, log>>

\* Mutant: the owner is not asked for.
Transition_AnyOwner(expected, before, record, next, completes, written) ==
  \/ /\ before # NoEpisode
     /\ pending' = record /\ owner' = next /\ answered' = completes
     /\ log' = log \cup {written}
  \/ RolledBack(before)

\* transition: commit and write the event, or refuse, or roll back.  `before`
\* is the record as the capture just left it.
Transition(expected, before, record, next, completes, written) ==
  \/ /\ owner = expected /\ before # NoEpisode
     /\ pending' = record /\ owner' = next /\ answered' = completes
     /\ log' = log \cup {written}
  \/ RolledBack(before)

\* Mutant: returnControl gives the session straight back to automation.
WriteDown_ResumesItself(body, before, known) ==
  LET said == [event("resolve", before.episode) EXCEPT !.issued = body.issued,
                 !.answer = body.answer]
  IN /\ body.kind = "return"
     /\ Transition("operator", before,
          [before EXCEPT !.classification = body.answer], "automation", TRUE, said)

\* The body of noteAction and returnControl once the screen was looked at.
\* EvidenceWriter scrubs on write, hence `known`, the needles by then.
WriteDown(body, before, known) ==
  LET said == [event("note", before.episode) EXCEPT
                 !.text = body.text, !.issued = body.issued,
                 !.clear = {body.text} \cap (Secrets \ known)]
  IN \/ /\ body.kind = "note"
        /\ Transition("operator", before,
             [before EXCEPT !.notes = @ \cup {body.text}], "operator", answered, said)
     \/ /\ body.kind = "return"
        /\ Transition("operator", before,
             [before EXCEPT !.classification = body.answer], "resume_requested", TRUE,
             [said EXCEPT !.kind = "resolve", !.answer = body.answer])

-----------------------------------------------------------------------------
(* The automation's half: claim, pause and the wait                         *)

\* serveOperator attaches the interface when it starts and detaches when its
\* scope closes, which the programs open around the whole run.
Attach ==
  /\ engine = "running" /\ ~attached
  /\ attached' = TRUE
  /\ UNCHANGED <<stateVars, raised, resolved, watchVars, engine, told, needles, log, worldVars>>

Detach ==
  /\ engine = "ended" /\ attached
  /\ attached' = FALSE
  /\ UNCHANGED <<stateVars, raised, resolved, watchVars, engine, told, needles, log, worldVars>>

\* claim: refused unless automation owns the session.  What the Action does
\* to the page is not known here: any value may leave its field.
Act ==
  /\ engine = "running" /\ owner = "automation"
  /\ page' \in SUBSET page
  /\ UNCHANGED <<stateVars, attached, raised, resolved, watchVars, engine, told, needles, log, typed>>

\* pause, up to its first suspension: AUTOMATION -> PAUSED and the raise event,
\* or neither.  With nobody attached or control elsewhere, nothing happens.
Raise ==
  /\ engine = "running" /\ attached /\ owner = "automation"
  /\ raised < MaxEpisodes
  /\ \/ /\ owner' = "paused" /\ pending' = raise(raised + 1) /\ answered' = FALSE
        /\ raised' = raised + 1
        /\ log' = log \cup {event("raise", raised + 1)}
        /\ engine' = "baselining"
        /\ UNCHANGED told
     \/ /\ told' = [episode |-> 0, result |-> "unwritable"]
        /\ UNCHANGED <<stateVars, raised, log, engine>>
  /\ UNCHANGED <<attached, resolved, watchVars, needles, worldVars>>

\* The browser answers the first look: beganWith, and the watcher is forked.
Baseline ==
  /\ engine = "baselining"
  /\ screen' = [on |-> TRUE, baseline |-> page, seen |-> page]
  /\ looking' = Outdated(looking)
  /\ engine' = "parked"
  /\ UNCHANGED <<stateVars, attached, raised, resolved, told, needles, log, worldVars>>

\* The Deferred is completed, or the wait expires, whichever comes first; the
\* watcher is interrupted, and a look it had in progress is abandoned.
Awake ==
  /\ engine' = "waking"
  /\ looking' = [looking EXCEPT ![Watcher] = Idle]
  /\ UNCHANGED <<stateVars, attached, raised, resolved, screen, told, needles, log, worldVars>>

Wake == engine = "parked" /\ answered /\ Awake

\* Mutant: the bound covers the wait for a person, not what the person does.
Expire_OnlyUntaken == engine = "parked" /\ owner = "paused" /\ Awake

Expire == engine = "parked" /\ ~answered /\ Awake

\* RESUME_REQUESTED -> AUTOMATION, decided by the state and not by the race.
Closed == IF owner = "resume_requested" THEN pending
          ELSE [pending EXCEPT !.classification = "unattended"]

\* Mutant: the answer is read after the episode was closed.
Settle_ReadsAfterClosing ==
  /\ engine = "waking"
  /\ owner' = "automation" /\ pending' = NoEpisode /\ answered' = FALSE
  /\ resolved' = resolved \cup {Closed}
  /\ screen' = NotWatching /\ looking' = Outdated(looking)
  /\ engine' = "running"
  /\ told' = [episode |-> pending.episode,
              result |-> IF pending'.classification = "resolved"
                         THEN "resumed" ELSE "stopped"]
  /\ UNCHANGED <<attached, raised, needles, log, worldVars>>

Settle ==
  /\ engine = "waking"
  /\ owner' = "automation" /\ pending' = NoEpisode /\ answered' = FALSE
  /\ resolved' = resolved \cup {Closed}
  /\ screen' = NotWatching /\ looking' = Outdated(looking)
  /\ engine' = "running"
  /\ \/ /\ owner = "resume_requested"
        /\ told' = [episode |-> pending.episode,
                    result |-> IF Closed.classification = "resolved"
                               THEN "resumed" ELSE "stopped"]
        /\ UNCHANGED log
     \/ /\ owner # "resume_requested"
        /\ told' = [episode |-> pending.episode, result |-> "stopped"]
        /\ log' = log \cup {[event("resolve", pending.episode) EXCEPT
                               !.answer = "unattended"]}
     \/ /\ owner # "resume_requested"
        /\ told' = [episode |-> pending.episode, result |-> "unwritable"]
        /\ UNCHANGED log
  /\ UNCHANGED <<attached, raised, needles, worldVars>>

End ==
  /\ engine = "running"
  /\ engine' = "ended"
  /\ UNCHANGED <<stateVars, attached, raised, resolved, watchVars, told, needles, log, worldVars>>

\* The parked run keeps its eyes open: one turn of the watching fiber.
WatcherLooks ==
  /\ engine = "parked" /\ looking[Watcher] = Idle
  /\ looking' = [looking EXCEPT ![Watcher] =
       [Idle EXCEPT !.kind = "watch", !.seen = screen.seen, !.current = TRUE]]
  /\ UNCHANGED <<stateVars, attached, raised, resolved, screen, engine, told, needles, log, worldVars>>

WatcherSees ==
  /\ looking[Watcher] # Idle
  /\ Capture(Watcher)
  /\ pending' = noteCapture(sawEntries(Watcher))
  /\ UNCHANGED <<owner, attached, answered, raised, resolved, engine, told, log, worldVars>>

-----------------------------------------------------------------------------
(* The operator's half: takeControl, noteAction, returnControl              *)

TakeControl ==
  /\ Transition("paused", pending, [pending EXCEPT !.held = TRUE], "operator", answered,
       event("human_action", pending.episode))
  /\ UNCHANGED <<attached, raised, resolved, watchVars, engine, told, needles, worldVars>>

\* What a person may ask for in the interface: the words quote a value they
\* have typed, or nothing.
Asked ==
  {[Idle EXCEPT !.kind = "note", !.text = t, !.issued = pending.episode] :
     t \in {NoText} \cup {s \in Secrets : \E e \in Episodes : <<e, s>> \in typed}}
  \cup
  {[Idle EXCEPT !.kind = "return", !.answer = a, !.issued = pending.episode] :
     a \in OperatorAnswers}

\* A request starts by looking at the screen.  With no screen to look at, the
\* look is skipped and the rest follows without a suspension.
Submit(r) ==
  /\ engine # "ended" /\ looking[r] = Idle
  /\ \E body \in Asked :
       \/ /\ screen.on
          /\ looking' = [looking EXCEPT ![r] =
               [body EXCEPT !.seen = screen.seen, !.current = TRUE]]
          /\ UNCHANGED <<stateVars, log>>
       \/ /\ ~screen.on
          /\ WriteDown(body, pending, needles)
          /\ UNCHANGED looking
  /\ UNCHANGED <<attached, raised, resolved, screen, engine, told, needles, worldVars>>

\* The browser answers, and the request writes what it was asked to.
Answer(r) ==
  /\ engine # "ended" /\ looking[r] # Idle
  /\ Capture(r)
  /\ WriteDown(looking[r], noteCapture(sawEntries(r)), needles')
  /\ UNCHANGED <<attached, raised, resolved, engine, told, worldVars>>

-----------------------------------------------------------------------------
(* The live window                                                          *)

\* Somebody who holds the session types a value the page shows in its field.
Type(s) ==
  /\ owner = "operator"
  /\ page' = page \cup {s}
  /\ typed' = typed \cup {<<pending.episode, s>>}
  /\ UNCHANGED <<stateVars, attached, raised, resolved, watchVars, engine, told, needles, log>>

\* A form is posted or a field emptied: the value is nowhere on the screen.
Disappear(s) ==
  /\ s \in page /\ owner # "automation"
  /\ page' = page \ {s}
  /\ UNCHANGED <<stateVars, attached, raised, resolved, watchVars, engine, told, needles, log, typed>>

Next ==
  \/ Attach \/ Detach \/ Act \/ Raise \/ Baseline \/ Wake \/ Expire \/ Settle \/ End
  \/ WatcherLooks \/ WatcherSees
  \/ TakeControl
  \/ \E r \in Requests : Submit(r) \/ Answer(r)
  \/ \E s \in Secrets : Type(s) \/ Disappear(s)

\* The run's own continuations are scheduled by the runtime: a browser look
\* always answers (`entries` never fails), the wait is bounded, and the woken
\* fiber runs.  Nothing is assumed of the person, nor of the watching fiber.
Fairness ==
  /\ WF_vars(Baseline) /\ WF_vars(Wake \/ Expire) /\ WF_vars(Settle)

Spec == Init /\ [][Next]_vars

FairSpec == Spec /\ Fairness

-----------------------------------------------------------------------------
(* Properties                                                               *)

EventsOf(e) == {ev \in log : ev.episode = e}
Recorded(kind, e) == \E ev \in EventsOf(e) : ev.kind = kind

\* "A state machine that is lying" would be one where the run is executing
\* while somebody else has the session: whenever the run is not inside pause,
\* automation owns the session, no episode is open and nothing is watched.
\* It takes every path out of pause (refused, unwritable, expired, returned)
\* to keep this.
HoldsControlWhileRunning ==
  engine \in {"running", "ended"} =>
    owner = "automation" /\ pending = NoEpisode /\ ~screen.on

\* A run resumes only on an episode whose resolution is in the log: the case
\* the rollback of returnControl was written for.
ResumedOnlyOnRecord ==
  told.result = "resumed" =>
    \E ev \in EventsOf(told.episode) : ev.kind = "resolve" /\ ev.answer = "resolved"

\* "Evidence and the state machine move together": what a record says a person
\* did and what the log says they did are the same, for the open episode and
\* for the closed ones, whatever writes failed and were tried again; and no
\* episode is resolved twice, or in two ways.
AgreesWithLog(record) ==
  /\ record.held <=> Recorded("human_action", record.episode)
  /\ \A t \in Texts :
       t \in record.notes <=> \E ev \in EventsOf(record.episode) : ev.kind = "note" /\ ev.text = t
  /\ record.classification \in OperatorAnswers => Recorded("resolve", record.episode)
  /\ \A ev \in EventsOf(record.episode) :
       ev.kind = "resolve" => ev.answer = record.classification

EvidenceAgrees ==
  \A record \in resolved \cup ({pending} \ {NoEpisode}) : AgreesWithLog(record)

\* Nothing is skipped as already seen unless it was there when this episode's
\* watch began or has been registered, whichever looks overlap and however
\* late one of an earlier episode answers.
SeenIsAccountedFor == screen.seen \subseteq screen.baseline \cup needles

\* The bound on the wait: an episode never keeps the session for ever, whatever
\* the person does or fails to do.
EveryEpisodeSettles == owner # "automation" ~> owner = "automation"

\* A return that was recorded as resolved resumes the run, also when the wait
\* expired in the same instant.
RecordedReturnResumes ==
  \A e \in Episodes :
    (\E ev \in EventsOf(e) : ev.kind = "resolve" /\ ev.answer = "resolved")
      ~> told = [episode |-> e, result |-> "resumed"]

\* The whole of it implements the ownership machine of Session.ts: four states,
\* changed along its arrows only, and resumed only by an answer that resolves.
Ownership == INSTANCE ControlOwnership WITH
  episode <- raised, answer <- pending.classification

ImplementsOwnership == Ownership!OwnershipSpec

-----------------------------------------------------------------------------
(* What the comments say and the code does not do                           *)

=============================================================================
