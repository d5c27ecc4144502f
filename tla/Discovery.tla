------------------------------ MODULE Discovery -------------------------------
(***************************************************************************)
(* One run of the agent: packages/agent/src/loop.ts with the detector of    *)
(* Stuck.ts, over the Session of ControlOwnership.                          *)
(*                                                                         *)
(* The loop is one fiber, so a turn is two actions: up to the observation   *)
(* the model decides from, and what its reply leads to.  What the screen    *)
(* shows, what the model proposes, what policy says and when the deadline   *)
(* passes are choices of the environment.  A proposal is abstracted to what *)
(* becomes of it; a screen to its signature.                                *)
(***************************************************************************)
EXTENDS Integers, Sequences, FiniteSets

CONSTANTS
  Bounds,      \* the StuckBounds a run may be given
  Screens,     \* signatures of a screen
  Names,       \* what the model may call a reading (`bindAs`)
  Controls,    \* what may be read
  NoScreen,    \* nothing observed yet
  MaxEpisodes  \* bound: episodes of the Session

VARIABLES
  bounds, attended,  \* what the run was given: it never changes
  at,            \* where the loop is
  attempted,     \* turns begun
  unusable,      \* unusable responses in a row
  shown,         \* lastState
  detector,      \* what the detector of this stretch knows
  readings,      \* names and controls read
  performed,     \* how many actions are in the trajectory
  outputs,       \* the readings the model claims as the answer
  interventions, \* times a person was asked for
  helped,        \* steps recorded when a person last handed back
  armed, late,   \* the Surface has the deadline; it has passed
  stop,          \* why the run is stopping, and whether a person's help lets it go on
  owner, episode, answer, told,  \* the Session
  outcome, ended, result,        \* the log, and what the caller is given
  lap,           \* history: screens acted on since the last hand-back
  landed         \* history: operations on the page

fixed == <<bounds, attended>>
stretch == <<detector, lap>>
record == <<readings, performed, outputs>>
session == <<owner, episode, answer, told>>
help == <<interventions, helped, armed>>
log == <<outcome, ended>>
vars == <<fixed, at, attempted, unusable, shown, stretch, record, help, late, stop, session,
          log, result, landed>>

Session == INSTANCE ControlOwnership

UNUSABLE_RESPONSES_ALLOWED == 3

StuckBounds == [repeatsAllowed: Nat \ {0}, ineffectiveAllowed: Nat \ {0}, maxSteps: Nat \ {0},
                resolutionFailuresAllowed: Nat \ {0}]

ASSUME DiscoveryAssumption ==
  Bounds \subseteq StuckBounds /\ NoScreen \notin Screens /\ MaxEpisodes \in Nat \ {0}

-----------------------------------------------------------------------------
(* The detector                                                             *)

Detector == [seen: [Screens -> Nat], previous: Screens \cup {NoScreen},
             ineffective: Nat, failures: Nat]

stuckDetector == [seen |-> [s \in Screens |-> 0], previous |-> NoScreen,
                  ineffective |-> 0, failures |-> 0]

Ineffective(screen) == IF detector.previous = screen THEN detector.ineffective + 1 ELSE 0
Seen(screen) == detector.seen[screen] + 1

\* Mutant: a read is an observation like any other.
observed_CountsReads(screen, readOnly) ==
  [detector EXCEPT !.previous = screen, !.ineffective = Ineffective(screen),
                   !.seen[screen] = Seen(screen), !.failures = 0]

\* Mutant: a read writes the screen down anew.
observed_ReadForgets(screen, readOnly) ==
  IF readOnly THEN [detector EXCEPT !.seen[screen] = 0, !.failures = 0]
  ELSE [detector EXCEPT !.previous = screen, !.ineffective = Ineffective(screen),
                        !.seen[screen] = Seen(screen), !.failures = 0]

\* observe, and resolutionSucceeded before it: a read is transparent.
observed(screen, readOnly) ==
  IF readOnly THEN [detector EXCEPT !.failures = 0]
  ELSE [detector EXCEPT !.previous = screen, !.ineffective = Ineffective(screen),
                        !.seen[screen] = Seen(screen), !.failures = 0]

\* The specific complaints first, then the bounds every observation is held to.
verdict(screen, readOnly, overdue) ==
  IF ~readOnly /\ Ineffective(screen) >= bounds.ineffectiveAllowed THEN "no_effect"
  ELSE IF ~readOnly /\ Seen(screen) > bounds.repeatsAllowed THEN "cycle"
  ELSE IF attempted >= bounds.maxSteps THEN "max_steps"
  ELSE IF overdue THEN "deadline" ELSE "none"

-----------------------------------------------------------------------------
(* The run                                                                  *)

Triggers == {"cycle", "no_effect", "max_steps", "deadline", "resolution_failures", "escalated"}
Places == {"opening", "turning", "deciding", "stalling", "paused", "failing", "concluding", "done"}
NoStop == [trigger |-> "none", goesOn |-> FALSE]

TypeOK ==
  /\ bounds \in Bounds /\ attended \in BOOLEAN
  /\ at \in Places
  /\ attempted \in 0..(bounds.maxSteps + 1)
  /\ unusable \in 0..UNUSABLE_RESPONSES_ALLOWED
  /\ shown \in Screens \cup {NoScreen}
  /\ detector \in Detector
  /\ readings \subseteq Names \X Controls /\ performed \in Nat /\ outputs \subseteq Names
  /\ interventions \in 0..1 /\ helped \in Nat \cup {-1}
  /\ armed \in BOOLEAN /\ late \in BOOLEAN
  /\ stop \in [trigger: Triggers \cup {"none", "reached", "refused"}, goesOn: BOOLEAN]
  /\ owner \in {"automation", "paused", "operator", "resume_requested"}
  /\ episode \in 0..MaxEpisodes
  /\ outcome \in {"none", "STUCK", "ESCALATED", "SUCCESS"}
  /\ ended \in {"none", "success", "intervention_required", "failure"}
  /\ result \in {"none", "reached", "stuck", "failed", "broken", "unwritable"}
  /\ lap \in Seq(Screens)
  /\ landed \in Nat

Init ==
  /\ bounds \in Bounds /\ attended \in BOOLEAN
  /\ at = "opening" /\ attempted = 0 /\ unusable = 0 /\ shown = NoScreen
  /\ detector = stuckDetector
  /\ readings = {} /\ performed = 0 /\ outputs = {}
  /\ interventions = 0 /\ helped = -1
  /\ armed = TRUE /\ late = FALSE
  /\ stop = NoStop
  /\ Session!OwnershipInit
  /\ outcome = "none" /\ ended = "none" /\ result = "none"
  /\ lap = <<>> /\ landed = 0

\* session.claim, before everything the loop does to the page.
Claimed == owner = "automation"

\* The run is stopping; `goesOn`: it goes on if a person puts it right.
Stops(trigger, goesOn) ==
  /\ stop' = [trigger |-> trigger, goesOn |-> goesOn]
  /\ at' = "stalling"

\* An error leaves the run; the Surface is released on the way out.
Leaves(error) ==
  /\ result' = error /\ at' = "done" /\ armed' = FALSE

-----------------------------------------------------------------------------
(* Turns                                                                    *)

Open ==
  /\ at = "opening"
  /\ \/ Claimed /\ ~late /\ at' = "turning" /\ UNCHANGED stop
     \/ at' = "concluding" /\ stop' = [NoStop EXCEPT !.trigger = "refused"]
     \/ at' = "failing" /\ UNCHANGED stop
  /\ UNCHANGED <<fixed, attempted, unusable, shown, stretch, record, help, late, session, log,
                 result, landed>>

\* The top of the loop, up to the screen the model decides from.
Turn ==
  /\ at = "turning"
  /\ attempted' = attempted + 1
  /\ \/ late /\ Stops("deadline", FALSE) /\ UNCHANGED <<shown, outcome>>
     \/ /\ ~late /\ attempted' > bounds.maxSteps
        /\ Stops("max_steps", FALSE) /\ outcome' = "STUCK" /\ UNCHANGED shown
     \/ /\ ~late /\ attempted' <= bounds.maxSteps
        /\ shown' \in Screens /\ at' = "deciding" /\ UNCHANGED <<stop, outcome>>
     \/ /\ ~late /\ attempted' <= bounds.maxSteps
        /\ at' = "failing" /\ UNCHANGED <<shown, stop, outcome>>
  /\ UNCHANGED <<fixed, unusable, stretch, record, help, late, session, ended, result, landed>>

\* The model is asked; what follows is one of the actions below.
Decides == at = "deciding"

\* No reply before the deadline.
ModelIsLate ==
  /\ Decides
  /\ late' = TRUE /\ Stops("deadline", FALSE)
  /\ UNCHANGED <<fixed, attempted, unusable, shown, stretch, record, help, session, log, result, landed>>

\* No reply that another question would mend, or one too many that it would.
ModelFails ==
  /\ Decides
  /\ \/ at' = "failing" /\ UNCHANGED unusable
     \/ /\ unusable' = unusable + 1
        /\ at' = IF unusable' >= UNUSABLE_RESPONSES_ALLOWED THEN "failing" ELSE "turning"
  /\ UNCHANGED <<fixed, attempted, shown, stretch, record, help, late, stop, session, log, result, landed>>

\* Every correction that is no failure to resolve a target: no action chosen, an
\* undecodable or mis-tagged one, prose that quotes, a reading or a claim that is
\* refused, a denial by policy, a control that reads as empty.
Corrected ==
  /\ Decides
  /\ unusable' = 0 /\ at' = "turning"
  /\ UNCHANGED <<fixed, attempted, shown, stretch, record, help, late, stop, session, log, result, landed>>

Escalates ==
  /\ Decides
  /\ unusable' = 0 /\ outcome' = "ESCALATED" /\ Stops("escalated", TRUE)
  /\ UNCHANGED <<fixed, attempted, shown, stretch, record, help, late, session, ended, result, landed>>

NamesRead == {reading[1] : reading \in readings}
ControlsRead == {reading[2] : reading \in readings}

\* Mutant: a claim is checked only for naming something.
Backed_ByAnything(claimed) == claimed # {}

\* The claim of the model names readings, and at least one.
Backed(claimed) == claimed # {} /\ claimed \subseteq NamesRead

Succeeds ==
  /\ Decides
  /\ \E claimed \in SUBSET Names : Backed(claimed) /\ outputs' = claimed
  /\ unusable' = 0 /\ outcome' = "SUCCESS"
  /\ stop' = [trigger |-> "reached", goesOn |-> FALSE]
  /\ at' = "concluding"
  /\ UNCHANGED <<fixed, attempted, shown, stretch, readings, performed, help, late, session, ended,
                 result, landed>>

\* The Surface fails every operation once its deadline has passed.
InTime == ~(armed /\ late)

\* A target that names nothing or too much, or a Surface that fails, which may
\* be after the action took effect.
Misses ==
  /\ Decides /\ Claimed
  /\ unusable' = 0
  /\ landed' \in IF InTime THEN {landed, landed + 1} ELSE {landed}
  /\ detector' = [detector EXCEPT !.failures = @ + 1]
  /\ IF detector'.failures >= bounds.resolutionFailuresAllowed
     THEN Stops("resolution_failures", TRUE) /\ outcome' = "STUCK"
     ELSE at' = "turning" /\ UNCHANGED <<stop, outcome>>
  /\ UNCHANGED <<fixed, attempted, shown, lap, record, help, late, session, ended, result>>

\* A reading that has already been taken is refused, by its name and its control.
Unread(name, control) == name \notin NamesRead /\ control \notin ControlsRead

\* An action is performed and recorded, and the screen looked at again.
Acts ==
  /\ Decides /\ Claimed /\ InTime
  /\ unusable' = 0 /\ landed' = landed + 1 /\ performed' = performed + 1
  /\ \E readOnly \in BOOLEAN :
       /\ IF readOnly
          THEN \E name \in Names, control \in Controls :
                 Unread(name, control) /\ readings' = readings \cup {<<name, control>>}
          ELSE UNCHANGED readings
       /\ \/ \E screen \in Screens, overdue \in BOOLEAN :
               LET trigger == verdict(screen, readOnly, overdue) IN
               /\ shown' = screen /\ late' = overdue
               /\ detector' = observed(screen, readOnly)
               /\ lap' = IF readOnly THEN lap ELSE Append(lap, screen)
               /\ IF trigger = "none" THEN at' = "turning" /\ UNCHANGED <<stop, outcome>>
                  ELSE Stops(trigger, TRUE) /\ outcome' = "STUCK"
          \/ /\ at' = "failing" /\ detector' = [detector EXCEPT !.failures = 0]
             /\ UNCHANGED <<shown, late, lap, stop, outcome>>
  /\ UNCHANGED <<fixed, attempted, outputs, help, session, ended, result>>

-----------------------------------------------------------------------------
(* How a run stops                                                          *)

\* pauseFor, up to the wait: a person is asked once, with the deadline lifted.
Stall ==
  /\ at = "stalling"
  /\ IF interventions >= 1 \/ ~attended
     THEN at' = "concluding" /\ UNCHANGED <<shown, interventions, armed, session, result>>
     ELSE /\ interventions' = interventions + 1
          /\ \/ /\ stop.trigger # "deadline" /\ at' = "failing" /\ armed' = FALSE
                /\ UNCHANGED <<shown, session, result>>
             \/ /\ IF stop.trigger = "deadline" THEN UNCHANGED shown ELSE shown' \in Screens
                /\ \/ Session!Pause /\ at' = "paused" /\ armed' = FALSE /\ UNCHANGED result
                   \/ Session!PauseUnwritable /\ Leaves("unwritable")
  /\ UNCHANGED <<fixed, attempted, unusable, stretch, record, helped, late, stop, log, landed>>

\* The person, while the run waits.
PersonMoves ==
  /\ Session!Take \/ Session!Return
  /\ UNCHANGED <<fixed, at, attempted, unusable, shown, stretch, record, help, late, stop, log,
                 result, landed>>

\* Mutant: the deadline stays lifted.
Handed_ForgetsTheDeadline ==
  detector' = stuckDetector /\ lap' = <<>> /\ helped' = performed /\ UNCHANGED armed

\* The run has its session back: a fresh detector, and the same deadline.
Handed == detector' = stuckDetector /\ lap' = <<>> /\ helped' = performed /\ armed' = TRUE

\* Mutant: the wait has no bound.
WaitEnds_Unbounded ==
  /\ at = "paused"
  /\ Session!TakeBack
  /\ at' = IF told'.result = "resumed" /\ stop.goesOn THEN "turning" ELSE "concluding"
  /\ UNCHANGED <<fixed, attempted, unusable, shown, stretch, record, help, late, stop, log, result,
                 landed>>

\* pauseFor, from the answer on.  A stop that no person can undo, a passed
\* deadline or the last turn, is a stop all the same.
WaitEnds ==
  /\ at = "paused"
  /\ Session!TakeBack \/ Session!GiveUp
  /\ \/ told'.result = "unwritable" /\ Leaves("unwritable") /\ UNCHANGED <<shown, stretch, helped>>
     \/ /\ told'.result = "stopped" /\ at' = "concluding"
        /\ UNCHANGED <<shown, stretch, helped, armed, result>>
     \/ /\ told'.result = "resumed" /\ Handed
        /\ \/ /\ at' = IF stop.goesOn THEN "turning" ELSE "concluding"
              /\ IF late THEN UNCHANGED shown ELSE shown' \in Screens
           \/ ~late /\ at' = "failing" /\ UNCHANGED shown
        /\ UNCHANGED result
  /\ UNCHANGED <<fixed, attempted, unusable, record, interventions, late, stop, log, landed>>

\* An error after the deadline is the deadline; before it, the run breaks, and
\* says so in the log if it can.
Fail ==
  /\ at = "failing"
  /\ IF late
     THEN Stops("deadline", FALSE) /\ UNCHANGED <<armed, ended, result>>
     ELSE Leaves("broken") /\ ended' \in {"failure", "none"} /\ UNCHANGED stop
  /\ UNCHANGED <<fixed, attempted, unusable, shown, stretch, record, interventions, helped, late,
                 session, outcome, landed>>

Conclusion == CASE stop.trigger = "reached" -> "reached"
                [] stop.trigger = "refused" -> "failed"
                [] OTHER -> "stuck"

Class(conclusion) == CASE conclusion = "reached" -> "success"
                       [] conclusion = "stuck" -> "intervention_required"
                       [] OTHER -> "failure"

\* finish, when its run.end could be written; Unwritable otherwise.
Conclude ==
  /\ at = "concluding" /\ Leaves(Conclusion)
  /\ ended' = Class(Conclusion)
  /\ UNCHANGED <<fixed, attempted, unusable, shown, stretch, record, interventions, helped, late, stop,
                 session, outcome, landed>>

\* An event that cannot be written ends the run where it is.
Unwritable ==
  /\ at \in {"opening", "turning", "deciding", "stalling", "concluding"}
  /\ Leaves("unwritable")
  /\ landed' \in IF at = "deciding" /\ Claimed /\ InTime THEN {landed, landed + 1} ELSE {landed}
  /\ UNCHANGED <<fixed, attempted, unusable, shown, stretch, record, interventions, helped, late, stop,
                 session, log>>

TimePasses ==
  /\ ~late /\ at # "done" /\ late' = TRUE
  /\ UNCHANGED <<fixed, at, attempted, unusable, shown, stretch, record, help, stop, session, log,
                 result, landed>>

Done == at = "done" /\ UNCHANGED vars

Loop ==
  \/ Open \/ Turn \/ ModelIsLate \/ ModelFails \/ Corrected \/ Escalates \/ Succeeds \/ Misses
  \/ Acts \/ Stall \/ Fail \/ Conclude \/ Unwritable

Next == Loop \/ WaitEnds \/ PersonMoves \/ TimePasses \/ Done

Spec == Init /\ [][Next]_vars

\* The loop is scheduled, a model that does not answer is timed out, and pause
\* answers: its wait is bounded.
FairSpec == Spec /\ WF_vars(Loop) /\ WF_vars(WaitEnds)

-----------------------------------------------------------------------------
(* Properties                                                               *)

Times(screen) == Cardinality({i \in DOMAIN lap : lap[i] = screen})
EndsAlike(n) == Len(lap) >= n /\ \A i \in (Len(lap) - n + 1)..Len(lap) : lap[i] = lap[Len(lap)]

\* A run that says why it stopped tells the truth about the stretch since a
\* person last handed back: it went round, or nothing it did had an effect,
\* counting no read; its time or its turns were up (Stuck.ts observe).
StopsForItsReason ==
  at \in {"stalling", "paused", "concluding"} =>
    CASE stop.trigger = "cycle" -> \E screen \in Screens : Times(screen) > bounds.repeatsAllowed
      [] stop.trigger = "no_effect" -> EndsAlike(bounds.ineffectiveAllowed + 1)
      [] stop.trigger = "deadline" -> late
      [] stop.trigger = "max_steps" -> attempted >= bounds.maxSteps
      [] OTHER -> TRUE

\* A run that goes on is not going round: since the last hand-back no screen was
\* produced more often than allowed, and no row of actions changed nothing.
NothingGoesUnnoticed ==
  at \in {"turning", "deciding"} =>
    /\ \A screen \in Screens : Times(screen) <= bounds.repeatsAllowed
    /\ ~EndsAlike(bounds.ineffectiveAllowed + 1)

\* The agent's word is not enough: a run has reached its goal only with an answer
\* that was read on this run by a recorded step (the succeed verb).
ClaimIsBacked ==
  stop.trigger = "reached" =>
    /\ outputs # {} /\ \A name \in outputs : \E control \in Controls : <<name, control>> \in readings
    /\ Cardinality(readings) <= performed

\* No action begins after the deadline, also not in a turn that began before it,
\* and not after a person held the session (setDeadline, pauseFor).
NothingAfterTheDeadline == [][landed' # landed => ~late]_vars

\* Every run ends, whatever model, people and pages do.
DiscoveryEnds == <>(at = "done")

=============================================================================
