-------------------------------- MODULE Replay --------------------------------
(***************************************************************************)
(* One replay of a Capability: packages/replay/src/engine.ts, with          *)
(* recovery.ts, the consultation of assist.ts and the check of              *)
(* policy/src/Repeatability.ts, over the Session of ControlOwnership.       *)
(*                                                                         *)
(* The engine is one fiber; nothing else touches the page unless a person   *)
(* holds the Session, so every rung of the ladder is one action and the     *)
(* Session's own moves interleave with the wait only.  What the application *)
(* shows, what policy says of an action, what the advisor replies, and      *)
(* whether evidence can be written are choices of the environment.  A screen *)
(* is abstracted to the verdict it gives; what an extraction reads is a     *)
(* member of Values.                                                       *)
(***************************************************************************)
EXTENDS Integers, Sequences, FiniteSets

CONSTANTS
  Capabilities,  \* the artifacts a run may be given
  Codes,         \* outcome codes an artifact may name
  Values,        \* what an extraction may read
  Nothing,       \* no value, no code
  MaxEpisodes    \* bound: episodes of the Session, enough for every pause

VARIABLES
  capability, attended, advised,  \* what the run was given: it never changes
  at,           \* where the engine is
  step,         \* index of the step in hand
  ladder,       \* what is known of the step in hand
  records,      \* `steps`: what has been recorded of each step
  readings,     \* `readings`: what each step read, last
  budget,       \* recovery attempts left
  assistBudget, \* consultations left
  owner, episode, answer, told,   \* the Session
  outcome,      \* the code of the `outcome` event on disk
  ended,        \* the class in the `run.end` event on disk
  result,       \* what the caller is given
  landed, remedied, tried, consulted  \* history: actions performed, attempts, consultations

fixed == <<capability, attended, advised>>
budgets == <<budget, assistBudget>>
session == <<owner, episode, answer, told>>
log == <<outcome, ended>>
history == <<landed, remedied, tried, consulted>>
vars == <<fixed, at, step, ladder, records, readings, budgets, session, log, result, history>>

Session == INSTANCE ControlOwnership

-----------------------------------------------------------------------------
(* Artifacts                                                                *)

RECOVERY_BUDGET_PER_RUN == 4
ASSIST_BUDGET_PER_RUN == 1

\* A step opens a page, extracts a value, presses or fills a control, or
\* selects from a list.
ActionType == {"open", "extract", "press", "select"}
Risky(type) == type \in {"press", "select"}

Rule == [attempts: Nat \ {0}, atStep: BOOLEAN, riskyRemedy: BOOLEAN, justified: BOOLEAN]

\* `noMatch`: the code a list that offers nothing stands for, and whether it is
\* declared as an outcome; `human`: the codes that always need a person, each
\* with the step it is met at; `outputs`: the steps the outputs are read from.
IsCapability(c) ==
  /\ c.steps \in Seq(ActionType) /\ c.steps # <<>>
  /\ c.rules \in Seq(Rule)
  /\ c.outcomes \subseteq Codes
  /\ c.noMatch \in [code: Codes, declared: BOOLEAN]
  /\ DOMAIN c.human \subseteq Codes \ c.outcomes
  /\ \A code \in DOMAIN c.human : c.human[code] \in DOMAIN c.steps
  /\ \A s \in c.outputs : s \in DOMAIN c.steps /\ c.steps[s] = "extract"

ASSUME ReplayAssumption ==
  /\ \A c \in Capabilities : IsCapability(c) /\ MaxEpisodes >= 2 * Len(c.steps)
  /\ Nothing \notin Values \cup Codes
  /\ MaxEpisodes \in Nat

Steps == DOMAIN capability.steps
type == capability.steps[step]
Rules == DOMAIN capability.rules

\* Mutant: only the steps an at-step rule repeats are looked at, and only in a
\* capability of one step.
unsafeRepeats_FirstStep(c) ==
  {r \in DOMAIN c.rules :
     /\ c.rules[r].atStep /\ Risky(c.steps[1])
     /\ ~c.rules[r].justified}

\* The rules that may repeat a risky action without arguing for it.
unsafeRepeats(c) ==
  {r \in DOMAIN c.rules :
     /\ \/ c.rules[r].attempts > 1 /\ c.rules[r].riskyRemedy
        \/ c.rules[r].atStep /\ \E s \in DOMAIN c.steps : Risky(c.steps[s])
     /\ ~c.rules[r].justified}

\* Declared codes, and the one a list names, but never one a person has ruled
\* to need a person.
proposableOutcomes(named) ==
  (capability.outcomes \cup named) \ DOMAIN capability.human

\* requiresHumanAtStep
HumanCodes == {code \in DOMAIN capability.human : capability.human[code] = step}

-----------------------------------------------------------------------------
(* The run                                                                  *)

Classes == {"success", "business_outcome", "intervention_required", "failure"}
NoRecord == [checkpoint |-> "none", read |-> Nothing, recovered |-> FALSE, assisted |-> FALSE]

\* What is known of the step in hand: what it read, what it stalled on, the
\* code it stalled or ended with, whether a recovery rule was tried and how.
NewStep == [read |-> Nothing, stall |-> "none", code |-> Nothing, assisted |-> FALSE,
            rule |-> 0, tries |-> 0, recovered |-> FALSE]

NoResult == [class |-> "none", reason |-> "none", code |-> Nothing, assisted |-> FALSE]

Places == {"starting", "observing", "acting", "verifying", "recovering", "remedying",
           "consulting", "handing", "paused", "returned", "acting_again",
           "verifying_again", "answering", "collecting", "finalising", "done"}

Failures == {"checkpoint_failed", "recovery_exhausted", "target_missing", "no_matching_item",
             "target_ambiguous", "ambiguous_match", "surface_failed", "policy_violation",
             "output_unreadable", "control_lost", "evidence_failed", "artifact_unexecutable"}

ActionStalls == {"target_missing", "no_matching_item"}

Ladder == [read: Values \cup {Nothing}, code: Codes \cup {Nothing},
           stall: ActionStalls \cup {"none", "checkpoint", "human"}, assisted: BOOLEAN,
           rule: Rules \cup {0}, tries: 0..RECOVERY_BUDGET_PER_RUN, recovered: BOOLEAN]

Verdicts == {"none", "held", "outcome", "failed", "not_reached"}

StepRecord == [checkpoint: Verdicts, read: Values \cup {Nothing},
               recovered: BOOLEAN, assisted: BOOLEAN]

Result == [class: Classes \cup {"none"}, reason: Failures \cup {"none"},
           code: Codes \cup {Nothing}, assisted: BOOLEAN]

TypeOK ==
  /\ capability \in Capabilities /\ attended \in BOOLEAN /\ advised \in BOOLEAN
  /\ at \in Places /\ step \in Steps
  /\ ladder \in Ladder
  /\ records \in [Steps -> StepRecord]
  /\ readings \in [Steps -> Values \cup {Nothing}]
  /\ budget \in 0..RECOVERY_BUDGET_PER_RUN /\ assistBudget \in 0..ASSIST_BUDGET_PER_RUN
  /\ owner \in {"automation", "paused", "operator", "resume_requested"}
  /\ episode \in 0..MaxEpisodes
  /\ outcome \in Codes \cup {Nothing, "SUCCESS"}
  /\ ended \in Classes \cup {"none"}
  /\ result \in Result
  /\ landed \in [Steps -> Nat] /\ remedied \in [Rules -> Nat]
  /\ tried \in Nat /\ consulted \in Nat

Init ==
  /\ capability \in Capabilities /\ attended \in BOOLEAN /\ advised \in BOOLEAN
  /\ at = "starting" /\ step = 1 /\ ladder = NewStep
  /\ records = [s \in Steps |-> NoRecord]
  /\ readings = [s \in Steps |-> Nothing]
  /\ budget = RECOVERY_BUDGET_PER_RUN /\ assistBudget = ASSIST_BUDGET_PER_RUN
  /\ Session!OwnershipInit
  /\ outcome = Nothing /\ ended = "none" /\ result = NoResult
  /\ landed = [s \in Steps |-> 0] /\ remedied = [r \in Rules |-> 0]
  /\ tried = 0 /\ consulted = 0

-----------------------------------------------------------------------------
(* How a step ends                                                          *)

Ends(class, reason, code) ==
  /\ result' = [NoResult EXCEPT !.class = class, !.reason = reason, !.code = code]
  /\ at' = "finalising"

Fails(reason) == Ends("failure", reason, Nothing)

\* escalated: a person is still required, which is no failure.
Escalates(code) == Ends("intervention_required", "none", code)

\* steps.push, for the step in hand.
Recorded(now, verdict) ==
  [records EXCEPT ![step] = [checkpoint |-> verdict, read |-> now.read,
                             recovered |-> now.recovered, assisted |-> now.assisted]]

\* The step held: on to the next one, or to the outputs.
GoesOn(now) ==
  IF step = Len(capability.steps)
  THEN at' = "collecting" /\ ladder' = now /\ UNCHANGED step
  ELSE at' = "observing" /\ step' = step + 1 /\ ladder' = NewStep

Holds(now) == records' = Recorded(now, "held") /\ GoesOn(now) /\ UNCHANGED result

\* The step reached an outcome: the steps after it are not reached.
Answers(now, code) ==
  /\ records' = [s \in Steps |-> IF s > step THEN [NoRecord EXCEPT !.checkpoint = "not_reached"]
                                 ELSE Recorded(now, "outcome")[s]]
  /\ ladder' = [now EXCEPT !.code = code]
  /\ at' = "answering"
  /\ UNCHANGED <<step, result>>

\* The step goes on to another rung.
GoesTo(place, now) ==
  /\ at' = place /\ ladder' = now
  /\ UNCHANGED <<step, records, result>>

Stays == UNCHANGED <<step, ladder, records>>

\* session.claim, before everything the engine does to the page.
Claimed == owner = "automation"

\* What may stop the engine where it is.
Breakage ==
  CASE at = "starting" -> {"evidence_failed"}
    [] at \in {"observing", "returned"} -> {"surface_failed", "evidence_failed"}
    [] at \in {"acting", "acting_again"} ->
         {"surface_failed", "policy_violation", "target_ambiguous", "artifact_unexecutable",
          "evidence_failed"}
           \cup (IF type = "select" THEN {"ambiguous_match"} ELSE {})
    [] at \in {"verifying", "verifying_again", "recovering"} ->
         {"surface_failed", "policy_violation", "evidence_failed"}
    [] at \in {"consulting", "answering", "collecting"} -> {"evidence_failed"}
    [] OTHER -> {}

ToThePage == {"acting", "acting_again", "verifying", "verifying_again", "remedying"}

Breaks ==
  /\ \E reason \in Breakage \cup (IF at \in ToThePage /\ ~Claimed THEN {"control_lost"} ELSE {}) :
       Fails(reason)
  /\ Stays
  /\ UNCHANGED <<fixed, readings, budgets, session, log, history>>

-----------------------------------------------------------------------------
(* The rungs                                                                *)

\* body, before the first step.
Start ==
  /\ at = "starting"
  /\ IF unsafeRepeats(capability) # {}
     THEN Fails("artifact_unexecutable") /\ Stays
     ELSE GoesTo("observing", NewStep)
  /\ UNCHANGED <<fixed, readings, budgets, session, log, history>>

\* What the Surface looks like going in.
Observe ==
  /\ at = "observing"
  /\ GoesTo("acting", NewStep)
  /\ UNCHANGED <<fixed, readings, budgets, session, log, history>>

ReadBy(t) == IF t = "extract" THEN Values ELSE {Nothing}
Bound(value) == IF value = Nothing THEN readings ELSE [readings EXCEPT ![step] = value]

\* performAction, when the action lands: the event may still be unwritable.
Lands ==
  /\ at \in {"acting", "acting_again"} /\ Claimed
  /\ landed' = [landed EXCEPT ![step] = @ + 1]
  /\ \/ \E value \in ReadBy(type) :
          /\ readings' = Bound(value)
          /\ GoesTo("verifying", [ladder EXCEPT !.read = value])
     \/ Fails("evidence_failed") /\ Stays /\ UNCHANGED readings
  /\ UNCHANGED <<fixed, budgets, session, log, remedied, tried, consulted>>

\* The list offered nothing and the artifact declares what that means.
Answered ==
  /\ at \in {"acting", "acting_again"} /\ type = "select" /\ capability.noMatch.declared
  /\ Answers(ladder, capability.noMatch.code)
  /\ UNCHANGED <<fixed, readings, budgets, session, log, history>>

\* Zero matches: nothing was done, and the ladder is entered, once.
Blocked ==
  /\ at \in {"acting", "acting_again"} /\ type # "open"
  /\ \E why \in (IF Claimed THEN {"target_missing"} ELSE {}) \cup
        (IF type = "select" /\ ~capability.noMatch.declared THEN {"no_matching_item"} ELSE {}) :
       \/ at = "acting" /\ GoesTo("consulting", [ladder EXCEPT !.stall = why])
       \/ at = "acting_again" /\ Escalates(Nothing) /\ Stays
  /\ UNCHANGED <<fixed, readings, budgets, session, log, history>>

\* Mutant: a step returned as resolved is taken as done whatever it shows.
Verify_TrustsThePerson ==
  /\ at \in {"verifying", "verifying_again"} /\ Claimed
  /\ \/ Holds(ladder)
     \/ \E code \in capability.outcomes : Answers(ladder, code)
     \/ at = "verifying" /\ GoesTo("recovering", ladder)
     \/ /\ at = "verifying_again" /\ GoesOn(ladder)
        /\ records' = Recorded(ladder, "failed") /\ UNCHANGED result
  /\ UNCHANGED <<fixed, readings, budgets, session, log, history>>

\* verifyCheckpoint: the intended state, then the declared outcomes; what is
\* neither goes to recovery, or, after a person returned it, to a record.
Verify ==
  /\ at \in {"verifying", "verifying_again"} /\ Claimed
  /\ \/ Holds(ladder)
     \/ \E code \in capability.outcomes : Answers(ladder, code)
     \/ at = "verifying" /\ GoesTo("recovering", ladder)
     \/ /\ at = "verifying_again"
        /\ Escalates(Nothing)
        /\ records' = Recorded(ladder, "failed") /\ UNCHANGED <<step, ladder>>
  /\ UNCHANGED <<fixed, readings, budgets, session, log, history>>

Least(a, b) == IF a < b THEN a ELSE b

Allowed(r) == Least(capability.rules[r].attempts, budget)

\* attemptRecovery: the first rule that recognises the screen, if it may still
\* be tried; if none does, the classification or the consultation is next.
Recover ==
  /\ at = "recovering"
  /\ \/ IF HumanCodes # {}
        THEN \E code \in HumanCodes :
               GoesTo("handing", [ladder EXCEPT !.stall = "human", !.code = code])
        ELSE GoesTo("consulting", [ladder EXCEPT !.stall = "checkpoint"])
     \/ \E r \in Rules :
          GoesTo(IF Allowed(r) > 0 THEN "remedying" ELSE "consulting",
                 [ladder EXCEPT !.stall = "checkpoint", !.rule = r])
  /\ UNCHANGED <<fixed, readings, budgets, session, log, history>>

\* Mutant: the budget is left alone when the condition cleared.
Spent_WhenExhausted(attempts) ==
  IF attempts = Allowed(ladder.rule) THEN budget - attempts ELSE budget

Spent(attempts) == budget - attempts

\* One attempt of recover: the remedy, the step again if the rule says so, and
\* the step's own checkpoint.  A remedy that does not work is information; the
\* budget is charged when the rule is done.
Remedy ==
  LET rule == capability.rules[ladder.rule]
      attempts == ladder.tries + 1
  IN
  /\ at = "remedying" /\ Claimed
  /\ tried' = tried + 1
  /\ \E worked \in BOOLEAN, repeated \in (IF rule.atStep THEN BOOLEAN ELSE {FALSE}) :
       /\ remedied' = [remedied EXCEPT ![ladder.rule] = @ + (IF worked THEN 1 ELSE 0)]
       /\ landed' = [landed EXCEPT ![step] = @ + (IF repeated THEN 1 ELSE 0)]
       /\ IF repeated THEN \E value \in ReadBy(type) : readings' = Bound(value)
          ELSE UNCHANGED readings
  /\ \/ /\ Holds([ladder EXCEPT !.tries = attempts, !.recovered = TRUE])
        /\ budget' = Spent(attempts)
     \/ /\ \E code \in capability.outcomes :
             Answers([ladder EXCEPT !.tries = attempts, !.recovered = TRUE], code)
        /\ budget' = Spent(attempts)
     \/ /\ attempts = Allowed(ladder.rule)
        /\ GoesTo("consulting", [ladder EXCEPT !.tries = attempts])
        /\ budget' = Spent(attempts)
     \/ /\ attempts < Allowed(ladder.rule)
        /\ GoesTo("remedying", [ladder EXCEPT !.tries = attempts])
        /\ UNCHANGED budget
     \/ /\ \E reason \in {"surface_failed", "policy_violation", "evidence_failed"} : Fails(reason)
        /\ Stays /\ UNCHANGED budget
  /\ UNCHANGED <<fixed, assistBudget, session, log, consulted>>

\* attemptAssist, the way to a person: nobody to ask, an advisor that declines
\* or only suggests a control, or a code from the closed list, which ends the
\* run.  Asking costs the run its only consultation whatever is answered.
Consult ==
  LET candidates == proposableOutcomes(IF ladder.stall = "no_matching_item"
                                       THEN {capability.noMatch.code} ELSE {})
      asked == advised /\ candidates # {} /\ assistBudget > 0
  IN
  /\ at = "consulting"
  /\ \/ GoesTo("handing", ladder)
     \/ asked /\ \E code \in candidates : Answers([ladder EXCEPT !.assisted = TRUE], code)
  /\ assistBudget' = IF asked THEN assistBudget - 1 ELSE assistBudget
  /\ consulted' = IF asked THEN consulted + 1 ELSE consulted
  /\ UNCHANGED <<fixed, readings, budget, session, log, landed, remedied, tried>>

\* What a step that nobody put right ends with.
Unsettled(asPerson) ==
  CASE ladder.stall \in ActionStalls ->
         /\ IF asPerson THEN Escalates(Nothing) ELSE Fails(ladder.stall)
         /\ Stays
    [] ladder.stall = "human" ->
         /\ Escalates(ladder.code)
         /\ records' = Recorded(ladder, "failed") /\ UNCHANGED <<step, ladder>>
    [] OTHER ->
         /\ IF asPerson THEN Escalates(Nothing)
            ELSE Fails(IF ladder.rule = 0 THEN "checkpoint_failed" ELSE "recovery_exhausted")
         /\ records' = Recorded(ladder, "failed") /\ UNCHANGED <<step, ladder>>

\* handOff, up to the wait: a run nobody attends ends as it would have.
HandOver ==
  /\ at = "handing"
  /\ IF ~attended
     THEN Unsettled(FALSE) /\ UNCHANGED session
     ELSE \/ Session!Pause /\ GoesTo("paused", ladder)
          \/ Session!PauseUnwritable /\ Fails("evidence_failed") /\ Stays
  /\ UNCHANGED <<fixed, readings, budgets, log, history>>

\* The person, while the run waits.
PersonMoves ==
  /\ Session!Take \/ Session!Return
  /\ UNCHANGED <<fixed, at, step, ladder, records, readings, budgets, log, result, history>>

Goes == told'.result = "resumed"

\* Mutant: the wait has no bound.
WaitEnds_Unbounded ==
  /\ at = "paused"
  /\ Session!TakeBack
  /\ IF ~Goes THEN Unsettled(TRUE)
     ELSE GoesTo(IF ladder.stall \in ActionStalls
                 THEN "returned" ELSE "verifying_again", ladder)
  /\ UNCHANGED <<fixed, readings, budgets, log, history>>

\* handOff, from the answer of pause on.
WaitEnds ==
  /\ at = "paused"
  /\ Session!TakeBack \/ Session!GiveUp
  /\ IF told'.result = "unwritable" THEN Fails("evidence_failed") /\ Stays
     ELSE IF ~Goes THEN Unsettled(TRUE)
     ELSE GoesTo(IF ladder.stall \in ActionStalls
                 THEN "returned" ELSE "verifying_again", ladder)
  /\ UNCHANGED <<fixed, readings, budgets, log, history>>

\* performOrHandOff, the session back: a step the person may have done is
\* looked at first, and performed only if it still has to be.
Returned ==
  /\ at = "returned"
  /\ \/ type # "extract" /\ Claimed /\ Holds(ladder)
     \/ /\ type # "extract" /\ Claimed
        /\ \E code \in capability.outcomes : Answers(ladder, code)
     \/ GoesTo("acting_again", ladder)
  /\ UNCHANGED <<fixed, readings, budgets, session, log, history>>

-----------------------------------------------------------------------------
(* How the run ends                                                         *)

\* A declared outcome: the event, then the answer.
ReportAnswer ==
  /\ at = "answering"
  /\ outcome' = ladder.code
  /\ result' = [class |-> "business_outcome", reason |-> "none", code |-> ladder.code,
                assisted |-> ladder.assisted]
  /\ at' = "finalising"
  /\ UNCHANGED <<fixed, step, ladder, records, readings, budgets, session, ended, history>>

Readable == \A s \in capability.outputs : readings[s] # Nothing

\* collectOutputs: what was read must be there, and parse.
Collect ==
  /\ at = "collecting"
  /\ \/ Readable /\ outcome' = "SUCCESS" /\ Ends("success", "none", Nothing)
     \/ Fails("output_unreadable") /\ UNCHANGED outcome
  /\ Stays
  /\ UNCHANGED <<fixed, readings, budgets, session, ended, history>>

\* finalise: a result that could not be recorded is not given.
Finalise ==
  /\ at = "finalising" /\ at' = "done"
  /\ \/ ended' = result.class /\ UNCHANGED result
     \/ result' = [NoResult EXCEPT !.class = "failure", !.reason = "evidence_failed"] /\ UNCHANGED ended
  /\ Stays
  /\ UNCHANGED <<fixed, readings, budgets, session, outcome, history>>

\* replayCapability has returned.
Done == at = "done" /\ UNCHANGED vars

Engine ==
  \/ Start \/ Observe \/ Lands \/ Answered \/ Blocked \/ Verify \/ Recover \/ Remedy
  \/ Consult \/ HandOver \/ Returned \/ ReportAnswer \/ Collect \/ Finalise \/ Breaks

Next == Engine \/ WaitEnds \/ PersonMoves \/ Done

Spec == Init /\ [][Next]_vars

\* The engine's fiber is scheduled, and pause answers: its wait is bounded.
FairSpec == Spec /\ WF_vars(Engine) /\ WF_vars(WaitEnds)

-----------------------------------------------------------------------------
(* Properties                                                               *)

\* A run reports success only when every step's own checkpoint held, every
\* output was read, and the log on disk says success twice (engine.ts body,
\* collectOutputs, finalise).
SuccessIsEarned ==
  result.class = "success" =>
    /\ \A s \in Steps : records[s].checkpoint = "held"
    /\ \A s \in capability.outputs : readings[s] \in Values
    /\ outcome = "SUCCESS"
    /\ at = "done" => ended = "success"

\* What the caller is told and what the log says never contradict each other:
\* an outcome on disk is withheld only because the log then broke, and a
\* run.end names the result that is given.
ResultIsOnRecord ==
  at = "done" =>
    /\ ended \in {result.class, "none"}
    /\ ended = "none" => result.reason = "evidence_failed"
    /\ outcome # Nothing =>
         \/ result.class = "success" /\ outcome = "SUCCESS"
         \/ result.class = "business_outcome" /\ outcome = result.code
         \/ result.reason = "evidence_failed"

\* Nothing is done for a step unless every step before it is settled as held,
\* however often recovery and people went round (the loop of body).
StepsInOrder ==
  \A s \in Steps : \A before \in 1..(s - 1) :
    landed[s] > 0 \/ records[s].checkpoint \in {"held", "outcome", "failed"}
      => records[before].checkpoint = "held"

\* The whole run tries to recover at most four times, consults an advisor at
\* most once, and calls a person at most twice for a step, whatever the rules
\* of the artifact allow (RECOVERY_BUDGET_PER_RUN, ASSIST_BUDGET_PER_RUN).
BudgetsHold ==
  /\ tried <= RECOVERY_BUDGET_PER_RUN
  /\ consulted <= ASSIST_BUDGET_PER_RUN
  /\ episode <= 2 * step

\* A press that may have taken effect is made again only under an at-step rule
\* that argues for it: not by the ladder, nor by a person handing back
\* (Repeatability.ts, performOrHandOff).
RiskyStepsLandOnce ==
  \A s \in Steps :
    Risky(capability.steps[s]) /\ landed[s] > 1
      => \E r \in Rules : capability.rules[r].atStep /\ capability.rules[r].justified

\* No advisor answers with a code a person has ruled to need a person
\* (assist.ts proposableOutcomes).
AuthorityIsNeverProposed ==
  result.assisted => result.code \notin DOMAIN capability.human

\* An unattended run pauses for nobody, and asks for a person only by a code
\* that always needs one; a stall that an attended run could hand over is
\* otherwise the failure it was (handOff).
UnattendedRunsFail ==
  ~attended =>
    /\ episode = 0
    /\ result.class = "intervention_required" => result.code \in DOMAIN capability.human

\* The engine never finds its Session in other hands: every rung that touches
\* the page comes after pause gave control back.
ControlIsNeverLost == result.reason # "control_lost"

\* Every run ends: no ladder goes round for ever, and no person is waited for
\* for ever.
RunsEnd == <>(at = "done")

\* Repeatability.ts:24-33 promises that a rule that could perform a risky
\* action a second time is refused unless it says why that is safe, and that
\* "at `attempts: 1` the remedy runs once".  It runs once for each step whose
\* checkpoint fails on the condition.
RiskyRemedyRunsOnce ==
  \A r \in Rules :
    capability.rules[r].riskyRemedy /\ ~capability.rules[r].justified => remedied[r] <= 1
=============================================================================
