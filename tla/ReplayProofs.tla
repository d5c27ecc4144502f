----------------------------- MODULE ReplayProofs -----------------------------
(***************************************************************************)
(* Theorems about Replay for any set of artifacts, of any length, with any  *)
(* rules, and any values an extraction may read.                            *)
(***************************************************************************)
EXTENDS Replay, SequenceTheorems, TLAPS

-----------------------------------------------------------------------------
(* The invariant                                                            *)

\* The action of the step in hand has not been performed.
NotActed ==
  \/ at \in {"starting", "observing", "acting", "returned", "acting_again"}
  \/ at \in {"consulting", "handing", "paused"} /\ ladder.stall \in ActionStalls

\* No rule has been tried for the step in hand.
Untried == NotActed \/ at \in {"verifying", "recovering"}

Over == {"finalising", "done"}

\* Only a wait is spent without control.
Control ==
  /\ owner = "automation" <=> at # "paused"
  /\ ControlIsNeverLost

\* The steps before the one in hand held; the ones after it are untouched.
Order ==
  /\ \A s \in Steps : s < step => records[s].checkpoint = "held"
  /\ \A s \in Steps : s > step =>
       landed[s] = 0 /\ records[s].checkpoint \in {"none", "not_reached"}

\* Attempts made are attempts charged, except those of the rule in hand.
Attempts ==
  /\ Untried => ladder.tries = 0
  /\ at = "remedying" =>
       /\ ladder.rule \in Rules /\ ladder.tries < Allowed(ladder.rule)
       /\ tried = RECOVERY_BUDGET_PER_RUN - budget + ladder.tries
  /\ at \notin Over \cup {"remedying"} => tried = RECOVERY_BUDGET_PER_RUN - budget
  /\ tried <= RECOVERY_BUDGET_PER_RUN
  /\ consulted = ASSIST_BUDGET_PER_RUN - assistBudget

\* What the rungs below a stall may have stalled on.
Stalls ==
  /\ at = "remedying" => ladder.stall = "checkpoint"
  /\ at = "consulting" => ladder.stall \in ActionStalls \cup {"checkpoint"}
  /\ at \in {"handing", "paused"} /\ ladder.stall = "human" =>
       ladder.code \in DOMAIN capability.human

\* A step pauses once for its action and once for its checkpoint.
Pauses ==
  /\ at \in {"starting", "observing", "acting"} => episode <= 2 * (step - 1)
  /\ at \in {"consulting", "handing"} =>
       episode <= 2 * step - (IF ladder.stall \in ActionStalls THEN 2 ELSE 1)
  /\ at = "paused" /\ ladder.stall \in ActionStalls => episode <= 2 * step - 1
  /\ at \in {"returned", "acting_again", "verifying", "recovering", "remedying"} =>
       episode <= 2 * step - 1
  /\ episode <= 2 * step

\* Artifacts that may repeat a risky action without an argument never start.
Presses ==
  /\ at \notin Over \cup {"starting"} => unsafeRepeats(capability) = {}
  /\ NotActed => landed[step] = 0
  /\ RiskyStepsLandOnce

\* What an advisor proposed is on the way to the result, or nowhere.
Proposals ==
  /\ at \notin Over \cup {"answering"} => ~ladder.assisted
  /\ at = "answering" /\ ladder.assisted => ladder.code \notin DOMAIN capability.human
  /\ AuthorityIsNeverProposed

\* Only an attended run has been paused.
Attendance ==
  /\ at \in {"paused", "returned", "acting_again", "verifying_again"} => attended
  /\ UnattendedRunsFail

\* There is a result, and something of it in the log, only at the end.
Reports ==
  /\ at \notin Over => outcome = Nothing /\ result = NoResult
  /\ at # "done" => ended = "none"
  /\ at = "collecting" => \A s \in Steps : records[s].checkpoint = "held"
  /\ at = "finalising" =>
       /\ result.class # "none"
       /\ \/ outcome = Nothing
          \/ result.class = "success" /\ outcome = "SUCCESS"
          \/ result.class = "business_outcome" /\ outcome = result.code
  /\ SuccessIsEarned
  /\ ResultIsOnRecord

RInv ==
  /\ TypeOK /\ Control /\ Order /\ Attempts /\ Stalls /\ Pauses
  /\ Presses /\ Proposals /\ Attendance /\ Reports

-----------------------------------------------------------------------------
(* Artifacts, and what the ends of a step do                                *)

\* The steps and rules of the artifact in hand are numbered sequences.
LEMMA Artifact ==
  ASSUME capability \in Capabilities
  PROVE  /\ capability.steps \in Seq(ActionType)
         /\ Steps = 1..Len(capability.steps) /\ Len(capability.steps) \in Nat
         /\ Steps # {}
         /\ Rules \subseteq Nat \ {0}
         /\ \A r \in Rules : capability.rules[r] \in Rule
<1>1. IsCapability(capability)
  BY ReplayAssumption
<1>2. capability.rules \in Seq(Rule) /\ capability.steps \in Seq(ActionType)
  BY <1>1 DEF IsCapability
<1>3. capability.steps # <<>>
  BY <1>1 DEF IsCapability
<1>4. Steps = 1..Len(capability.steps) /\ Len(capability.steps) \in Nat
  BY <1>2, LenProperties DEF Steps
<1>5. Len(capability.steps) # 0
  BY <1>2, <1>3, EmptySeq
<1>6. Rules = 1..Len(capability.rules) /\ Len(capability.rules) \in Nat
  BY <1>2, LenProperties DEF Rules
<1>7. \A r \in Rules : capability.rules[r] \in Rule
  BY <1>2, <1>6, ElementOfSeq
<1>8. Steps # {}
  <2>1. 1 \in 1..Len(capability.steps)
    BY <1>4, <1>5
  <2> QED
    BY <2>1, <1>4
<1>9. Rules \subseteq Nat \ {0}
  BY <1>6
<1> QED
  BY <1>2, <1>4, <1>7, <1>8, <1>9

\* An artifact does not change during a run, nor what is defined by it.
LEMMA Fixed ==
  ASSUME UNCHANGED fixed
  PROVE  /\ Steps' = Steps /\ Rules' = Rules /\ Ladder' = Ladder
         /\ capability' = capability /\ attended' = attended /\ advised' = advised
BY DEF fixed, Steps, Rules, Ladder

\* The null values are of the types of the real ones.
LEMMA NullsTyped ==
  /\ NewStep \in Ladder /\ NoRecord \in StepRecord /\ NoResult \in Result
BY DEF NewStep, Ladder, ActionStalls, RECOVERY_BUDGET_PER_RUN, NoRecord, StepRecord, Verdicts,
       NoResult, Result

\* A record is written for the step in hand and no other.
LEMMA RecordedTyped ==
  ASSUME TypeOK, NEW now \in Ladder, NEW verdict \in Verdicts
  PROVE  /\ Recorded(now, verdict) \in [Steps -> StepRecord]
         /\ Recorded(now, verdict)[step].checkpoint = verdict
         /\ \A s \in Steps : s # step => Recorded(now, verdict)[s] = records[s]
BY DEF TypeOK, Recorded, Ladder, StepRecord

\* A step that held is left behind, or the last one.
LEMMA HoldsMoves ==
  ASSUME TypeOK, NEW now \in Ladder, Holds(now)
  PROVE  /\ at' \in {"collecting", "observing"} /\ result' = result
         /\ at' = "collecting" => step' = step /\ step = Len(capability.steps) /\ ladder' = now
         /\ at' = "observing" => step' = step + 1 /\ ladder' = NewStep
         /\ step' \in Steps /\ ladder' \in Ladder
         /\ records' \in [Steps -> StepRecord]
         /\ records'[step].checkpoint = "held"
         /\ \A s \in Steps : s # step => records'[s] = records[s]
<1>1. step \in 1..Len(capability.steps) /\ Len(capability.steps) \in Nat
  BY Artifact DEF TypeOK
<1>2. step # Len(capability.steps) => step + 1 \in Steps
  BY <1>1, Artifact DEF TypeOK
<1>3. records' = Recorded(now, "held") /\ "held" \in Verdicts
  BY DEF Holds, Verdicts
<1> QED
  BY <1>1, <1>2, <1>3, RecordedTyped, NullsTyped DEF TypeOK, Holds, GoesOn

\* An answer is the end of the steps.
LEMMA AnswersMoves ==
  ASSUME TypeOK, NEW now \in Ladder, NEW code \in Codes, Answers(now, code)
  PROVE  /\ at' = "answering" /\ result' = result /\ step' = step
         /\ ladder' = [now EXCEPT !.code = code] /\ ladder' \in Ladder
         /\ records' \in [Steps -> StepRecord]
         /\ \A s \in Steps : s < step => records'[s] = records[s]
         /\ \A s \in Steps : s > step => records'[s].checkpoint = "not_reached"
<1>1. "outcome" \in Verdicts /\ "not_reached" \in Verdicts
  BY DEF Verdicts
<1>2. /\ [NoRecord EXCEPT !.checkpoint = "not_reached"] \in StepRecord
      /\ [NoRecord EXCEPT !.checkpoint = "not_reached"].checkpoint = "not_reached"
  BY <1>1, NullsTyped DEF NoRecord, StepRecord
<1>3. [now EXCEPT !.code = code] \in Ladder
  BY DEF Ladder
<1>4. step \in Nat /\ Steps \subseteq Nat
  BY Artifact DEF TypeOK
<1>5. PICK outcomes \in [Steps -> StepRecord] :
        outcomes = Recorded(now, "outcome") /\ \A s \in Steps : s # step => outcomes[s] = records[s]
  BY <1>1, RecordedTyped
<1>6. records' = [s \in Steps |-> IF s > step THEN [NoRecord EXCEPT !.checkpoint = "not_reached"]
                                 ELSE outcomes[s]]
  BY <1>5 DEF Answers
<1>7. records' \in [Steps -> StepRecord]
  BY <1>2, <1>5, <1>6
<1>8. \A s \in Steps : s < step => records'[s] = records[s]
  BY <1>4, <1>5, <1>6
<1>9. \A s \in Steps : s > step => records'[s].checkpoint = "not_reached"
  BY <1>2, <1>4, <1>6
<1> QED
  BY <1>3, <1>7, <1>8, <1>9 DEF Answers

\* A run that ends has a result, which no advisor assisted.
LEMMA EndsMoves ==
  ASSUME NEW class \in Classes, NEW reason \in Failures \cup {"none"},
         NEW code \in Codes \cup {Nothing}, Ends(class, reason, code)
  PROVE  /\ at' = "finalising" /\ result' \in Result
         /\ result'.class = class /\ result'.reason = reason /\ result'.code = code
         /\ result'.assisted = FALSE
BY NullsTyped DEF Ends, NoResult, Result

-----------------------------------------------------------------------------
(* What keeps the invariant, by the way a rung is left                      *)

\* What is true of every rung: artifact and person aside, only the step in hand
\* is acted on, and no press is repeated that must not be.
Contained ==
  /\ UNCHANGED fixed
  /\ budget' \in 0..RECOVERY_BUDGET_PER_RUN /\ assistBudget' \in 0..ASSIST_BUDGET_PER_RUN
  /\ readings' \in [Steps -> Values \cup {Nothing}]
  /\ landed' \in [Steps -> Nat] /\ remedied' \in [Rules -> Nat]
  /\ \A s \in Steps : s # step => landed'[s] = landed[s]
  /\ RiskyStepsLandOnce'
  /\ consulted' = ASSIST_BUDGET_PER_RUN - assistBudget'
  /\ tried' \in Nat /\ tried' <= RECOVERY_BUDGET_PER_RUN

\* The variables keep their types if those a rung sets do.
LEMMA TypesKept ==
  ASSUME TypeOK, Contained, at' \in Places, step' \in Steps, ladder' \in Ladder,
         records' \in [Steps -> StepRecord], result' \in Result,
         owner' \in {"automation", "paused", "operator", "resume_requested"},
         episode' \in 0..MaxEpisodes, outcome' \in Codes \cup {Nothing, "SUCCESS"},
         ended' \in Classes \cup {"none"}
  PROVE  TypeOK'
<1>1. /\ Steps' = Steps /\ Rules' = Rules /\ Ladder' = Ladder
      /\ capability' = capability /\ attended' = attended /\ advised' = advised
  BY Fixed DEF Contained
<1>2. consulted' \in Nat /\ tried' \in Nat
  <2>1. assistBudget' \in 0..1 /\ consulted' = 1 - assistBudget'
    BY DEF Contained, ASSIST_BUDGET_PER_RUN
  <2>2. ASSUME NEW left \in 0..1
        PROVE  1 - left \in Nat
    OBVIOUS
  <2>3. consulted' \in Nat
    BY <2>1, <2>2, Zenon
  <2> QED
    BY <2>3 DEF Contained
<1> QED
  BY <1>1, <1>2 DEF TypeOK, Contained

\* A run may end short on any rung, once it has its session back.
LEMMA EndingShort ==
  ASSUME RInv, Contained, at \notin Over,
         NEW class \in {"failure", "intervention_required"},
         NEW reason \in (Failures \ {"control_lost"}) \cup {"none"},
         NEW code \in Codes \cup {Nothing}, Ends(class, reason, code),
         UNCHANGED <<step, ladder, log>>,
         records' \in {records, Recorded(ladder, "failed")},
         owner' = "automation", episode' \in 0..MaxEpisodes, episode' <= 2 * step,
         ~attended => episode' = 0 /\ (class = "intervention_required" =>
                                         code \in DOMAIN capability.human)
  PROVE  RInv'
<1> USE DEF RInv
<1>1. /\ at' = "finalising" /\ result' \in Result /\ result'.class = class
      /\ result'.reason = reason /\ result'.code = code /\ result'.assisted = FALSE
  BY EndsMoves DEF Classes
<1>2. /\ step' = step /\ ladder' = ladder /\ outcome' = outcome /\ ended' = ended
      /\ step \in Steps /\ records' \in [Steps -> StepRecord]
      /\ \A s \in Steps : s # step => records'[s] = records[s]
  BY RecordedTyped DEF log, TypeOK, Verdicts
<1>3. step \in Nat /\ Steps \subseteq Nat
  BY <1>2, Artifact DEF TypeOK
<1>4. TypeOK'
  BY <1>1, <1>2, TypesKept DEF TypeOK, Places
<1>5. Control'
  BY <1>1 DEF Control, ControlIsNeverLost
<1>6. Order'
  BY <1>2, <1>3, Fixed DEF Order, Contained
<1>7. Attempts' /\ Stalls'
  BY <1>1, <1>2, Fixed DEF Attempts, Stalls, Contained, Untried, NotActed, Over
<1>8. Pauses'
  BY <1>1, <1>2 DEF Pauses
<1>9. Presses'
  BY <1>1 DEF Presses, Contained, NotActed, Over
<1>10. Proposals'
  BY <1>1 DEF Proposals, AuthorityIsNeverProposed, Over
<1>11. Attendance'
  BY <1>1, Fixed DEF Attendance, UnattendedRunsFail, Contained
<1>12. Reports'
  BY <1>1, <1>2 DEF Reports, SuccessIsEarned, ResultIsOnRecord, Over
<1> QED
  BY <1>4, <1>5, <1>6, <1>7, <1>8, <1>9, <1>10, <1>11, <1>12

\* A step may hold wherever its checkpoint is asked.
LEMMA Holding ==
  ASSUME RInv, Contained,
         at \in {"verifying", "verifying_again", "remedying", "returned"},
         NEW now \in Ladder, Holds(now), ~now.assisted,
         UNCHANGED <<session, log>>, tried' = RECOVERY_BUDGET_PER_RUN - budget'
  PROVE  RInv'
<1> USE DEF RInv
<1>1. /\ at' \in {"collecting", "observing"} /\ result' = result
      /\ at' = "collecting" => step' = step /\ step = Len(capability.steps) /\ ladder' = now
      /\ at' = "observing" => step' = step + 1 /\ ladder' = NewStep
      /\ step' \in Steps /\ ladder' \in Ladder
      /\ records' \in [Steps -> StepRecord]
      /\ records'[step].checkpoint = "held"
      /\ \A s \in Steps : s # step => records'[s] = records[s]
  BY HoldsMoves
<1>2. /\ step \in Steps /\ Steps = 1..Len(capability.steps) /\ Len(capability.steps) \in Nat
      /\ at' \notin Over /\ at \notin Over /\ step' \in Nat
  BY <1>1, Artifact DEF TypeOK, Over
<1>3. owner' = owner /\ episode' = episode /\ outcome' = outcome /\ ended' = ended
  BY DEF session, log
<1>4. TypeOK'
  BY <1>1, <1>2, <1>3, TypesKept DEF TypeOK, Places
<1>5. Control'
  BY <1>1, <1>3 DEF Control, ControlIsNeverLost
<1>6. Order'
  <2>1. Steps' = Steps /\ landed' \in [Steps -> Nat]
        /\ \A s \in Steps : s # step => landed'[s] = landed[s]
    BY Fixed DEF Contained
  <2>2. \A s \in Steps : s < step' => records'[s].checkpoint = "held"
    BY <1>1, <1>2 DEF Order
  <2>3. ASSUME NEW s \in Steps, s > step'
        PROVE  landed'[s] = 0 /\ records'[s].checkpoint \in {"none", "not_reached"}
    <3>1. s > step /\ s # step
      BY <1>1, <1>2, <2>3
    <3> QED
      BY <1>1, <2>1, <3>1 DEF Order
  <2> QED
    BY <2>1, <2>2, <2>3 DEF Order
<1>7. Attempts' /\ Stalls'
  BY <1>1, <1>2, Fixed DEF Attempts, Stalls, Contained, Untried, NotActed, NewStep
<1>8. Pauses'
  <2>1. episode \in Nat /\ episode <= 2 * step
    BY DEF Pauses, TypeOK
  <2>2. CASE at' = "collecting"
    BY <1>1, <1>2, <1>3, <2>1, <2>2 DEF Pauses
  <2>3. CASE at' = "observing"
    BY <1>1, <1>2, <1>3, <2>1, <2>3 DEF Pauses
  <2> QED
    BY <1>1, <2>2, <2>3
<1>9. Presses'
  BY <1>1, <1>2, Fixed DEF Presses, Contained, NotActed, Order
<1>10. Proposals'
  BY <1>1, <1>2 DEF Proposals, AuthorityIsNeverProposed, NewStep, Reports, NoResult
<1>11. Attendance'
  BY <1>1, <1>3, Fixed DEF Attendance, UnattendedRunsFail, Contained
<1>12. Reports'
  <2>1. result' = NoResult /\ outcome' = Nothing /\ ended' = "none"
    BY <1>1, <1>2, <1>3 DEF Reports, Over
  <2>2. result'.class = "none" /\ at' # "done" /\ at' # "finalising"
    BY <1>1, <2>1 DEF NoResult
  <2>3. at' = "collecting" => \A s \in Steps' : records'[s].checkpoint = "held"
    <3>1. Steps' = Steps
      BY Fixed DEF Contained
    <3> QED
      BY <1>1, <1>2, <3>1 DEF Order
  <2> QED
    BY <2>1, <2>2, <2>3 DEF Reports, SuccessIsEarned, ResultIsOnRecord
<1> QED
  BY <1>4, <1>5, <1>6, <1>7, <1>8, <1>9, <1>10, <1>11, <1>12

\* A step may be answered wherever the screen, or an advisor, is asked.
LEMMA Answering ==
  ASSUME RInv, Contained, at \notin Over \cup {"paused"},
         NEW now \in Ladder, NEW code \in Codes, Answers(now, code),
         now.assisted => code \notin DOMAIN capability.human, at # "starting",
         UNCHANGED <<session, log>>, tried' = RECOVERY_BUDGET_PER_RUN - budget'
  PROVE  RInv'
<1> USE DEF RInv
<1>1. /\ at' = "answering" /\ result' = result /\ step' = step
      /\ ladder' = [now EXCEPT !.code = code] /\ ladder' \in Ladder
      /\ records' \in [Steps -> StepRecord]
      /\ \A s \in Steps : s < step => records'[s] = records[s]
      /\ \A s \in Steps : s > step => records'[s].checkpoint = "not_reached"
  BY AnswersMoves
<1>2. /\ step \in Steps /\ step \in Nat /\ Steps \subseteq Nat
      /\ ladder'.code = code /\ ladder'.assisted = now.assisted
  <2>1. step \in Steps /\ step \in Nat /\ Steps \subseteq Nat
    BY Artifact DEF TypeOK
  <2> QED
    BY <1>1, <2>1 DEF Ladder
<1>3. owner' = owner /\ episode' = episode /\ outcome' = outcome /\ ended' = ended
  BY DEF session, log
<1>4. TypeOK'
  BY <1>1, <1>2, <1>3, TypesKept DEF TypeOK, Places
<1>5. Control'
  BY <1>1, <1>3 DEF Control, ControlIsNeverLost
<1>6. Order'
  BY <1>1, <1>2, Fixed DEF Order, Contained
<1>7. Attempts' /\ Stalls'
  BY <1>1, Fixed DEF Attempts, Stalls, Contained, Untried, NotActed
<1>8. Pauses'
  BY <1>1, <1>3 DEF Pauses
<1>9. Presses'
  BY <1>1, Fixed DEF Presses, Contained, NotActed, Over
<1>10. Proposals'
  BY <1>1, <1>2, Fixed DEF Proposals, AuthorityIsNeverProposed, Reports, NoResult, Contained
<1>11. Attendance'
  BY <1>1, <1>3, Fixed DEF Attendance, UnattendedRunsFail, Contained
<1>12. Reports'
  BY <1>1, <1>3 DEF Reports, SuccessIsEarned, ResultIsOnRecord, Over, NoResult
<1> QED
  BY <1>4, <1>5, <1>6, <1>7, <1>8, <1>9, <1>10, <1>11, <1>12

\* A rung is left for another one, which is where it should be.
LEMMA Climbing ==
  ASSUME RInv, Contained, at \notin Over \cup {"answering", "collecting"},
         NEW place \in Places \ (Over \cup {"starting", "answering", "collecting"}),
         NEW now \in Ladder, GoesTo(place, now), ~now.assisted, UNCHANGED log,
         owner' \in {"automation", "paused", "operator", "resume_requested"},
         owner' = "automation" <=> place # "paused",
         episode' \in 0..MaxEpisodes, ~attended => episode' = 0,
         place \in {"paused", "returned", "acting_again", "verifying_again"} => attended,
         unsafeRepeats(capability) = {}, NotActed' => landed'[step] = 0,
         Attempts', Stalls', Pauses'
  PROVE  RInv'
<1> USE DEF RInv
<1>1. /\ at' = place /\ ladder' = now /\ step' = step /\ records' = records
      /\ result' = result /\ outcome' = outcome /\ ended' = ended
  BY DEF GoesTo, log
<1>2. /\ step \in Steps /\ step \in Nat /\ Steps \subseteq Nat
      /\ place \notin Over \cup {"answering", "collecting"}
  BY Artifact DEF TypeOK
<1>3. result' = NoResult /\ outcome' = Nothing /\ ended' = "none"
  BY <1>1 DEF Reports, Over
<1>4. TypeOK'
  BY <1>1, <1>2, TypesKept DEF TypeOK
<1>5. Control'
  BY <1>1 DEF Control, ControlIsNeverLost
<1>6. Order'
  BY <1>1, <1>2, Fixed DEF Order, Contained
<1>7. Presses'
  BY <1>1, Fixed DEF Presses, Contained, unsafeRepeats
<1>8. Proposals'
  BY <1>1, <1>2, <1>3 DEF Proposals, AuthorityIsNeverProposed, NoResult
<1>9. Attendance'
  BY <1>1, <1>3, Fixed DEF Attendance, UnattendedRunsFail, Contained, NoResult
<1>10. Reports'
  BY <1>1, <1>2, <1>3 DEF Reports, SuccessIsEarned, ResultIsOnRecord, Over, NoResult
<1> QED
  BY <1>4, <1>5, <1>6, <1>7, <1>8, <1>9, <1>10

\* A rung that touches nothing of the run's accounts is contained.
LEMMA Untouched ==
  ASSUME RInv, UNCHANGED <<fixed, readings, budgets, history>>
  PROVE  Contained
<1>1. capability' = capability /\ Steps' = Steps /\ Rules' = Rules
  BY Fixed
<1>2. /\ landed' = landed /\ remedied' = remedied /\ tried' = tried /\ consulted' = consulted
      /\ budget' = budget /\ assistBudget' = assistBudget /\ readings' = readings
  BY DEF history, budgets
<1>3. RiskyStepsLandOnce'
  BY <1>1, <1>2 DEF RInv, Presses, RiskyStepsLandOnce
<1> QED
  BY <1>2, <1>3 DEF Contained, RInv, TypeOK, Attempts

\* Any failure but a lost session may end the run wherever it has its session.
LEMMA Failing ==
  ASSUME RInv, at \notin Over \cup {"paused"}, NEW reason \in Failures \ {"control_lost"},
         Fails(reason), Stays, UNCHANGED <<fixed, readings, budgets, session, log, history>>
  PROVE  RInv'
<1>1. Contained
  BY Untouched
<1>2. owner' = owner /\ episode' = episode
  BY DEF session
<1>3. owner' = "automation" /\ episode' \in 0..MaxEpisodes /\ episode' <= 2 * step
  BY <1>2 DEF RInv, Control, Pauses, TypeOK
<1>4. ~attended => episode' = 0
  BY <1>2 DEF RInv, Attendance, UnattendedRunsFail
<1> QED
  BY <1>1, <1>3, <1>4, EndingShort DEF Fails, Stays

-----------------------------------------------------------------------------
(* The actions                                                              *)

\* A run starts with everything to do and nothing done.
LEMMA InitInvariant == Init => RInv
<1> SUFFICES ASSUME Init PROVE RInv
  OBVIOUS
<1>1. /\ Steps = 1..Len(capability.steps) /\ Len(capability.steps) \in Nat /\ Steps # {}
  BY Artifact DEF Init
<1>2. step = 1 /\ 1 \in Steps
  BY <1>1 DEF Init
<1>3. /\ owner = "automation" /\ episode = 0 /\ at = "starting" /\ ladder = NewStep
      /\ result = NoResult /\ outcome = Nothing /\ ended = "none"
  BY DEF Init, Session!OwnershipInit
<1>4. TypeOK
  BY <1>2, <1>3, NullsTyped, ReplayAssumption
  DEF Init, TypeOK, Places, RECOVERY_BUDGET_PER_RUN, ASSIST_BUDGET_PER_RUN
<1>5. Control /\ Order
  BY <1>1, <1>2, <1>3 DEF Init, Control, ControlIsNeverLost, NoResult, Order, NoRecord
<1>6. Attempts /\ Stalls
  BY <1>3 DEF Init, Attempts, Stalls, Over, NewStep, RECOVERY_BUDGET_PER_RUN, ASSIST_BUDGET_PER_RUN
<1>7. Pauses
  BY <1>2, <1>3 DEF Pauses
<1>8. Presses
  BY <1>2, <1>3 DEF Init, Presses, RiskyStepsLandOnce, Over
<1>9. Proposals /\ Attendance
  BY <1>3 DEF Proposals, AuthorityIsNeverProposed, Attendance, UnattendedRunsFail, NewStep, NoResult
<1>10. Reports
  BY <1>3 DEF Reports, SuccessIsEarned, ResultIsOnRecord, NoResult
<1> QED
  BY <1>4, <1>5, <1>6, <1>7, <1>8, <1>9, <1>10 DEF RInv

\* An artifact that may repeat a risky action unargued is refused.
LEMMA StartInvariant ==
  ASSUME RInv, Start
  PROVE  RInv'
<1>1. at = "starting" /\ at \notin Over \cup {"paused", "answering", "collecting"}
  BY DEF Start, Over
<1>2. CASE unsafeRepeats(capability) # {}
  BY <1>1, <1>2, Failing DEF Start, Failures
<1>3. CASE unsafeRepeats(capability) = {}
  <2>1. GoesTo("observing", NewStep) /\ at' = "observing" /\ ladder' = NewStep /\ step' = step
    BY <1>3 DEF Start, GoesTo
  <2>2. Contained
    BY Untouched DEF Start
  <2>3. /\ owner' = owner /\ episode' = episode /\ UNCHANGED log /\ landed' = landed
        /\ tried' = tried /\ budget' = budget /\ consulted' = consulted
        /\ assistBudget' = assistBudget
    BY DEF Start, session, history, budgets
  <2>4. Attempts' /\ Stalls' /\ Pauses'
    BY <1>1, <2>1, <2>3 DEF RInv, Attempts, Stalls, Pauses, Over, NewStep
  <2>5. "observing" \in Places \ (Over \cup {"starting", "answering", "collecting"})
    BY DEF Places, Over
  <2>6. landed[step] = 0 /\ owner = "automation" /\ episode \in 0..MaxEpisodes
    BY <1>1 DEF RInv, Presses, NotActed, Control, TypeOK
  <2>7. ~attended => episode = 0
    BY DEF RInv, Attendance, UnattendedRunsFail
  <2>8. ~NewStep.assisted
    BY DEF NewStep
  <2> QED
    BY <1>1, <1>3, <2>1, <2>2, <2>3, <2>4, <2>5, <2>6, <2>7, <2>8, Climbing, NullsTyped
<1> QED
  BY <1>2, <1>3

\* What a rung that only decides leaves as it was.
LEMMA Deciding ==
  ASSUME RInv, at # "paused",
         UNCHANGED <<fixed, readings, budgets, session, log, history>>
  PROVE  /\ Contained /\ UNCHANGED log /\ UNCHANGED session
         /\ owner' = "automation" /\ episode' = episode /\ episode \in 0..MaxEpisodes
         /\ ~attended => episode = 0
         /\ landed' = landed /\ tried' = tried /\ budget' = budget
         /\ consulted' = consulted /\ assistBudget' = assistBudget
         /\ capability' = capability /\ Rules' = Rules
<1>1. Contained
  BY Untouched
<1>2. owner' = owner /\ episode' = episode /\ UNCHANGED log
  BY DEF session
<1>3. owner = "automation" /\ episode \in 0..MaxEpisodes /\ (~attended => episode = 0)
  BY DEF RInv, Control, TypeOK, Attendance, UnattendedRunsFail
<1> QED
  BY <1>1, <1>2, <1>3, Fixed DEF history, budgets

\* A rung that only decides on the next one.
LEMMA Deferring ==
  ASSUME RInv, at \notin Over \cup {"starting", "answering", "collecting", "paused"},
         UNCHANGED <<fixed, readings, budgets, session, log, history>>,
         NEW place \in {"acting", "recovering", "remedying", "consulting", "handing",
                        "acting_again"},
         NEW now \in Ladder, GoesTo(place, now), ~now.assisted,
         place = "acting_again" => attended,
         NotActed' => NotActed, Attempts', Stalls', Pauses'
  PROVE  RInv'
<1>1. /\ Contained /\ UNCHANGED log /\ owner' = "automation" /\ episode' = episode
      /\ episode \in 0..MaxEpisodes /\ (~attended => episode = 0) /\ landed' = landed
  BY Deciding
<1>2. /\ place \in Places \ (Over \cup {"starting", "answering", "collecting"})
      /\ place \notin {"paused", "returned", "verifying_again"}
      /\ at \notin Over \cup {"answering", "collecting"}
  BY DEF Places, Over
<1>3. unsafeRepeats(capability) = {} /\ (NotActed => landed[step] = 0) /\ step' = step
  BY DEF RInv, Presses, GoesTo
<1> QED
  BY <1>1, <1>2, <1>3, Climbing

\* The first look of a step.
LEMMA ObserveInvariant ==
  ASSUME RInv, Observe
  PROVE  RInv'
<1>1. /\ at = "observing" /\ at' = "acting" /\ ladder' = NewStep /\ step' = step
      /\ GoesTo("acting", NewStep) /\ ~NewStep.assisted /\ NewStep.tries = 0
      /\ UNCHANGED <<fixed, readings, budgets, session, log, history>>
  BY DEF Observe, GoesTo, NewStep
<1>2. /\ episode' = episode /\ tried' = tried /\ budget' = budget
      /\ consulted' = consulted /\ assistBudget' = assistBudget
  BY <1>1, Deciding
<1>3. Attempts' /\ Stalls' /\ Pauses'
  BY <1>1, <1>2 DEF RInv, Attempts, Stalls, Pauses, Over
<1>4. NotActed
  BY <1>1 DEF NotActed
<1> QED
  BY <1>1, <1>3, <1>4, NullsTyped, Deferring DEF Over

\* What stops the engine is never that somebody else has its session.
LEMMA BreaksInvariant ==
  ASSUME RInv, Breaks
  PROVE  RInv'
<1>1. PICK reason \in Breakage \cup (IF at \in ToThePage /\ ~Claimed THEN {"control_lost"} ELSE {}) :
        Fails(reason)
  BY DEF Breaks
<1>2. at \in ToThePage => Claimed
  BY DEF ToThePage, Claimed, RInv, Control
<1>3. reason \in Breakage
  BY <1>1, <1>2
<1>4. at \notin Over \cup {"paused"} /\ reason \in Failures \ {"control_lost"}
  BY <1>3 DEF Breakage, Over, Failures
<1> QED
  BY <1>1, <1>4, Failing DEF Breaks

\* An action lands once, on a page the engine has to itself.
LEMMA LandsInvariant ==
  ASSUME RInv, Lands
  PROVE  RInv'
<1> USE DEF RInv
<1>1. /\ at \in {"acting", "acting_again"} /\ NotActed /\ landed[step] = 0
      /\ at \notin Over \cup {"starting", "paused", "answering", "collecting"}
      /\ step \in Steps /\ landed \in [Steps -> Nat]
      /\ landed' = [landed EXCEPT ![step] = @ + 1]
  BY DEF Lands, NotActed, Presses, TypeOK, Over
<1>2. /\ landed' \in [Steps -> Nat] /\ landed'[step] = 1
      /\ \A s \in Steps : s # step => landed'[s] = landed[s]
  BY <1>1
<1>3. /\ UNCHANGED fixed /\ owner' = owner /\ episode' = episode /\ UNCHANGED log
      /\ UNCHANGED session
      /\ tried' = tried /\ budget' = budget /\ consulted' = consulted
      /\ assistBudget' = assistBudget /\ remedied' = remedied
  BY DEF Lands, session, budgets
<1>4. /\ owner = "automation" /\ episode \in 0..MaxEpisodes /\ episode <= 2 * step
      /\ (~attended => episode = 0)
  BY <1>1 DEF Control, TypeOK, Pauses, Attendance, UnattendedRunsFail
<1>5. readings' \in [Steps -> Values \cup {Nothing}]
  BY <1>1 DEF Lands, TypeOK, Bound, ReadBy
<1>6. RiskyStepsLandOnce'
  BY <1>2, <1>3, Fixed DEF Presses, RiskyStepsLandOnce
<1>7. Contained
  BY <1>2, <1>3, <1>5, <1>6 DEF Contained, TypeOK, Attempts
<1>8. CASE Fails("evidence_failed") /\ Stays
  BY <1>1, <1>3, <1>4, <1>7, <1>8, EndingShort DEF Fails, Stays, Failures
<1>9. ASSUME NEW value \in ReadBy(type), GoesTo("verifying", [ladder EXCEPT !.read = value])
      PROVE  RInv'
  <2>1. [ladder EXCEPT !.read = value] \in Ladder
    BY DEF TypeOK, Ladder, ReadBy
  <2>2. /\ at' = "verifying" /\ step' = step /\ ladder' = [ladder EXCEPT !.read = value]
        /\ ladder'.tries = ladder.tries /\ ladder'.assisted = ladder.assisted
    BY <1>9 DEF GoesTo, TypeOK, Ladder
  <2>3. ~ladder.assisted /\ ladder.tries = 0 /\ step \in Nat
    <3>1. ~ladder.assisted /\ ladder.tries = 0
      BY <1>1 DEF Proposals, Attempts, Untried
    <3>2. Steps \subseteq Nat
      BY Artifact DEF TypeOK
    <3> QED
      BY <1>1, <3>1, <3>2
  <2>4. Attempts' /\ Stalls'
    BY <1>1, <1>3, <2>2, <2>3 DEF Attempts, Stalls, Over
  <2>5. Pauses'
    BY <1>1, <1>3, <1>4, <2>2, <2>3 DEF Pauses
  <2>6. "verifying" \in Places \ (Over \cup {"starting", "answering", "collecting"})
    BY DEF Places, Over
  <2>7. unsafeRepeats(capability) = {} /\ ~NotActed'
    BY <1>1, <2>2 DEF Presses, NotActed
  <2> QED
    BY <1>1, <1>3, <1>4, <1>7, <1>9, <2>1, <2>2, <2>3, <2>4, <2>5, <2>6, <2>7, Climbing
<1> QED
  BY <1>8, <1>9 DEF Lands

\* The codes an artifact names are codes.
LEMMA NamedCodes ==
  ASSUME capability \in Capabilities
  PROVE  /\ capability.noMatch.code \in Codes /\ capability.outcomes \subseteq Codes
         /\ DOMAIN capability.human \subseteq Codes
         /\ DOMAIN capability.human \cap capability.outcomes = {}
<1>1. IsCapability(capability)
  BY ReplayAssumption
<1> QED
  BY <1>1 DEF IsCapability

\* A list that offers nothing may be an answer, and no advisor gave it.
LEMMA AnsweredInvariant ==
  ASSUME RInv, Answered
  PROVE  RInv'
<1>1. /\ at \notin Over \cup {"starting", "answering", "collecting", "paused", "remedying"}
      /\ Answers(ladder, capability.noMatch.code)
      /\ UNCHANGED <<fixed, readings, budgets, session, log, history>>
  BY DEF Answered, Over
<1>2. Contained /\ UNCHANGED <<session, log>> /\ tried' = tried /\ budget' = budget
  BY <1>1, Deciding
<1>3. /\ tried = RECOVERY_BUDGET_PER_RUN - budget /\ ~ladder.assisted
      /\ ladder \in Ladder /\ capability.noMatch.code \in Codes
  BY <1>1, NamedCodes DEF RInv, Attempts, Proposals, TypeOK
<1> QED
  BY <1>1, <1>2, <1>3, Answering

\* A blocked action is worth one look down the ladder, and no second one.
LEMMA BlockedInvariant ==
  ASSUME RInv, Blocked
  PROVE  RInv'
<1>1. /\ at \in {"acting", "acting_again"} /\ NotActed
      /\ at \notin Over \cup {"starting", "answering", "collecting", "paused", "remedying"}
      /\ UNCHANGED <<fixed, readings, budgets, session, log, history>>
  BY DEF Blocked, NotActed, Over
<1>2. /\ Contained /\ UNCHANGED log /\ tried' = tried /\ budget' = budget
      /\ owner' = "automation" /\ episode' = episode /\ episode \in 0..MaxEpisodes
      /\ consulted' = consulted /\ assistBudget' = assistBudget
      /\ (~attended => episode = 0)
  BY <1>1, Deciding
<1>3. CASE at = "acting_again" /\ Escalates(Nothing) /\ Stays
  <2>1. attended /\ episode <= 2 * step
    BY <1>3 DEF RInv, Attendance, Pauses
  <2> QED
    BY <1>1, <1>2, <1>3, <2>1, EndingShort DEF Escalates, Stays
<1>4. ASSUME NEW why \in ActionStalls, at = "acting",
             GoesTo("consulting", [ladder EXCEPT !.stall = why])
      PROVE  RInv'
  <2>1. [ladder EXCEPT !.stall = why] \in Ladder /\ ladder \in Ladder
    BY DEF RInv, TypeOK, Ladder
  <2>2. /\ at' = "consulting" /\ step' = step /\ ladder' = [ladder EXCEPT !.stall = why]
        /\ ladder'.stall = why /\ ladder'.tries = ladder.tries
        /\ ladder'.assisted = ladder.assisted
    BY <1>4, <2>1 DEF GoesTo, Ladder
  <2>3. ~ladder.assisted /\ ladder.tries = 0 /\ step \in Nat
    BY <1>1, Artifact DEF RInv, Proposals, Attempts, Untried, TypeOK
  <2>4. Attempts' /\ Stalls'
    BY <1>1, <1>2, <2>2, <2>3 DEF RInv, Attempts, Stalls, Over
  <2>5. Pauses'
    BY <1>2, <1>4, <2>2, <2>3 DEF RInv, Pauses, ActionStalls
  <2> QED
    BY <1>1, <1>4, <2>1, <2>2, <2>3, <2>4, <2>5, Deferring
<1> QED
  BY <1>3, <1>4 DEF Blocked, ActionStalls

\* A checkpoint settles a step, or sends it one rung on.
LEMMA VerifyInvariant ==
  ASSUME RInv, Verify
  PROVE  RInv'
<1>1. /\ at \in {"verifying", "verifying_again"}
      /\ at \notin Over \cup {"starting", "answering", "collecting", "paused", "remedying"}
      /\ UNCHANGED <<fixed, readings, budgets, session, log, history>>
  BY DEF Verify, Over
<1>2. /\ Contained /\ UNCHANGED <<session, log>> /\ tried' = tried /\ budget' = budget
      /\ owner' = "automation" /\ episode' = episode /\ episode \in 0..MaxEpisodes
      /\ consulted' = consulted /\ assistBudget' = assistBudget
      /\ (~attended => episode = 0)
  BY <1>1, Deciding
<1>3. tried = RECOVERY_BUDGET_PER_RUN - budget /\ ~ladder.assisted /\ ladder \in Ladder
  BY <1>1 DEF RInv, Attempts, Proposals, TypeOK
<1>4. CASE Holds(ladder)
  BY <1>1, <1>2, <1>3, <1>4, Holding
<1>5. ASSUME NEW code \in capability.outcomes, Answers(ladder, code)
      PROVE  RInv'
  <2>1. code \in Codes
    BY NamedCodes DEF RInv, TypeOK
  <2> QED
    BY <1>1, <1>2, <1>3, <1>5, <2>1, Answering
<1>6. CASE at = "verifying" /\ GoesTo("recovering", ladder)
  <2>1. at' = "recovering" /\ step' = step /\ ladder' = ladder
    BY <1>6 DEF GoesTo
  <2>2. Attempts' /\ Stalls'
    BY <1>2, <1>6, <2>1 DEF RInv, Attempts, Stalls, Over, Untried
  <2>3. Pauses' /\ ~NotActed'
    BY <1>2, <1>6, <2>1 DEF RInv, Pauses, NotActed
  <2> QED
    BY <1>1, <1>3, <1>6, <2>2, <2>3, Deferring
<1>7. CASE at = "verifying_again" /\ Escalates(Nothing)
           /\ records' = Recorded(ladder, "failed") /\ UNCHANGED <<step, ladder>>
  <2>1. attended /\ episode <= 2 * step
    BY <1>7 DEF RInv, Attendance, Pauses
  <2> QED
    BY <1>1, <1>2, <1>7, <2>1, EndingShort DEF Escalates
<1> QED
  BY <1>4, <1>5, <1>6, <1>7 DEF Verify

\* A rule is tried only within what is left of the budget of the run.
LEMMA RecoverInvariant ==
  ASSUME RInv, Recover
  PROVE  RInv'
<1>1. /\ at = "recovering"
      /\ at \notin Over \cup {"starting", "answering", "collecting", "paused", "remedying"}
      /\ UNCHANGED <<fixed, readings, budgets, session, log, history>>
  BY DEF Recover, Over
<1>2. /\ tried' = tried /\ budget' = budget /\ episode' = episode /\ episode \in 0..MaxEpisodes
      /\ consulted' = consulted /\ assistBudget' = assistBudget
      /\ capability' = capability /\ Rules' = Rules
  BY <1>1, Deciding
<1>3. /\ tried = RECOVERY_BUDGET_PER_RUN - budget /\ ~ladder.assisted /\ ladder \in Ladder
      /\ ladder.tries = 0 /\ step \in Nat /\ episode <= 2 * step - 1
  BY <1>1, Artifact DEF RInv, Attempts, Proposals, TypeOK, Untried, Pauses
<1>4. ASSUME NEW place \in {"handing", "consulting", "remedying"}, NEW now \in Ladder,
             GoesTo(place, now), ~now.assisted, now.tries = 0,
             now.stall \in {"checkpoint", "human"},
             now.stall = "human" => place = "handing" /\ now.code \in DOMAIN capability.human,
             place = "remedying" => now.rule \in Rules /\ Allowed(now.rule) > 0
      PROVE  RInv'
  <2>1. at' = place /\ ladder' = now /\ step' = step
    BY <1>4 DEF GoesTo
  <2>2. Attempts'
    BY <1>2, <1>3, <1>4, <2>1 DEF RInv, Attempts, Over, Allowed, Least
  <2>3. Stalls'
    BY <1>2, <1>4, <2>1 DEF Stalls
  <2>4. Pauses' /\ ~NotActed'
    BY <1>2, <1>3, <1>4, <2>1 DEF Pauses, NotActed, ActionStalls
  <2> QED
    BY <1>1, <1>4, <2>2, <2>3, <2>4, Deferring
<1>5. ASSUME NEW code \in HumanCodes,
             GoesTo("handing", [ladder EXCEPT !.stall = "human", !.code = code])
      PROVE  RInv'
  <2>1. code \in DOMAIN capability.human /\ code \in Codes
    BY NamedCodes DEF HumanCodes, RInv, TypeOK
  <2> DEFINE now == [ladder EXCEPT !.stall = "human", !.code = code]
  <2>2. /\ now \in Ladder /\ now.stall = "human" /\ now.code = code
        /\ now.tries = ladder.tries /\ now.assisted = ladder.assisted
    BY <1>3, <2>1 DEF Ladder
  <2> QED
    BY <1>3, <1>4, <1>5, <2>1, <2>2
<1>6. CASE GoesTo("consulting", [ladder EXCEPT !.stall = "checkpoint"])
  <2> DEFINE now == [ladder EXCEPT !.stall = "checkpoint"]
  <2>1. /\ now \in Ladder /\ now.stall = "checkpoint"
        /\ now.tries = ladder.tries /\ now.assisted = ladder.assisted
    BY <1>3 DEF Ladder
  <2> QED
    BY <1>3, <1>4, <1>6, <2>1
<1>7. ASSUME NEW r \in Rules,
             GoesTo(IF Allowed(r) > 0 THEN "remedying" ELSE "consulting",
                    [ladder EXCEPT !.stall = "checkpoint", !.rule = r])
      PROVE  RInv'
  <2> DEFINE now == [ladder EXCEPT !.stall = "checkpoint", !.rule = r]
  <2>1. /\ now \in Ladder /\ now.stall = "checkpoint" /\ now.rule = r
        /\ now.tries = ladder.tries /\ now.assisted = ladder.assisted
    BY <1>3 DEF Ladder
  <2>2. CASE Allowed(r) > 0
    BY <1>3, <1>4, <1>7, <2>1, <2>2
  <2>3. CASE ~(Allowed(r) > 0)
    BY <1>3, <1>4, <1>7, <2>1, <2>3
  <2> QED
    BY <2>2, <2>3
<1> QED
  BY <1>5, <1>6, <1>7 DEF Recover

\* An attempt stays within the budget, and repeats a press only if that was
\* argued for.
LEMMA RemedyContained ==
  ASSUME RInv, Remedy
  PROVE  /\ Contained /\ tried' = tried + 1
         /\ ladder.tries + 1 <= Allowed(ladder.rule) /\ Allowed(ladder.rule) <= budget
         /\ Allowed(ladder.rule) \in Nat
         /\ budget' = Spent(ladder.tries + 1) => tried' = RECOVERY_BUDGET_PER_RUN - budget'
<1> USE DEF RInv
<1> DEFINE rule == capability.rules[ladder.rule]
<1>1. /\ at = "remedying" /\ ladder.rule \in Rules /\ ladder.tries < Allowed(ladder.rule)
      /\ tried = RECOVERY_BUDGET_PER_RUN - budget + ladder.tries
      /\ ladder.tries \in Nat /\ budget \in Nat /\ budget <= RECOVERY_BUDGET_PER_RUN
      /\ RECOVERY_BUDGET_PER_RUN \in Nat
  BY DEF Remedy, Attempts, TypeOK, Ladder, RECOVERY_BUDGET_PER_RUN
<1>2. rule \in Rule /\ rule.attempts \in Nat
  BY <1>1, Artifact DEF TypeOK, Rule
<1>3. Allowed(ladder.rule) \in Nat /\ Allowed(ladder.rule) <= budget
  BY <1>1, <1>2 DEF Allowed, Least
<1>4. tried' = tried + 1 /\ ladder.tries + 1 <= Allowed(ladder.rule)
  BY <1>1, <1>3 DEF Remedy
<1>5. budget' \in {budget, Spent(ladder.tries + 1)}
  BY DEF Remedy
<1>6. budget' = Spent(ladder.tries + 1) => tried' = RECOVERY_BUDGET_PER_RUN - budget'
  BY <1>1, <1>4 DEF Spent
<1>7. budget' \in 0..RECOVERY_BUDGET_PER_RUN
  BY <1>1, <1>3, <1>4, <1>5 DEF Spent
<1>8. tried' \in Nat /\ tried' <= RECOVERY_BUDGET_PER_RUN
  BY <1>1, <1>3, <1>4
<1>9. PICK worked \in BOOLEAN, repeated \in (IF rule.atStep THEN BOOLEAN ELSE {FALSE}) :
        /\ remedied' = [remedied EXCEPT ![ladder.rule] = @ + (IF worked THEN 1 ELSE 0)]
        /\ landed' = [landed EXCEPT ![step] = @ + (IF repeated THEN 1 ELSE 0)]
        /\ IF repeated THEN \E value \in ReadBy(type) : readings' = Bound(value)
           ELSE UNCHANGED readings
  BY DEF Remedy
<1>10. step \in Steps /\ landed \in [Steps -> Nat] /\ remedied \in [Rules -> Nat]
  BY DEF TypeOK
<1>11. /\ landed' \in [Steps -> Nat] /\ remedied' \in [Rules -> Nat]
       /\ \A s \in Steps : s # step => landed'[s] = landed[s]
       /\ ~repeated => landed'[step] = landed[step]
  <2> DEFINE again == IF repeated THEN 1 ELSE 0
             cleared == IF worked THEN 1 ELSE 0
  <2>1. again \in Nat /\ (~repeated => again = 0) /\ cleared \in Nat
    OBVIOUS
  <2>2. landed' = [landed EXCEPT ![step] = @ + again]
    BY <1>9
  <2>3. remedied' = [remedied EXCEPT ![ladder.rule] = @ + cleared]
    BY <1>9
  <2> HIDE DEF again, cleared
  <2>4. /\ landed' \in [Steps -> Nat]
        /\ \A s \in Steps : s # step => landed'[s] = landed[s]
        /\ ~repeated => landed'[step] = landed[step]
    BY <2>1, <2>2, <1>10
  <2>5. remedied' \in [Rules -> Nat]
    BY <2>1, <2>3, <1>1, <1>10
  <2> QED
    BY <2>4, <2>5
<1>12. readings' \in [Steps -> Values \cup {Nothing}]
  <2>1. readings \in [Steps -> Values \cup {Nothing}]
    BY DEF TypeOK
  <2>2. \A value \in ReadBy(type) : Bound(value) \in [Steps -> Values \cup {Nothing}]
    BY <2>1, <1>10 DEF ReadBy, Bound
  <2> QED
    BY <2>1, <2>2, <1>9
<1>13. UNCHANGED fixed /\ consulted' = consulted /\ assistBudget' = assistBudget
  BY DEF Remedy
<1>14. RiskyStepsLandOnce'
  <2>1. capability' = capability /\ Steps' = Steps /\ Rules' = Rules
    BY <1>13, Fixed
  <2>2. RiskyStepsLandOnce /\ unsafeRepeats(capability) = {}
    BY <1>1 DEF Presses, Over
  <2>3. ASSUME Risky(capability.steps[step]), repeated
        PROVE  rule.atStep /\ rule.justified
    <3>1. rule.atStep
      BY <2>3, <1>9
    <3>2. ladder.rule \notin unsafeRepeats(capability)
      BY <2>2
    <3>3. \E s \in DOMAIN capability.steps : Risky(capability.steps[s])
      BY <2>3, <1>10 DEF Steps
    <3>4. rule.justified
      BY <1>1, <3>1, <3>2, <3>3 DEF unsafeRepeats, Rules
    <3> QED
      BY <3>1, <3>4
  <2>4. ASSUME NEW s \in Steps, Risky(capability.steps[s]), landed'[s] > 1
        PROVE  \E r \in Rules : capability.rules[r].atStep /\ capability.rules[r].justified
    <3>1. CASE s = step /\ repeated
      BY <1>1, <2>3, <2>4, <3>1
    <3>2. CASE ~(s = step /\ repeated)
      <4>1. landed'[s] = landed[s]
        BY <1>11, <3>2
      <4> QED
        BY <2>2, <2>4, <4>1 DEF RiskyStepsLandOnce
    <3> QED
      BY <3>1, <3>2
  <2> QED
    BY <2>1, <2>4 DEF RiskyStepsLandOnce, Risky
<1>15. consulted' = ASSIST_BUDGET_PER_RUN - assistBudget' /\ assistBudget' \in 0..ASSIST_BUDGET_PER_RUN
  BY <1>13 DEF Attempts, TypeOK
<1> QED
  BY <1>3, <1>4, <1>6, <1>7, <1>8, <1>11, <1>12, <1>13, <1>14, <1>15 DEF Contained

\* An attempt clears the condition, gives up, or is followed by another.
LEMMA RemedyInvariant ==
  ASSUME RInv, Remedy
  PROVE  RInv'
<1> USE DEF RInv
<1> DEFINE attempts == ladder.tries + 1
           tiring == [ladder EXCEPT !.tries = attempts]
           cured == [ladder EXCEPT !.tries = attempts, !.recovered = TRUE]
<1>1. /\ Contained /\ tried' = tried + 1
      /\ attempts <= Allowed(ladder.rule) /\ Allowed(ladder.rule) <= budget
      /\ Allowed(ladder.rule) \in Nat
      /\ budget' = Spent(attempts) => tried' = RECOVERY_BUDGET_PER_RUN - budget'
  BY RemedyContained
<1>2. /\ at = "remedying" /\ ladder \in Ladder /\ ~ladder.assisted /\ ladder.stall = "checkpoint"
      /\ ladder.rule \in Rules /\ tried = RECOVERY_BUDGET_PER_RUN - budget + ladder.tries
      /\ ladder.tries \in Nat /\ budget \in 0..RECOVERY_BUDGET_PER_RUN
      /\ at \notin Over \cup {"starting", "answering", "collecting", "paused"}
      /\ UNCHANGED <<fixed, session, log>> /\ assistBudget' = assistBudget
      /\ consulted' = consulted
  BY DEF Remedy, TypeOK, Ladder, Proposals, Stalls, Attempts, Over
<1>3. /\ owner = "automation" /\ episode \in 0..MaxEpisodes /\ episode <= 2 * step - 1
      /\ (~attended => episode = 0) /\ step \in Nat
      /\ owner' = owner /\ episode' = episode
  BY <1>2, Artifact DEF Control, TypeOK, Pauses, Attendance, UnattendedRunsFail, session
<1>4. attempts \in 0..RECOVERY_BUDGET_PER_RUN
  BY <1>1, <1>2 DEF RECOVERY_BUDGET_PER_RUN
<1>5. /\ tiring \in Ladder /\ tiring.tries = attempts /\ tiring.stall = ladder.stall
      /\ tiring.rule = ladder.rule /\ tiring.assisted = ladder.assisted
  BY <1>2, <1>4 DEF Ladder
<1>6. cured \in Ladder /\ cured.assisted = ladder.assisted
  BY <1>2, <1>4 DEF Ladder
<1>7. CASE Holds(cured) /\ budget' = Spent(attempts)
  BY <1>1, <1>2, <1>6, <1>7, Holding
<1>8. ASSUME NEW code \in capability.outcomes, Answers(cured, code), budget' = Spent(attempts)
      PROVE  RInv'
  <2>1. code \in Codes
    BY NamedCodes DEF TypeOK
  <2> QED
    BY <1>1, <1>2, <1>6, <1>8, <2>1, Answering
<1>9. ASSUME NEW place \in {"consulting", "remedying"}, GoesTo(place, tiring),
             place = "consulting" => budget' = Spent(attempts),
             place = "remedying" => budget' = budget /\ attempts < Allowed(ladder.rule)
      PROVE  RInv'
  <2>1. at' = place /\ ladder' = tiring /\ step' = step
    BY <1>9 DEF GoesTo
  <2>2. Rules' = Rules /\ capability' = capability
    BY <1>2, Fixed
  <2>3. Attempts'
    <3>1. CASE place = "consulting"
      BY <1>1, <1>2, <1>5, <1>9, <2>1, <3>1
      DEF Attempts, Contained, Untried, NotActed, ActionStalls, Over
    <3>2. CASE place = "remedying"
      <4>1. ladder'.tries < Allowed(ladder.rule) /\ ladder'.rule = ladder.rule
        BY <1>5, <1>9, <2>1, <3>2
      <4>2. capability' = capability /\ budget' = budget
        BY <1>9, <2>2, <3>2
      <4>3. (ladder.rule \in Rules /\ ladder.tries < Allowed(ladder.rule))'
        BY <1>2, <2>2, <4>1, <4>2 DEF Allowed
      <4>4. ladder'.tries = attempts /\ tried' <= RECOVERY_BUDGET_PER_RUN
        BY <1>1, <1>5, <2>1 DEF Contained
      <4>5. tried' = RECOVERY_BUDGET_PER_RUN - budget' + ladder'.tries
        BY <1>1, <1>2, <4>2, <4>4 DEF RECOVERY_BUDGET_PER_RUN
      <4>6. at' = "remedying" /\ ~Untried'
        BY <2>1, <3>2 DEF Untried, NotActed
      <4> QED
        BY <1>1, <4>3, <4>4, <4>5, <4>6 DEF Attempts, Contained, Over
    <3> QED
      BY <3>1, <3>2
  <2>4. Stalls'
    BY <1>2, <1>5, <2>1 DEF Stalls
  <2>5. Pauses' /\ ~NotActed'
    BY <1>2, <1>3, <1>5, <1>9, <2>1 DEF Pauses, NotActed, ActionStalls
  <2>6. /\ place \in Places \ (Over \cup {"starting", "answering", "collecting"})
        /\ place \notin {"paused", "returned", "acting_again", "verifying_again"}
    BY DEF Places, Over
  <2>7. unsafeRepeats(capability) = {}
    BY <1>2 DEF Presses
  <2> QED
    BY <1>1, <1>2, <1>3, <1>5, <1>9, <2>3, <2>4, <2>5, <2>6, <2>7, Climbing
<1>10. ASSUME NEW reason \in {"surface_failed", "policy_violation", "evidence_failed"},
              Fails(reason), Stays
       PROVE  RInv'
  <2>1. reason \in Failures \ {"control_lost"} /\ episode' <= 2 * step
    BY <1>3 DEF Failures
  <2> QED
    BY <1>1, <1>2, <1>3, <1>10, <2>1, EndingShort DEF Fails, Stays
<1> QED
  BY <1>7, <1>8, <1>9, <1>10 DEF Remedy

\* A consultation is charged when it is made, and answers from the closed list.
LEMMA ConsultInvariant ==
  ASSUME RInv, Consult
  PROVE  RInv'
<1> USE DEF RInv
<1> DEFINE candidates == proposableOutcomes(IF ladder.stall = "no_matching_item"
                                            THEN {capability.noMatch.code} ELSE {})
           asked == advised /\ candidates # {} /\ assistBudget > 0
<1>1. /\ at = "consulting"
      /\ at \notin Over \cup {"starting", "answering", "collecting", "paused", "remedying"}
      /\ UNCHANGED <<fixed, readings, session, log>>
      /\ budget' = budget /\ landed' = landed /\ remedied' = remedied /\ tried' = tried
      /\ assistBudget' = IF asked THEN assistBudget - 1 ELSE assistBudget
      /\ consulted' = IF asked THEN consulted + 1 ELSE consulted
  BY DEF Consult, Over
<1>2. /\ capability' = capability /\ Steps' = Steps /\ Rules' = Rules
      /\ owner' = owner /\ episode' = episode /\ readings' = readings
  BY <1>1, Fixed DEF session
<1>3. assistBudget' \in 0..ASSIST_BUDGET_PER_RUN /\ consulted' = ASSIST_BUDGET_PER_RUN - assistBudget'
  <2>1. assistBudget \in 0..1 /\ consulted = 1 - assistBudget
    BY DEF Attempts, TypeOK, ASSIST_BUDGET_PER_RUN
  <2>2. CASE asked
    <3>1. assistBudget' = assistBudget - 1 /\ consulted' = consulted + 1 /\ assistBudget > 0
      BY <1>1, <2>2
    <3> QED
      BY <2>1, <3>1 DEF ASSIST_BUDGET_PER_RUN
  <2>3. CASE ~asked
    BY <1>1, <2>1, <2>3 DEF ASSIST_BUDGET_PER_RUN
  <2> QED
    BY <2>2, <2>3
<1>4. RiskyStepsLandOnce'
  BY <1>1, <1>2 DEF Presses, RiskyStepsLandOnce
<1>5. Contained
  BY <1>1, <1>2, <1>3, <1>4 DEF Contained, TypeOK, Attempts
<1>6. /\ tried = RECOVERY_BUDGET_PER_RUN - budget /\ ~ladder.assisted /\ ladder \in Ladder
      /\ owner = "automation" /\ episode \in 0..MaxEpisodes /\ (~attended => episode = 0)
      /\ unsafeRepeats(capability) = {}
  BY <1>1 DEF Attempts, Proposals, TypeOK, Control, Attendance, UnattendedRunsFail, Presses, Over
<1>7. CASE GoesTo("handing", ladder)
  <2>1. at' = "handing" /\ ladder' = ladder /\ step' = step
    BY <1>7 DEF GoesTo
  <2>2. NotActed' <=> NotActed
    BY <1>1, <2>1 DEF NotActed
  <2>3. Attempts'
    BY <1>1, <1>5, <1>6, <2>1, <2>2 DEF Attempts, Contained, Untried, Over
  <2>4. Stalls'
    BY <1>1, <2>1 DEF Stalls, ActionStalls
  <2>5. Pauses'
    BY <1>1, <1>2, <2>1 DEF Pauses
  <2>6. NotActed' => landed'[step] = 0
    BY <1>1, <2>2 DEF Presses
  <2>7. "handing" \in Places \ (Over \cup {"starting", "answering", "collecting"})
    BY DEF Places, Over
  <2> QED
    BY <1>1, <1>2, <1>5, <1>6, <1>7, <2>3, <2>4, <2>5, <2>6, <2>7, Climbing
<1>8. ASSUME NEW code \in candidates, Answers([ladder EXCEPT !.assisted = TRUE], code)
      PROVE  RInv'
  <2>1. code \in Codes /\ code \notin DOMAIN capability.human
    BY NamedCodes DEF TypeOK, proposableOutcomes
  <2>2. [ladder EXCEPT !.assisted = TRUE] \in Ladder
    BY <1>6 DEF Ladder
  <2> QED
    BY <1>1, <1>5, <1>6, <1>8, <2>1, <2>2, Answering
<1> QED
  BY <1>7, <1>8 DEF Consult

\* A step nobody put right ends the run: with a person still required if one
\* was asked, or if the code always needs one.
LEMMA UnsettledEnds ==
  ASSUME RInv, Contained, at \in {"handing", "paused"}, NEW asPerson \in BOOLEAN,
         Unsettled(asPerson), asPerson => attended, UNCHANGED log,
         owner' = "automation", episode' \in 0..MaxEpisodes, episode' <= 2 * step,
         ~attended => episode' = 0
  PROVE  RInv'
<1>1. at \notin Over /\ ladder \in Ladder
  BY DEF Over, RInv, TypeOK
<1>2. ladder.stall = "human" => ladder.code \in DOMAIN capability.human
  BY DEF RInv, Stalls
<1>3. /\ ActionStalls \subseteq Failures \ {"control_lost"}
      /\ {"checkpoint_failed", "recovery_exhausted"} \subseteq Failures \ {"control_lost"}
  BY DEF ActionStalls, Failures
<1>4. CASE ladder.stall \in ActionStalls
  <2>1. Stays /\ IF asPerson THEN Escalates(Nothing) ELSE Fails(ladder.stall)
    BY <1>4 DEF Unsettled, ActionStalls
  <2>2. CASE asPerson
    BY <1>1, <2>1, <2>2, EndingShort DEF Escalates, Stays
  <2>3. CASE ~asPerson
    BY <1>1, <1>3, <1>4, <2>1, <2>3, EndingShort DEF Fails, Stays
  <2> QED
    BY <2>2, <2>3
<1>5. CASE ladder.stall = "human"
  <2>1. ladder.stall \notin ActionStalls
    BY <1>5 DEF ActionStalls
  <2>2. Escalates(ladder.code) /\ records' = Recorded(ladder, "failed") /\ UNCHANGED <<step, ladder>>
    BY <1>5, <2>1 DEF Unsettled
  <2>3. ladder.code \in Codes \cup {Nothing}
    BY <1>1 DEF Ladder
  <2> QED
    BY <1>1, <1>2, <1>5, <2>2, <2>3, EndingShort DEF Escalates
<1>6. CASE ladder.stall \notin ActionStalls \cup {"human"}
  <2>1. /\ IF asPerson THEN Escalates(Nothing)
           ELSE Fails(IF ladder.rule = 0 THEN "checkpoint_failed" ELSE "recovery_exhausted")
        /\ records' = Recorded(ladder, "failed") /\ UNCHANGED <<step, ladder>>
    BY <1>6 DEF Unsettled
  <2>2. CASE asPerson
    BY <1>1, <2>1, <2>2, EndingShort DEF Escalates
  <2>3. CASE ~asPerson
    <3> DEFINE reason == IF ladder.rule = 0 THEN "checkpoint_failed" ELSE "recovery_exhausted"
    <3>1. reason \in Failures \ {"control_lost"} /\ Fails(reason)
      BY <1>3, <2>1, <2>3
    <3> HIDE DEF reason
    <3> QED
      BY <1>1, <2>1, <2>3, <3>1, EndingShort DEF Fails
  <2> QED
    BY <2>2, <2>3
<1> QED
  BY <1>4, <1>5, <1>6

\* A run that is to be handed over is paused, or ends, and a second pause of
\* one step is for its checkpoint.
LEMMA HandOverInvariant ==
  ASSUME RInv, HandOver
  PROVE  RInv'
<1>1. /\ at = "handing" /\ at \notin Over \cup {"starting", "answering", "collecting", "paused"}
      /\ UNCHANGED <<fixed, readings, budgets, log, history>>
  BY DEF HandOver, Over
<1>2. Contained
  BY <1>1, Untouched
<1>3. /\ owner = "automation" /\ episode \in 0..MaxEpisodes /\ (~attended => episode = 0)
      /\ ladder \in Ladder /\ ~ladder.assisted /\ unsafeRepeats(capability) = {}
      /\ episode <= 2 * step - (IF ladder.stall \in ActionStalls THEN 2 ELSE 1)
      /\ step \in Nat
  BY <1>1, Artifact
  DEF RInv, Control, TypeOK, Attendance, UnattendedRunsFail, Proposals, Presses, Pauses, Over
<1>4. episode <= 2 * step
  BY <1>3
<1>5. CASE ~attended
  <2>1. Unsettled(FALSE) /\ owner' = owner /\ episode' = episode
    BY <1>5 DEF HandOver, session
  <2> QED
    BY <1>1, <1>2, <1>3, <1>4, <1>5, <2>1, UnsettledEnds
<1>6. CASE attended /\ Session!PauseUnwritable /\ Fails("evidence_failed") /\ Stays
  <2>1. owner' = owner /\ episode' = episode
    BY <1>6 DEF Session!PauseUnwritable
  <2> QED
    BY <1>1, <1>2, <1>3, <1>4, <1>6, <2>1, EndingShort DEF Fails, Stays, Failures
<1>7. CASE attended /\ Session!Pause /\ GoesTo("paused", ladder)
  <2>1. owner' = "paused" /\ episode' = episode + 1 /\ episode < MaxEpisodes
    BY <1>7 DEF Session!Pause
  <2>2. at' = "paused" /\ ladder' = ladder /\ step' = step
    BY <1>7 DEF GoesTo
  <2>3. NotActed' <=> NotActed
    BY <1>1, <2>2 DEF NotActed
  <2>4. /\ tried' = tried /\ budget' = budget /\ landed' = landed
        /\ consulted' = consulted /\ assistBudget' = assistBudget
    BY <1>1 DEF history, budgets
  <2>5. Attempts'
    BY <1>1, <2>2, <2>3, <2>4 DEF RInv, Attempts, Untried, Over
  <2>6. Stalls'
    BY <1>1, <2>2, Fixed DEF RInv, Stalls
  <2>7. Pauses'
    BY <1>3, <2>1, <2>2 DEF Pauses
  <2>8. NotActed' => landed'[step] = 0
    BY <2>3, <2>4 DEF RInv, Presses
  <2>9. "paused" \in Places \ (Over \cup {"starting", "answering", "collecting"})
    BY DEF Places, Over
  <2>10. episode' \in 0..MaxEpisodes
    <3>1. MaxEpisodes \in Nat
      BY ReplayAssumption
    <3> QED
      BY <1>3, <2>1, <3>1
  <2> QED
    BY <1>1, <1>2, <1>3, <1>7, <2>1, <2>5, <2>6, <2>7, <2>8, <2>9, <2>10, Climbing
<1> QED
  BY <1>5, <1>6, <1>7 DEF HandOver

\* The person moves while the run waits, and the run does not.
LEMMA PersonMovesInvariant ==
  ASSUME RInv, PersonMoves
  PROVE  RInv'
<1> USE DEF RInv
<1>1. /\ owner \in {"paused", "operator"} /\ owner' \in {"operator", "resume_requested"}
      /\ episode' = episode
  BY DEF PersonMoves, Session!Take, Session!Return
<1>2. /\ UNCHANGED fixed /\ at' = at /\ step' = step /\ ladder' = ladder /\ records' = records
      /\ readings' = readings /\ budget' = budget /\ assistBudget' = assistBudget
      /\ outcome' = outcome /\ ended' = ended /\ result' = result
      /\ landed' = landed /\ remedied' = remedied /\ tried' = tried /\ consulted' = consulted
  BY DEF PersonMoves, budgets, log, history
<1>3. /\ capability' = capability /\ attended' = attended /\ Steps' = Steps /\ Rules' = Rules
      /\ (\A r : Allowed(r)' = Allowed(r)) /\ unsafeRepeats(capability)' = unsafeRepeats(capability)
      /\ (NotActed' <=> NotActed) /\ (Untried' <=> Untried)
  BY <1>2, Fixed DEF Allowed, unsafeRepeats, NotActed, Untried
<1>4. Contained
  BY <1>2, Untouched DEF budgets, history
<1>5. TypeOK'
  BY <1>1, <1>2, <1>4, TypesKept DEF TypeOK
<1>6. Control'
  BY <1>1, <1>2 DEF Control, ControlIsNeverLost
<1>7. Order'
  BY <1>2, <1>3 DEF Order
<1>8. Attempts' /\ Stalls'
  BY <1>2, <1>3 DEF Attempts, Stalls
<1>9. Pauses'
  BY <1>1, <1>2 DEF Pauses
<1>10. Presses'
  BY <1>2, <1>3 DEF Presses, RiskyStepsLandOnce
<1>11. Proposals' /\ Attendance'
  BY <1>1, <1>2, <1>3
  DEF Proposals, AuthorityIsNeverProposed, Attendance, UnattendedRunsFail
<1>12. Reports'
  BY <1>2, <1>3 DEF Reports, SuccessIsEarned, ResultIsOnRecord
<1> QED
  BY <1>5, <1>6, <1>7, <1>8, <1>9, <1>10, <1>11, <1>12

\* However a wait ends the run has its session, and it goes on to look again.
LEMMA WaitEndsInvariant ==
  ASSUME RInv, WaitEnds
  PROVE  RInv'
<1>1. /\ at = "paused" /\ at \notin Over \cup {"starting", "answering", "collecting"}
      /\ UNCHANGED <<fixed, readings, budgets, log, history>>
  BY DEF WaitEnds, Over
<1>2. owner' = "automation" /\ episode' = episode
  BY DEF WaitEnds, Session!TakeBack, Session!GiveUp
<1>3. Contained
  BY <1>1, Untouched
<1>4. /\ attended /\ episode \in 0..MaxEpisodes /\ episode <= 2 * step
      /\ ladder \in Ladder /\ ~ladder.assisted /\ unsafeRepeats(capability) = {}
      /\ (ladder.stall \in ActionStalls => episode <= 2 * step - 1)
  BY <1>1 DEF RInv, Attendance, Pauses, TypeOK, Proposals, Presses, Over
<1>5. CASE Fails("evidence_failed") /\ Stays
  BY <1>1, <1>2, <1>3, <1>4, <1>5, EndingShort DEF Fails, Stays, Failures
<1>6. CASE Unsettled(TRUE)
  BY <1>1, <1>2, <1>3, <1>4, <1>6, UnsettledEnds
<1>7. ASSUME NEW place \in {"returned", "verifying_again"}, GoesTo(place, ladder),
             place = "returned" <=> ladder.stall \in ActionStalls
      PROVE  RInv'
  <2>1. at' = place /\ ladder' = ladder /\ step' = step
    BY <1>7 DEF GoesTo
  <2>2. NotActed' <=> NotActed
    BY <1>1, <1>7, <2>1 DEF NotActed
  <2>3. /\ tried' = tried /\ budget' = budget /\ landed' = landed
        /\ consulted' = consulted /\ assistBudget' = assistBudget
    BY <1>1 DEF history, budgets
  <2>4. Attempts'
    BY <1>1, <1>7, <2>1, <2>2, <2>3 DEF RInv, Attempts, Untried, Over
  <2>5. Stalls'
    BY <1>7, <2>1 DEF Stalls
  <2>6. Pauses'
    BY <1>2, <1>4, <1>7, <2>1 DEF Pauses
  <2>7. NotActed' => landed'[step] = 0
    BY <2>2, <2>3 DEF RInv, Presses
  <2>8. place \in Places \ (Over \cup {"starting", "answering", "collecting"}) /\ place # "paused"
    BY DEF Places, Over
  <2> QED
    BY <1>1, <1>2, <1>3, <1>4, <1>7, <2>4, <2>5, <2>6, <2>7, <2>8, Climbing
<1> QED
  BY <1>5, <1>6, <1>7 DEF WaitEnds

\* What a person handed back is looked at, and performed only if it has to be.
LEMMA ReturnedInvariant ==
  ASSUME RInv, Returned
  PROVE  RInv'
<1>1. /\ at = "returned"
      /\ at \notin Over \cup {"starting", "answering", "collecting", "paused", "remedying"}
      /\ UNCHANGED <<fixed, readings, budgets, session, log, history>>
  BY DEF Returned, Over
<1>2. /\ Contained /\ UNCHANGED <<session, log>> /\ tried' = tried /\ budget' = budget
      /\ episode' = episode /\ episode \in 0..MaxEpisodes
      /\ consulted' = consulted /\ assistBudget' = assistBudget
  BY <1>1, Deciding
<1>3. /\ tried = RECOVERY_BUDGET_PER_RUN - budget /\ ~ladder.assisted /\ ladder \in Ladder
      /\ attended
  BY <1>1 DEF RInv, Attempts, Proposals, TypeOK, Attendance
<1>4. CASE Holds(ladder)
  BY <1>1, <1>2, <1>3, <1>4, Holding
<1>5. ASSUME NEW code \in capability.outcomes, Answers(ladder, code)
      PROVE  RInv'
  <2>1. code \in Codes
    BY NamedCodes DEF RInv, TypeOK
  <2> QED
    BY <1>1, <1>2, <1>3, <1>5, <2>1, Answering
<1>6. CASE GoesTo("acting_again", ladder)
  <2>1. at' = "acting_again" /\ step' = step /\ ladder' = ladder
    BY <1>6 DEF GoesTo
  <2>2. Attempts' /\ Stalls'
    BY <1>1, <1>2, <2>1 DEF RInv, Attempts, Stalls, Over, Untried, NotActed
  <2>3. Pauses' /\ NotActed
    BY <1>1, <1>2, <2>1 DEF RInv, Pauses, NotActed
  <2> QED
    BY <1>1, <1>3, <1>6, <2>2, <2>3, Deferring
<1> QED
  BY <1>4, <1>5, <1>6 DEF Returned

\* The end of a run says what the run came to.
LEMMA Reporting ==
  ASSUME RInv, Contained, at \in {"answering", "collecting"}, at' = "finalising",
         UNCHANGED <<step, ladder, records, session, ended>>,
         outcome' \in Codes \cup {Nothing, "SUCCESS"}, result' \in Result,
         result'.class \in {"success", "business_outcome"}, result'.reason = "none",
         AuthorityIsNeverProposed', SuccessIsEarned',
         \/ result'.class = "success" /\ outcome' = "SUCCESS"
         \/ result'.class = "business_outcome" /\ outcome' = result'.code
  PROVE  RInv'
<1> USE DEF RInv
<1>1. owner' = owner /\ episode' = episode
  BY DEF session
<1>2. /\ TypeOK /\ step' = step /\ ladder' = ladder /\ records' = records /\ ended' = ended
      /\ Steps' = Steps /\ attended' = attended /\ capability' = capability
  BY Fixed DEF Contained
<1>3. TypeOK'
  BY <1>1, <1>2, TypesKept DEF TypeOK, Places
<1>4. Control'
  BY <1>1 DEF Control, ControlIsNeverLost
<1>5. Order'
  <2>1. step \in Nat /\ Steps \subseteq Nat
    BY Artifact DEF TypeOK
  <2>2. \A s \in Steps : s > step => landed'[s] = landed[s]
    BY <2>1 DEF Contained
  <2> QED
    BY <1>2, <2>2 DEF Order
<1>6. Attempts' /\ Stalls'
  BY DEF Attempts, Stalls, Contained, Untried, NotActed, Over
<1>7. Pauses'
  BY <1>1, <1>2 DEF Pauses
<1>8. Presses' /\ Proposals'
  BY DEF Presses, Proposals, Contained, NotActed, Over
<1>9. Attendance'
  BY <1>1, <1>2 DEF Attendance, UnattendedRunsFail
<1>10. Reports'
  <2>1. ended' = "none"
    BY <1>2 DEF Reports
  <2>2. ResultIsOnRecord'
    BY DEF ResultIsOnRecord
  <2> QED
    BY <2>1, <2>2 DEF Reports, Over
<1> QED
  BY <1>3, <1>4, <1>5, <1>6, <1>7, <1>8, <1>9, <1>10

\* An answer is reported with the code it was given, by whoever gave it.
LEMMA ReportAnswerInvariant ==
  ASSUME RInv, ReportAnswer
  PROVE  RInv'
<1>1. /\ at = "answering" /\ at' = "finalising" /\ at # "paused"
      /\ UNCHANGED <<fixed, readings, budgets, history>>
      /\ UNCHANGED <<step, ladder, records, session, ended>>
  BY DEF ReportAnswer
<1>2. Contained
  BY <1>1, Untouched
<1>3. ladder.code \in Codes \cup {Nothing} /\ ladder.assisted \in BOOLEAN
  BY DEF RInv, TypeOK, Ladder
<1>4. /\ outcome' = ladder.code /\ result'.class = "business_outcome"
      /\ result'.reason = "none" /\ result'.code = ladder.code
      /\ result'.assisted = ladder.assisted /\ result' \in Result
  BY <1>3 DEF ReportAnswer, Result, Classes
<1>5. AuthorityIsNeverProposed'
  BY <1>1, <1>4, Fixed DEF AuthorityIsNeverProposed, RInv, Proposals
<1>6. SuccessIsEarned'
  BY <1>4 DEF SuccessIsEarned
<1> QED
  BY <1>1, <1>2, <1>3, <1>4, <1>5, <1>6, Reporting

\* A run succeeds when every step held and every output was read.
LEMMA CollectInvariant ==
  ASSUME RInv, Collect
  PROVE  RInv'
<1>1. /\ at = "collecting" /\ at \notin Over \cup {"paused"}
      /\ UNCHANGED <<fixed, readings, budgets, session, ended, history>>
      /\ UNCHANGED <<step, ladder, records>> /\ Stays
  BY DEF Collect, Over, Stays
<1>2. CASE Fails("output_unreadable") /\ UNCHANGED outcome
  BY <1>1, <1>2, Failing DEF Failures, log
<1>3. CASE Readable /\ outcome' = "SUCCESS" /\ Ends("success", "none", Nothing)
  <2>1. Contained /\ readings' = readings /\ records' = records
    BY <1>1, Untouched
  <2>2. /\ at' = "finalising" /\ result' \in Result /\ result'.class = "success"
        /\ result'.reason = "none" /\ result'.assisted = FALSE
    BY <1>3, EndsMoves DEF Classes
  <2>3. capability.outputs \subseteq Steps
    <3>1. IsCapability(capability)
      BY ReplayAssumption DEF RInv, TypeOK
    <3> QED
      BY <3>1 DEF IsCapability, Steps
  <2>4. \A s \in capability.outputs : readings[s] \in Values
    BY <1>3, <2>3 DEF Readable, RInv, TypeOK
  <2>5. \A s \in Steps : records[s].checkpoint = "held"
    BY <1>1 DEF RInv, Reports
  <2>6. SuccessIsEarned'
    BY <1>1, <1>3, <2>1, <2>2, <2>4, <2>5, Fixed DEF SuccessIsEarned
  <2>7. AuthorityIsNeverProposed'
    BY <2>2 DEF AuthorityIsNeverProposed
  <2> QED
    BY <1>1, <1>3, <2>1, <2>2, <2>6, <2>7, Reporting
<1> QED
  BY <1>2, <1>3 DEF Collect

\* A result is given as it is recorded, or withheld.
LEMMA FinaliseInvariant ==
  ASSUME RInv, Finalise
  PROVE  RInv'
<1> USE DEF RInv
<1>1. /\ at = "finalising" /\ at' = "done"
      /\ UNCHANGED <<fixed, readings, budgets, session, outcome, history>>
      /\ step' = step /\ ladder' = ladder /\ records' = records /\ outcome' = outcome
      /\ readings' = readings
  BY DEF Finalise, Stays
<1>2. /\ Contained /\ owner' = owner /\ episode' = episode /\ capability' = capability
      /\ attended' = attended /\ Steps' = Steps
  BY <1>1, Untouched, Fixed DEF session
<1>3. result \in Result /\ ended = "none" /\ result.class \in Classes
  BY <1>1 DEF TypeOK, Reports, Result
<1>4. \/ ended' = result.class /\ result' = result
      \/ /\ ended' = ended /\ result' \in Result /\ result'.class = "failure"
         /\ result'.reason = "evidence_failed" /\ result'.assisted = FALSE
  BY <1>3, NullsTyped DEF Finalise, NoResult, Result, Classes, Failures
<1>5. TypeOK'
  BY <1>1, <1>2, <1>3, <1>4, TypesKept DEF TypeOK, Places
<1>6. Control'
  BY <1>1, <1>2, <1>4 DEF Control, ControlIsNeverLost
<1>7. Order'
  <2>1. landed' = landed
    BY <1>1 DEF history
  <2> QED
    BY <1>1, <1>2, <2>1 DEF Order
<1>8. Attempts' /\ Stalls'
  BY <1>1, <1>2 DEF Attempts, Stalls, Contained, Untried, NotActed, Over
<1>9. Pauses'
  BY <1>1, <1>2 DEF Pauses
<1>10. Presses' /\ Proposals'
  BY <1>1, <1>2, <1>4
  DEF Presses, Proposals, AuthorityIsNeverProposed, Contained, NotActed, Over
<1>11. Attendance'
  BY <1>1, <1>2, <1>4 DEF Attendance, UnattendedRunsFail
<1>12. Reports'
  <2>1. \/ outcome = Nothing
        \/ result.class = "success" /\ outcome = "SUCCESS"
        \/ result.class = "business_outcome" /\ outcome = result.code
    BY <1>1 DEF Reports
  <2>2. SuccessIsEarned'
    BY <1>1, <1>2, <1>4 DEF Reports, SuccessIsEarned
  <2>3. ResultIsOnRecord'
    BY <1>1, <1>3, <1>4, <2>1 DEF ResultIsOnRecord, Classes
  <2> QED
    BY <1>1, <2>2, <2>3 DEF Reports, Over
<1> QED
  BY <1>5, <1>6, <1>7, <1>8, <1>9, <1>10, <1>11, <1>12

\* The invariant is inductive.
LEMMA StepInvariant == RInv /\ [Next]_vars => RInv'
<1> SUFFICES ASSUME RInv, [Next]_vars PROVE RInv'
  OBVIOUS
<1>1. CASE Engine
  BY <1>1, StartInvariant, ObserveInvariant, LandsInvariant, AnsweredInvariant, BlockedInvariant,
     VerifyInvariant, RecoverInvariant, RemedyInvariant, ConsultInvariant, HandOverInvariant,
     ReturnedInvariant, ReportAnswerInvariant, CollectInvariant, FinaliseInvariant, BreaksInvariant
  DEF Engine
<1>2. CASE WaitEnds
  BY <1>2, WaitEndsInvariant
<1>3. CASE PersonMoves
  BY <1>3, PersonMovesInvariant
<1>4. CASE UNCHANGED vars
  <2>1. /\ UNCHANGED fixed /\ at' = at /\ step' = step /\ ladder' = ladder /\ records' = records
        /\ readings' = readings /\ budget' = budget /\ assistBudget' = assistBudget
        /\ owner' = owner /\ episode' = episode
        /\ outcome' = outcome /\ ended' = ended /\ result' = result
        /\ landed' = landed /\ remedied' = remedied /\ tried' = tried /\ consulted' = consulted
    BY <1>4 DEF vars, budgets, log, history, session
  <2>2. /\ capability' = capability /\ attended' = attended /\ advised' = advised
        /\ Steps' = Steps /\ Rules' = Rules /\ Ladder' = Ladder
        /\ (\A r : Allowed(r)' = Allowed(r)) /\ unsafeRepeats(capability)' = unsafeRepeats(capability)
        /\ (NotActed' <=> NotActed) /\ (Untried' <=> Untried)
    BY <2>1, Fixed DEF Allowed, unsafeRepeats, NotActed, Untried
  <2>3. TypeOK' /\ Control' /\ Order'
    BY <2>1, <2>2 DEF RInv, TypeOK, Control, ControlIsNeverLost, Order
  <2>4. Attempts' /\ Stalls' /\ Pauses'
    BY <2>1, <2>2 DEF RInv, Attempts, Stalls, Pauses
  <2>5. Presses' /\ Proposals' /\ Attendance'
    BY <2>1, <2>2 DEF RInv, Presses, RiskyStepsLandOnce, Proposals, AuthorityIsNeverProposed,
                      Attendance, UnattendedRunsFail
  <2>6. Reports'
    BY <2>1, <2>2 DEF RInv, Reports, SuccessIsEarned, ResultIsOnRecord
  <2> QED
    BY <2>3, <2>4, <2>5, <2>6 DEF RInv
<1> QED
  BY <1>1, <1>2, <1>3, <1>4 DEF Next, Done

-----------------------------------------------------------------------------
(* The theorems                                                             *)

\* Every state a run can be in, whatever the artifact, the screens, the people,
\* the advisor and the disk do, satisfies the invariant (engine.ts).
THEOREM ReplayInvariant == Spec => []RInv
<1> QED
  BY InitInvariant, StepInvariant, PTL DEF Spec

\* Every variable keeps its type; in particular the two budgets of the run are
\* never overdrawn (recovery.ts recover, assist.ts consultAssist).
THEOREM ReplayTypeCorrect == Spec => []TypeOK
<1>1. RInv => TypeOK
  BY DEF RInv
<1> QED
  BY <1>1, ReplayInvariant, PTL

\* Success is earned step by step, read, and on record (body, collectOutputs,
\* finalise).
THEOREM ReplayEarnsSuccess == Spec => []SuccessIsEarned
<1>1. RInv => SuccessIsEarned
  BY DEF RInv, Reports
<1> QED
  BY <1>1, ReplayInvariant, PTL

\* What the caller is told is never contradicted by the log (finalise).
THEOREM ReplayResultOnRecord == Spec => []ResultIsOnRecord
<1>1. RInv => ResultIsOnRecord
  BY DEF RInv, Reports
<1> QED
  BY <1>1, ReplayInvariant, PTL

\* No step is acted on before those ahead of it held (the loop of body).
THEOREM ReplayKeepsOrder == Spec => []StepsInOrder
<1>1. RInv => StepsInOrder
  <2> SUFFICES ASSUME RInv, NEW s \in Steps, NEW before \in 1..(s - 1),
                      \/ landed[s] > 0
                      \/ records[s].checkpoint \in {"held", "outcome", "failed"}
               PROVE  records[before].checkpoint = "held"
    BY DEF StepsInOrder
  <2>1. Steps = 1..Len(capability.steps) /\ Len(capability.steps) \in Nat /\ step \in Steps
    BY Artifact DEF RInv, TypeOK
  <2>2. ~(s > step)
    BY DEF RInv, Order
  <2>3. before \in Steps /\ before < step
    BY <2>1, <2>2
  <2> QED
    BY <2>3 DEF RInv, Order
<1> QED
  BY <1>1, ReplayInvariant, PTL

\* Attempts, consultations and calls on a person are bounded for the whole run
\* (RECOVERY_BUDGET_PER_RUN, ASSIST_BUDGET_PER_RUN, performOrHandOff).
THEOREM ReplayKeepsBudgets == Spec => []BudgetsHold
<1>1. RInv => BudgetsHold
  <2> SUFFICES ASSUME RInv PROVE BudgetsHold
    OBVIOUS
  <2>1. consulted = 1 - assistBudget /\ assistBudget \in 0..1
    BY DEF RInv, Attempts, TypeOK, ASSIST_BUDGET_PER_RUN
  <2>2. consulted <= ASSIST_BUDGET_PER_RUN
    BY <2>1 DEF ASSIST_BUDGET_PER_RUN
  <2> QED
    BY <2>2 DEF RInv, Attempts, Pauses, BudgetsHold
<1> QED
  BY <1>1, ReplayInvariant, PTL

\* A press is made again only where that was argued for (Repeatability.ts,
\* recover, performOrHandOff).
THEOREM ReplayPressesOnce == Spec => []RiskyStepsLandOnce
<1>1. RInv => RiskyStepsLandOnce
  BY DEF RInv, Presses
<1> QED
  BY <1>1, ReplayInvariant, PTL

\* No advisor speaks with an authority a person kept (proposableOutcomes).
THEOREM ReplayKeepsAuthority == Spec => []AuthorityIsNeverProposed
<1>1. RInv => AuthorityIsNeverProposed
  BY DEF RInv, Proposals
<1> QED
  BY <1>1, ReplayInvariant, PTL

\* Nobody is waited for in a run nobody attends (handOff).
THEOREM ReplayUnattendedFails == Spec => []UnattendedRunsFail
<1>1. RInv => UnattendedRunsFail
  BY DEF RInv, Attendance
<1> QED
  BY <1>1, ReplayInvariant, PTL

\* Every claim of the engine succeeds: no rung that touches the page follows a
\* pause that left the session in other hands (Session.claim, handOff).
THEOREM ReplayKeepsControl == Spec => []ControlIsNeverLost
<1>1. RInv => ControlIsNeverLost
  BY DEF RInv, Control
<1> QED
  BY <1>1, ReplayInvariant, PTL
=============================================================================
