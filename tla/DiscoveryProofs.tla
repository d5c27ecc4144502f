---------------------------- MODULE DiscoveryProofs ----------------------------
(***************************************************************************)
(* What a run of the agent promises, for any bounds, screens, names and    *)
(* controls.                                                               *)
(*                                                                         *)
(* The detector counts; the properties are about the screens a stretch     *)
(* went through.  Tally ties the two: the counters are those of the lap.   *)
(* The rest says what each place of the loop may rely on: the deadline is  *)
(* set where actions are chosen (Armed), no bound is passed where the run  *)
(* goes on (Quiet), and a run that is stopping has its reason (Why).       *)
(***************************************************************************)
EXTENDS Discovery, FiniteSetTheorems, TLAPS

Choosing == at \in {"opening", "turning", "deciding"}

\* The run goes on, or will if the person puts it right.
Onward == Choosing \/ (at \in {"stalling", "paused"} /\ stop.goesOn)

Paced == Onward => attempted <= bounds.maxSteps /\ unusable < UNUSABLE_RESPONSES_ALLOWED

Armed == Choosing => armed

Last == lap[Len(lap)]

Tally ==
  /\ \A s \in Screens : detector.seen[s] = Times(s)
  /\ lap = <<>> => detector.previous = NoScreen
  /\ lap # <<>> => /\ detector.previous = Last
                   /\ EndsAlike(detector.ineffective + 1)
                   /\ ~EndsAlike(detector.ineffective + 2)

Bounded ==
  /\ \A s \in Screens : detector.seen[s] <= bounds.repeatsAllowed
  /\ lap # <<>> => detector.ineffective < bounds.ineffectiveAllowed

Quiet == Choosing => Bounded

WentRound == \E s \in Screens : Times(s) > bounds.repeatsAllowed
NoEffect == EndsAlike(bounds.ineffectiveAllowed + 1)

Why ==
  at \in {"stalling", "paused", "concluding"} =>
    /\ stop.trigger = "cycle" => WentRound
    /\ stop.trigger = "no_effect" => NoEffect
    /\ stop.trigger = "deadline" => late
    /\ stop.trigger = "max_steps" => attempted >= bounds.maxSteps
    /\ at # "concluding" /\ stop.trigger \in {"cycle", "no_effect"} => stop.goesOn

Answered ==
  /\ IsFiniteSet(readings) /\ Cardinality(readings) <= performed
  /\ stop.trigger = "reached" =>
       /\ at \in {"concluding", "done"}
       /\ outputs # {} /\ outputs \subseteq NamesRead

DInv == TypeOK /\ Paced /\ Armed /\ Tally /\ Quiet /\ Why /\ Answered

-----------------------------------------------------------------------------
\* Bounds and counters are numbers.
LEMMA BoundsAreNumbers ==
  ASSUME TypeOK
  PROVE  /\ bounds.repeatsAllowed \in Nat \ {0} /\ bounds.ineffectiveAllowed \in Nat \ {0}
         /\ bounds.maxSteps \in Nat \ {0} /\ bounds.resolutionFailuresAllowed \in Nat \ {0}
         /\ attempted \in Nat /\ unusable \in Nat /\ performed \in Nat /\ landed \in Nat
<1>1. bounds \in StuckBounds
  BY DiscoveryAssumption DEF TypeOK
<1>2. bounds.maxSteps \in Nat \ {0}
  BY <1>1 DEF StuckBounds
<1> QED
  BY <1>1, <1>2 DEF StuckBounds, TypeOK, UNUSABLE_RESPONSES_ALLOWED

LEMMA CountersAreNumbers ==
  ASSUME TypeOK
  PROVE  /\ \A s \in Screens : detector.seen[s] \in Nat
         /\ detector.ineffective \in Nat /\ detector.failures \in Nat
         /\ detector.previous \in Screens \cup {NoScreen}
         /\ lap \in Seq(Screens) /\ Len(lap) \in Nat
BY DEF TypeOK, Detector

-----------------------------------------------------------------------------
\* One screen more.

LEMMA TimesAreFinite ==
  ASSUME NEW n \in Nat, NEW P \in SUBSET (1..n)
  PROVE  IsFiniteSet(P) /\ Cardinality(P) \in Nat
<1>1. IsFiniteSet(1..n)
  BY FS_Interval
<1>2. IsFiniteSet(P)
  BY <1>1, FS_Subset
<1> QED
  BY <1>2, FS_CardinalityType

LEMMA OneTimeMore ==
  ASSUME NEW screen \in Screens, lap \in Seq(Screens), lap' = Append(lap, screen), NEW s \in Screens
  PROVE  Times(s)' = (IF s = screen THEN Times(s) + 1 ELSE Times(s))
<1> DEFINE P == {i \in DOMAIN lap : lap[i] = s}
           Q == {i \in DOMAIN lap' : lap'[i] = s}
           n == Len(lap)
<1>1. n \in Nat /\ DOMAIN lap = 1..n /\ DOMAIN lap' = 1..(n + 1)
  OBVIOUS
<1>2. lap'[n + 1] = screen /\ \A i \in 1..n : lap'[i] = lap[i]
  OBVIOUS
<1>3. P \subseteq 1..n
  BY <1>1
<1>4. IsFiniteSet(P) /\ n + 1 \notin P
  <2>1. n \in Nat /\ P \in SUBSET (1..n)
    BY <1>1, <1>3
  <2> HIDE DEF n, P
  <2>2. IsFiniteSet(P)
    BY <2>1, TimesAreFinite
  <2>3. n + 1 \notin 1..n
    BY <2>1
  <2> QED
    BY <2>1, <2>2, <2>3
<1>5. CASE s = screen
  <2>1. Q = P \cup {n + 1}
    BY <1>1, <1>2, <1>5
  <2>2. Cardinality(Q) = Cardinality(P) + 1
    BY <1>4, <2>1, FS_AddElement
  <2> QED
    BY <1>5, <2>2 DEF Times
<1>6. CASE s # screen
  <2>1. Q = P
    BY <1>1, <1>2, <1>6
  <2> QED
    BY <1>6, <2>1 DEF Times
<1> QED
  BY <1>5, <1>6

LEMMA NoTimes ==
  ASSUME lap = <<>>, NEW s
  PROVE  Times(s) = 0
<1>1. {i \in DOMAIN lap : lap[i] = s} = {}
  OBVIOUS
<1> QED
  BY <1>1, FS_EmptySet DEF Times

\* What ends alike in n screens does so in fewer.
LEMMA EndsAlikeInFewer ==
  ASSUME lap \in Seq(Screens), NEW n \in Nat, NEW m \in Nat, m <= n, EndsAlike(n)
  PROVE  EndsAlike(m)
BY DEF EndsAlike

LEMMA EndsAlikeInOneMore ==
  ASSUME NEW screen \in Screens, lap \in Seq(Screens), lap' = Append(lap, screen),
         NEW n \in Nat \ {0}, lap # <<>>, Last = screen
  PROVE  EndsAlike(n + 1)' <=> EndsAlike(n)
<1> DEFINE k == Len(lap)
<1>1. k \in Nat \ {0} /\ Len(lap') = k + 1
  OBVIOUS
<1>2. lap'[k + 1] = screen /\ lap[k] = screen /\ \A i \in 1..k : lap'[i] = lap[i]
  BY DEF Last
<1>3. ASSUME EndsAlike(n) PROVE EndsAlike(n + 1)'
  <2>1. k >= n /\ \A i \in (k - n + 1)..k : lap[i] = screen
    BY <1>2, <1>3 DEF EndsAlike
  <2>2. \A i \in ((k + 1) - (n + 1) + 1)..(k + 1) : lap'[i] = screen
    <3>1. ASSUME NEW i \in ((k + 1) - (n + 1) + 1)..(k + 1) PROVE lap'[i] = screen
      <4>1. i = k + 1 \/ (i \in (k - n + 1)..k /\ i \in 1..k)
        BY <1>1, <2>1, <3>1
      <4> QED
        BY <1>2, <2>1, <4>1
    <3> QED
      BY <3>1
  <2>3. lap'[Len(lap')] = screen /\ Len(lap') >= n + 1
    BY <1>1, <1>2, <2>1
  <2>4. \A i \in (Len(lap') - (n + 1) + 1)..Len(lap') : lap'[i] = lap'[Len(lap')]
    BY <1>1, <2>2, <2>3
  <2> QED
    BY <2>3, <2>4 DEF EndsAlike
<1>4. ASSUME EndsAlike(n + 1)' PROVE EndsAlike(n)
  <2>1. k + 1 >= n + 1 /\ \A i \in ((k + 1) - (n + 1) + 1)..(k + 1) : lap'[i] = screen
    BY <1>1, <1>2, <1>4 DEF EndsAlike
  <2>2. ASSUME NEW i \in (k - n + 1)..k PROVE lap[i] = screen
    <3>1. i \in 1..k /\ i \in ((k + 1) - (n + 1) + 1)..(k + 1)
      BY <1>1, <2>1
    <3> QED
      BY <1>2, <2>1, <3>1
  <2> QED
    BY <1>1, <1>2, <2>1, <2>2 DEF EndsAlike
<1> QED
  BY <1>3, <1>4

LEMMA EndsAlikeInOne ==
  ASSUME NEW screen \in Screens, lap \in Seq(Screens), lap' = Append(lap, screen),
         lap = <<>> \/ Last # screen
  PROVE  EndsAlike(1)' /\ ~EndsAlike(2)'
<1> DEFINE k == Len(lap)
<1>1. k \in Nat /\ Len(lap') = k + 1 /\ lap'[k + 1] = screen
  OBVIOUS
<1>2. EndsAlike(1)'
  BY <1>1 DEF EndsAlike
<1>3. ~EndsAlike(2)'
  <2>1. CASE lap = <<>>
    BY <1>1, <2>1 DEF EndsAlike
  <2>2. CASE lap # <<>>
    <3>1. k \in Nat \ {0} /\ lap'[k] # screen
      BY <2>2 DEF Last
    <3>2. k \in ((k + 1) - 2 + 1)..(k + 1)
      BY <3>1
    <3> QED
      BY <1>1, <3>1, <3>2 DEF EndsAlike
  <2> QED
    BY <2>1, <2>2
<1> QED
  BY <1>2, <1>3

\* The counters of the detector go on being those of the lap.
LEMMA TallyGoesOn ==
  ASSUME TypeOK, Tally, NEW screen \in Screens,
         lap' = Append(lap, screen), detector' = observed(screen, FALSE)
  PROVE  Tally' /\ lap' # <<>> /\ detector'.ineffective = Ineffective(screen)
<1>0. lap \in Seq(Screens) /\ detector \in Detector /\ detector.ineffective \in Nat
  BY DEF TypeOK, Detector
<1>1. /\ detector'.previous = screen /\ detector'.ineffective = Ineffective(screen)
      /\ \A s \in Screens :
           detector'.seen[s] = IF s = screen THEN detector.seen[s] + 1 ELSE detector.seen[s]
  BY <1>0 DEF observed, Detector, Seen
<1>2. \A s \in Screens : detector'.seen[s] = Times(s)'
  <2>1. ASSUME NEW s \in Screens PROVE detector'.seen[s] = Times(s)'
    <3>1. Times(s)' = (IF s = screen THEN Times(s) + 1 ELSE Times(s))
      BY <1>0, OneTimeMore
    <3>2. detector.seen[s] = Times(s)
      BY DEF Tally
    <3> QED
      BY <1>1, <3>1, <3>2
  <2> QED
    BY <2>1
<1>3. lap' # <<>> /\ Last' = screen
  BY <1>0 DEF Last
<1>4. PICK m \in Nat : m = detector.ineffective
  BY <1>0
<1>5. PICK n \in Nat : n = Ineffective(screen)
  BY <1>0 DEF Ineffective
<1>6. EndsAlike(n + 1)' /\ ~EndsAlike(n + 2)'
  <2>1. CASE detector.previous = screen
    <3>1. lap # <<>> /\ Last = screen /\ n = m + 1
      BY <1>4, <1>5, <2>1, DiscoveryAssumption DEF Tally, Ineffective
    <3>2. EndsAlike(m + 1) /\ ~EndsAlike(m + 2)
      BY <1>4, <3>1 DEF Tally
    <3>3. EndsAlike((m + 1) + 1)' /\ ~EndsAlike((m + 2) + 1)'
      BY <1>0, <3>1, <3>2, EndsAlikeInOneMore
    <3>4. (m + 1) + 1 = n + 1 /\ (m + 2) + 1 = n + 2
      BY <3>1
    <3> QED
      BY <3>3, <3>4
  <2>2. CASE detector.previous # screen
    <3>1. n = 0 /\ (lap = <<>> \/ Last # screen)
      BY <1>5, <2>2 DEF Tally, Ineffective
    <3> QED
      BY <1>0, <3>1, EndsAlikeInOne
  <2> QED
    BY <2>1, <2>2
<1>7. EndsAlike(detector.ineffective + 1)' /\ ~EndsAlike(detector.ineffective + 2)'
  BY <1>1, <1>5, <1>6 DEF EndsAlike
<1> QED
  BY <1>1, <1>2, <1>3, <1>7 DEF Tally

-----------------------------------------------------------------------------
\* The steps after which the detector and the record are what they were.

Calm == UNCHANGED <<bounds, detector, lap, readings, performed>>

LEMMA CalmKeeps ==
  ASSUME Calm
  PROVE  /\ Tally <=> Tally'
         /\ Bounded <=> Bounded'
         /\ WentRound <=> WentRound'
         /\ NoEffect <=> NoEffect'
         /\ NamesRead' = NamesRead
<1>2. \A s \in Screens : Times(s)' = Times(s)
  BY DEF Calm, Times
<1>3. Tally <=> Tally'
  BY <1>2 DEF Calm, Tally, Last, EndsAlike
<1>4. WentRound <=> WentRound'
  BY <1>2 DEF Calm, WentRound
<1>5. NoEffect <=> NoEffect'
  BY DEF Calm, NoEffect, EndsAlike
<1> QED
  BY <1>3, <1>4, <1>5 DEF Calm, Bounded, NamesRead

\* The parts of the type, for steps that leave the detector and the record alone.
Stopping ==
  /\ at \in Places
  /\ stop \in [trigger: Triggers \cup {"none", "reached", "refused"}, goesOn: BOOLEAN]

Counting ==
  /\ attempted \in 0..(bounds.maxSteps + 1) /\ unusable \in 0..UNUSABLE_RESPONSES_ALLOWED
  /\ interventions \in 0..1 /\ helped \in Nat \cup {-1} /\ landed \in Nat /\ episode \in 0..MaxEpisodes

Showing ==
  /\ shown \in Screens \cup {NoScreen} /\ armed \in BOOLEAN /\ late \in BOOLEAN
  /\ owner \in {"automation", "paused", "operator", "resume_requested"}

Logging ==
  /\ outcome \in {"none", "STUCK", "ESCALATED", "SUCCESS"}
  /\ ended \in {"none", "success", "intervention_required", "failure"}
  /\ result \in {"none", "reached", "stuck", "failed", "broken", "unwritable"}

LEMMA TypeIsItsParts ==
  ASSUME TypeOK
  PROVE  Stopping /\ Counting /\ Showing /\ Logging
BY DEF TypeOK, Stopping, Counting, Showing, Logging

LEMMA TypeFromParts ==
  ASSUME TypeOK, UNCHANGED <<bounds, attended>>, detector' \in Detector, lap' \in Seq(Screens),
         readings' \subseteq Names \X Controls, performed' \in Nat, outputs' \subseteq Names,
         Stopping', Counting', Showing', Logging'
  PROVE  TypeOK'
BY DEF TypeOK, Stopping, Counting, Showing, Logging

LEMMA StopsIsTyped ==
  ASSUME NEW trigger \in Triggers, NEW goesOn \in BOOLEAN, Stops(trigger, goesOn)
  PROVE  Stopping'
BY DEF Stops, Stopping, Places

LEMMA CalmType ==
  ASSUME TypeOK, Calm, attended' = attended, outputs' = outputs,
         Stopping', Counting', Showing', Logging'
  PROVE  TypeOK'
BY TypeFromParts DEF TypeOK, Calm

LEMMA CalmAnswered ==
  ASSUME Calm, Answered, outputs' = outputs,
         stop'.trigger = "reached" => stop.trigger = "reached" /\ at' \in {"concluding", "done"}
  PROVE  Answered'
BY CalmKeeps DEF Calm, Answered

\* Where the run goes on, it went on before: nothing about it has changed.
LEMMA CalmGoesOn ==
  ASSUME DInv, Calm, TypeOK', outputs' = outputs,
         stop'.trigger = "reached" => stop.trigger = "reached" /\ at' \in {"concluding", "done"},
         Choosing' => Choosing /\ armed' = armed,
         Onward' => Onward /\ attempted' = attempted /\ unusable' = unusable,
         at' \in {"stalling", "paused", "concluding"} =>
           /\ at \in {"stalling", "paused", "concluding"}
           /\ stop' = stop /\ attempted' = attempted /\ (late => late')
           /\ at' # "concluding" => at # "concluding"
  PROVE  DInv'
<1>1. Tally' /\ Answered'
  BY CalmKeeps, CalmAnswered DEF DInv
<1>2. Paced' /\ Armed' /\ Quiet'
  BY CalmKeeps DEF DInv, Paced, Armed, Quiet, Calm
<1>3. Why'
  BY CalmKeeps DEF DInv, Why, Calm
<1> QED
  BY <1>1, <1>2, <1>3 DEF DInv

LEMMA PersonSteps ==
  ASSUME DInv, PersonMoves \/ TimePasses \/ UNCHANGED vars
  PROVE  DInv'
<1>1. CASE PersonMoves
  <2>1. TypeOK'
    BY <1>1 DEF DInv, TypeOK, PersonMoves, Session!Take, Session!Return, fixed, stretch, record, help,
                log
  <2> QED
    BY <1>1, <2>1, CalmGoesOn DEF PersonMoves, Calm, Choosing, Onward, fixed, stretch, record, help,
       log, DInv, Answered
<1>2. CASE TimePasses
  <2>1. TypeOK'
    BY <1>2 DEF DInv, TypeOK, TimePasses, fixed, stretch, record, help, session, log
  <2> QED
    BY <1>2, <2>1, CalmGoesOn DEF TimePasses, Calm, Choosing, Onward, fixed, stretch, record, help,
       session, log, DInv, Answered
<1>3. CASE UNCHANGED vars
  <2>1. TypeOK'
    BY <1>3 DEF DInv, TypeOK, vars, fixed, stretch, record, help, session, log
  <2> QED
    BY <1>3, <2>1, CalmGoesOn DEF vars, Calm, Choosing, Onward, fixed, stretch, record, help,
       session, log, DInv, Answered
<1> QED
  BY <1>1, <1>2, <1>3

LEMMA TurnsBegin ==
  ASSUME DInv, Open \/ Turn \/ ModelIsLate \/ ModelFails \/ Corrected \/ Escalates
  PROVE  DInv'
<1>0. TypeOK /\ Stopping /\ Counting /\ Showing /\ Logging
  BY TypeIsItsParts DEF DInv
<1>1. CASE Open
  <2>1. Calm /\ attended' = attended /\ outputs' = outputs
    BY <1>1 DEF Open, Calm, fixed, stretch, record, help, session, log
  <2>2. Stopping'
    BY <1>1, <1>0 DEF Open, Stopping, NoStop, Triggers, Places
  <2>3. Counting'
    BY <1>1, <1>0, <2>1, BoundsAreNumbers, DiscoveryAssumption DEF Open, Counting, fixed,
       stretch, record, help, session, log, UNUSABLE_RESPONSES_ALLOWED, DInv, Paced, Onward,
       Choosing
  <2>4. Showing' /\ Logging'
    BY <1>1, <1>0 DEF Open, Showing, Logging, fixed, stretch, record, help, session, log
  <2>5. TypeOK'
    BY <1>0, <2>1, <2>2, <2>3, <2>4, CalmType
  <2>6. Tally' /\ Answered'
    BY <1>1, <2>1, CalmKeeps, CalmAnswered DEF DInv, Answered, Open, NoStop
  <2>7. Paced' /\ Armed' /\ Quiet'
    BY <1>1, <1>0, <2>1, CalmKeeps, BoundsAreNumbers DEF DInv, Paced, Armed, Quiet, Onward,
       Choosing, Open, fixed, stretch, record, help, session, log, UNUSABLE_RESPONSES_ALLOWED,
       NoStop
  <2>8. Why'
    BY <1>1, <1>0, <2>1, CalmKeeps, BoundsAreNumbers DEF DInv, Why, Open, fixed, stretch,
       record, help, session, log, NoStop
  <2> QED
    BY <2>5, <2>6, <2>7, <2>8 DEF DInv
<1>2. CASE Turn
  <2>1. Calm /\ attended' = attended /\ outputs' = outputs
    BY <1>2 DEF Turn, Calm, fixed, stretch, record, help, session
  <2>2. Stopping'
    <3>1. "deadline" \in Triggers /\ "max_steps" \in Triggers
      BY DEF Triggers
    <3>2. CASE Stops("deadline", FALSE) \/ Stops("max_steps", FALSE)
      BY <3>1, <3>2, StopsIsTyped
    <3>3. CASE at' \in {"deciding", "failing"} /\ stop' = stop
      BY <1>0, <3>3 DEF Stopping, Places
    <3> QED
      BY <1>2, <3>2, <3>3 DEF Turn
  <2>3. Counting'
    BY <1>2, <1>0, <2>1, BoundsAreNumbers, DiscoveryAssumption DEF Turn, Counting, fixed,
       stretch, record, help, session, UNUSABLE_RESPONSES_ALLOWED, DInv, Paced, Onward, Choosing
  <2>4. Showing' /\ Logging'
    BY <1>2, <1>0 DEF Turn, Showing, Logging, fixed, stretch, record, help, session
  <2>5. TypeOK'
    BY <1>0, <2>1, <2>2, <2>3, <2>4, CalmType
  <2>6. Tally' /\ Answered'
    BY <1>2, <2>1, CalmKeeps, CalmAnswered DEF DInv, Answered, Turn, Stops
  <2>7. Paced' /\ Armed' /\ Quiet'
    BY <1>2, <1>0, <2>1, CalmKeeps, BoundsAreNumbers DEF DInv, Paced, Armed, Quiet, Onward,
       Choosing, Turn, Stops, fixed, stretch, record, help, session, UNUSABLE_RESPONSES_ALLOWED
  <2>8. Why'
    BY <1>2, <1>0, <2>1, CalmKeeps, BoundsAreNumbers DEF DInv, Why, Turn, Stops, fixed, stretch,
       record, help, session
  <2> QED
    BY <2>5, <2>6, <2>7, <2>8 DEF DInv
<1>3. CASE ModelIsLate
  <2>1. Calm /\ attended' = attended /\ outputs' = outputs
    BY <1>3 DEF ModelIsLate, Calm, fixed, stretch, record, help, session, log
  <2>2. Stopping'
    BY <1>3, <1>0 DEF ModelIsLate, Stopping, Stops, Triggers, Places, Decides
  <2>3. Counting'
    BY <1>3, <1>0, <2>1, BoundsAreNumbers, DiscoveryAssumption DEF ModelIsLate, Counting, fixed,
       stretch, record, help, session, log, UNUSABLE_RESPONSES_ALLOWED, DInv, Paced, Onward,
       Choosing, Decides
  <2>4. Showing' /\ Logging'
    BY <1>3, <1>0 DEF ModelIsLate, Showing, Logging, fixed, stretch, record, help, session, log,
       Decides
  <2>5. TypeOK'
    BY <1>0, <2>1, <2>2, <2>3, <2>4, CalmType
  <2>6. Tally' /\ Answered'
    BY <1>3, <2>1, CalmKeeps, CalmAnswered DEF DInv, Answered, ModelIsLate, Stops, Decides
  <2>7. Paced' /\ Armed' /\ Quiet'
    BY <1>3, <1>0, <2>1, CalmKeeps, BoundsAreNumbers DEF DInv, Paced, Armed, Quiet, Onward,
       Choosing, ModelIsLate, Stops, fixed, stretch, record, help, session, log,
       UNUSABLE_RESPONSES_ALLOWED, Decides
  <2>8. Why'
    BY <1>3, <1>0, <2>1, CalmKeeps, BoundsAreNumbers DEF DInv, Why, ModelIsLate, Stops, fixed,
       stretch, record, help, session, log, Decides
  <2> QED
    BY <2>5, <2>6, <2>7, <2>8 DEF DInv
<1>4. CASE ModelFails
  <2>1. Calm /\ attended' = attended /\ outputs' = outputs
    BY <1>4 DEF ModelFails, Calm, fixed, stretch, record, help, session, log
  <2>2. Stopping'
    BY <1>4, <1>0 DEF ModelFails, Stopping, Triggers, Places, Decides
  <2>3. Counting'
    BY <1>4, <1>0, <2>1, BoundsAreNumbers, DiscoveryAssumption DEF ModelFails, Counting, fixed,
       stretch, record, help, session, log, UNUSABLE_RESPONSES_ALLOWED, DInv, Paced, Onward,
       Choosing, Decides
  <2>4. Showing' /\ Logging'
    BY <1>4, <1>0 DEF ModelFails, Showing, Logging, fixed, stretch, record, help, session, log,
       Decides
  <2>5. TypeOK'
    BY <1>0, <2>1, <2>2, <2>3, <2>4, CalmType
  <2>6. Tally' /\ Answered'
    BY <1>4, <2>1, CalmKeeps, CalmAnswered DEF DInv, Answered, ModelFails, Decides
  <2>7. Paced' /\ Armed' /\ Quiet'
    BY <1>4, <1>0, <2>1, CalmKeeps, BoundsAreNumbers DEF DInv, Paced, Armed, Quiet, Onward,
       Choosing, ModelFails, fixed, stretch, record, help, session, log,
       UNUSABLE_RESPONSES_ALLOWED, Decides
  <2>8. Why'
    BY <1>4, <1>0, <2>1, CalmKeeps, BoundsAreNumbers DEF DInv, Why, ModelFails, fixed, stretch,
       record, help, session, log, Decides
  <2> QED
    BY <2>5, <2>6, <2>7, <2>8 DEF DInv
<1>5. CASE Corrected
  <2>1. Calm /\ attended' = attended /\ outputs' = outputs
    BY <1>5 DEF Corrected, Calm, fixed, stretch, record, help, session, log
  <2>2. Stopping'
    BY <1>5, <1>0 DEF Corrected, Stopping, Triggers, Places, Decides
  <2>3. Counting'
    BY <1>5, <1>0, <2>1, BoundsAreNumbers, DiscoveryAssumption DEF Corrected, Counting, fixed,
       stretch, record, help, session, log, UNUSABLE_RESPONSES_ALLOWED, DInv, Paced, Onward,
       Choosing, Decides
  <2>4. Showing' /\ Logging'
    BY <1>5, <1>0 DEF Corrected, Showing, Logging, fixed, stretch, record, help, session, log,
       Decides
  <2>5. TypeOK'
    BY <1>0, <2>1, <2>2, <2>3, <2>4, CalmType
  <2>6. Tally' /\ Answered'
    BY <1>5, <2>1, CalmKeeps, CalmAnswered DEF DInv, Answered, Corrected, Decides
  <2>7. Paced' /\ Armed' /\ Quiet'
    BY <1>5, <1>0, <2>1, CalmKeeps, BoundsAreNumbers DEF DInv, Paced, Armed, Quiet, Onward,
       Choosing, Corrected, fixed, stretch, record, help, session, log,
       UNUSABLE_RESPONSES_ALLOWED, Decides
  <2>8. Why'
    BY <1>5, <1>0, <2>1, CalmKeeps, BoundsAreNumbers DEF DInv, Why, Corrected, fixed, stretch,
       record, help, session, log, Decides
  <2> QED
    BY <2>5, <2>6, <2>7, <2>8 DEF DInv
<1>6. CASE Escalates
  <2>1. Calm /\ attended' = attended /\ outputs' = outputs
    BY <1>6 DEF Escalates, Calm, fixed, stretch, record, help, session
  <2>2. Stopping'
    BY <1>6, <1>0 DEF Escalates, Stopping, Stops, Triggers, Places, Decides
  <2>3. Counting'
    BY <1>6, <1>0, <2>1, BoundsAreNumbers, DiscoveryAssumption DEF Escalates, Counting, fixed,
       stretch, record, help, session, UNUSABLE_RESPONSES_ALLOWED, DInv, Paced, Onward,
       Choosing, Decides
  <2>4. Showing' /\ Logging'
    BY <1>6, <1>0 DEF Escalates, Showing, Logging, fixed, stretch, record, help, session,
       Decides
  <2>5. TypeOK'
    BY <1>0, <2>1, <2>2, <2>3, <2>4, CalmType
  <2>6. Tally' /\ Answered'
    BY <1>6, <2>1, CalmKeeps, CalmAnswered DEF DInv, Answered, Escalates, Stops, Decides
  <2>7. Paced' /\ Armed' /\ Quiet'
    BY <1>6, <1>0, <2>1, CalmKeeps, BoundsAreNumbers DEF DInv, Paced, Armed, Quiet, Onward,
       Choosing, Escalates, Stops, fixed, stretch, record, help, session,
       UNUSABLE_RESPONSES_ALLOWED, Decides
  <2>8. Why'
    BY <1>6, <1>0, <2>1, CalmKeeps, BoundsAreNumbers DEF DInv, Why, Escalates, Stops, fixed,
       stretch, record, help, session, Decides
  <2> QED
    BY <2>5, <2>6, <2>7, <2>8 DEF DInv
<1> QED
  BY <1>1, <1>2, <1>3, <1>4, <1>5, <1>6

LEMMA RunStops ==
  ASSUME DInv, Fail \/ Conclude \/ Unwritable \/ Stall
  PROVE  DInv'
<1>0. TypeOK /\ Stopping /\ Counting /\ Showing /\ Logging
  BY TypeIsItsParts DEF DInv
<1>1. CASE Fail
  <2>1. Calm /\ attended' = attended /\ outputs' = outputs
    BY <1>1 DEF Fail, Calm, fixed, stretch, record, session
  <2>2. Stopping'
    <3>1. "deadline" \in Triggers
      BY DEF Triggers
    <3>2. CASE Stops("deadline", FALSE)
      BY <3>1, <3>2, StopsIsTyped
    <3>3. CASE at' = "done" /\ stop' = stop
      BY <1>0, <3>3 DEF Stopping, Places
    <3> QED
      BY <1>1, <3>2, <3>3 DEF Fail, Leaves
  <2>3. Counting'
    BY <1>1, <1>0, <2>1, BoundsAreNumbers, DiscoveryAssumption DEF Fail, Counting, Leaves,
       fixed, stretch, record, session, UNUSABLE_RESPONSES_ALLOWED, DInv, Paced, Onward,
       Choosing
  <2>4. Showing' /\ Logging'
    BY <1>1, <1>0 DEF Fail, Showing, Logging, Leaves, fixed, stretch, record, session
  <2>5. TypeOK'
    BY <1>0, <2>1, <2>2, <2>3, <2>4, CalmType
  <2>6. Tally' /\ Answered'
    BY <1>1, <2>1, CalmKeeps, CalmAnswered DEF DInv, Answered, Fail, Stops, Leaves
  <2>7. Paced' /\ Armed' /\ Quiet'
    BY <1>1, <1>0, <2>1, CalmKeeps, BoundsAreNumbers DEF DInv, Paced, Armed, Quiet, Onward,
       Choosing, Fail, Stops, Leaves, fixed, stretch, record, session,
       UNUSABLE_RESPONSES_ALLOWED
  <2>8. Why'
    BY <1>1, <1>0, <2>1, CalmKeeps, BoundsAreNumbers DEF DInv, Why, Fail, Stops, Leaves, fixed,
       stretch, record, session
  <2> QED
    BY <2>5, <2>6, <2>7, <2>8 DEF DInv
<1>2. CASE Conclude
  <2>1. Calm /\ attended' = attended /\ outputs' = outputs
    BY <1>2 DEF Conclude, Calm, fixed, stretch, record, session
  <2>2. Stopping'
    BY <1>2, <1>0 DEF Conclude, Stopping, Leaves, Triggers, Places
  <2>3. Counting'
    BY <1>2, <1>0, <2>1, BoundsAreNumbers, DiscoveryAssumption DEF Conclude, Counting, Leaves,
       fixed, stretch, record, session, UNUSABLE_RESPONSES_ALLOWED, DInv, Paced, Onward,
       Choosing
  <2>4. Showing' /\ Logging'
    BY <1>2, <1>0 DEF Conclude, Showing, Logging, Leaves, fixed, stretch, record, session,
       Conclusion, Class
  <2>5. TypeOK'
    BY <1>0, <2>1, <2>2, <2>3, <2>4, CalmType
  <2>6. Tally' /\ Answered'
    BY <1>2, <2>1, CalmKeeps, CalmAnswered DEF DInv, Answered, Conclude, Leaves
  <2>7. Paced' /\ Armed' /\ Quiet'
    BY <1>2, <1>0, <2>1, CalmKeeps, BoundsAreNumbers DEF DInv, Paced, Armed, Quiet, Onward,
       Choosing, Conclude, Leaves, fixed, stretch, record, session, UNUSABLE_RESPONSES_ALLOWED
  <2>8. Why'
    BY <1>2, <1>0, <2>1, CalmKeeps, BoundsAreNumbers DEF DInv, Why, Conclude, Leaves, fixed,
       stretch, record, session
  <2> QED
    BY <2>5, <2>6, <2>7, <2>8 DEF DInv
<1>3. CASE Unwritable
  <2>1. Calm /\ attended' = attended /\ outputs' = outputs
    BY <1>3 DEF Unwritable, Calm, fixed, stretch, record, session, log
  <2>2. Stopping'
    BY <1>3, <1>0 DEF Unwritable, Stopping, Leaves, Triggers, Places
  <2>3. Counting'
    BY <1>3, <1>0, <2>1, BoundsAreNumbers, DiscoveryAssumption DEF Unwritable, Counting, Leaves,
       fixed, stretch, record, session, log, UNUSABLE_RESPONSES_ALLOWED, DInv, Paced, Onward,
       Choosing
  <2>4. Showing' /\ Logging'
    BY <1>3, <1>0 DEF Unwritable, Showing, Logging, Leaves, fixed, stretch, record, session, log
  <2>5. TypeOK'
    BY <1>0, <2>1, <2>2, <2>3, <2>4, CalmType
  <2>6. Tally' /\ Answered'
    BY <1>3, <2>1, CalmKeeps, CalmAnswered DEF DInv, Answered, Unwritable, Leaves
  <2>7. Paced' /\ Armed' /\ Quiet'
    BY <1>3, <1>0, <2>1, CalmKeeps, BoundsAreNumbers DEF DInv, Paced, Armed, Quiet, Onward,
       Choosing, Unwritable, Leaves, fixed, stretch, record, session, log,
       UNUSABLE_RESPONSES_ALLOWED
  <2>8. Why'
    BY <1>3, <1>0, <2>1, CalmKeeps, BoundsAreNumbers DEF DInv, Why, Unwritable, Leaves, fixed,
       stretch, record, session, log
  <2> QED
    BY <2>5, <2>6, <2>7, <2>8 DEF DInv
<1>4. CASE Stall
  <2>1. Calm /\ attended' = attended /\ outputs' = outputs
    BY <1>4 DEF Stall, Calm, fixed, stretch, record, session, log
  <2>2. Stopping'
    BY <1>4, <1>0 DEF Stall, Stopping, Leaves, Triggers, Places, Session!Pause,
       Session!PauseUnwritable
  <2>3. Counting'
    BY <1>4, <1>0, <2>1, BoundsAreNumbers, DiscoveryAssumption DEF Stall, Counting, Leaves,
       fixed, stretch, record, session, log, UNUSABLE_RESPONSES_ALLOWED, DInv, Paced, Onward,
       Choosing, Session!Pause, Session!PauseUnwritable
  <2>4. Showing' /\ Logging'
    BY <1>4, <1>0 DEF Stall, Showing, Logging, Leaves, fixed, stretch, record, session, log,
       Session!Pause, Session!PauseUnwritable
  <2>5. TypeOK'
    BY <1>0, <2>1, <2>2, <2>3, <2>4, CalmType
  <2>6. Tally' /\ Answered'
    BY <1>4, <2>1, CalmKeeps, CalmAnswered DEF DInv, Answered, Stall, Leaves, Session!Pause,
       Session!PauseUnwritable
  <2>7. Paced' /\ Armed' /\ Quiet'
    BY <1>4, <1>0, <2>1, CalmKeeps, BoundsAreNumbers DEF DInv, Paced, Armed, Quiet, Onward,
       Choosing, Stall, Leaves, fixed, stretch, record, session, log,
       UNUSABLE_RESPONSES_ALLOWED, Session!Pause, Session!PauseUnwritable
  <2>8. Why'
    BY <1>4, <1>0, <2>1, CalmKeeps, BoundsAreNumbers DEF DInv, Why, Stall, Leaves, fixed,
       stretch, record, session, log, Session!Pause, Session!PauseUnwritable
  <2> QED
    BY <2>5, <2>6, <2>7, <2>8 DEF DInv
<1> QED
  BY <1>1, <1>2, <1>3, <1>4

\* The detector counts alike, and the lap is what it was.
Alike ==
  /\ UNCHANGED <<bounds, lap>>
  /\ detector'.seen = detector.seen /\ detector'.previous = detector.previous
  /\ detector'.ineffective = detector.ineffective

LEMMA AlikeKeeps ==
  ASSUME Alike
  PROVE  /\ Tally <=> Tally'
         /\ Bounded <=> Bounded'
         /\ WentRound <=> WentRound'
         /\ NoEffect <=> NoEffect'
<1>1. \A s \in Screens : Times(s)' = Times(s)
  BY DEF Alike, Times
<1>2. Tally <=> Tally'
  BY <1>1 DEF Alike, Tally, Last, EndsAlike
<1>3. WentRound <=> WentRound'
  BY <1>1 DEF Alike, WentRound
<1>4. NoEffect <=> NoEffect'
  BY DEF Alike, NoEffect, EndsAlike
<1> QED
  BY <1>2, <1>3, <1>4 DEF Alike, Bounded

LEMMA SucceedsStep ==
  ASSUME DInv, Succeeds
  PROVE  DInv'
<1>0. TypeOK /\ Stopping /\ Counting /\ Showing /\ Logging
  BY TypeIsItsParts DEF DInv
<1>1. Calm /\ attended' = attended
  BY DEF Succeeds, Calm, fixed, stretch
<1>2. PICK claimed \in SUBSET Names : Backed(claimed) /\ outputs' = claimed
  BY DEF Succeeds
<1>3. stop' = [trigger |-> "reached", goesOn |-> FALSE] /\ at' = "concluding"
  BY DEF Succeeds
<1>4. Stopping' /\ Counting' /\ Showing' /\ Logging'
  BY <1>0, <1>1, <1>3 DEF Succeeds, Stopping, Counting, Showing, Logging, Places, help, session, Calm,
     UNUSABLE_RESPONSES_ALLOWED
<1>5. TypeOK'
  BY <1>0, <1>1, <1>2, <1>4, TypeFromParts DEF TypeOK, Calm
<1>6. Tally'
  BY <1>1, CalmKeeps DEF DInv
<1>7. Answered'
  BY <1>1, <1>2, <1>3, CalmKeeps DEF DInv, Answered, Backed, Calm
<1>8. Paced' /\ Armed' /\ Quiet' /\ Why'
  BY <1>3 DEF Paced, Armed, Quiet, Why, Onward, Choosing
<1> QED
  BY <1>5, <1>6, <1>7, <1>8 DEF DInv

LEMMA MissesStep ==
  ASSUME DInv, Misses
  PROVE  DInv'
<1>0. TypeOK /\ Stopping /\ Counting /\ Showing /\ Logging
  BY TypeIsItsParts DEF DInv
<1>1. /\ UNCHANGED <<bounds, attended, lap, readings, performed, outputs, attempted, armed, late>>
      /\ unusable' = 0 /\ at = "deciding"
  BY DEF Misses, Decides, fixed, record, help
<1>2. detector' \in Detector /\ Alike
  <2>1. detector \in Detector
    BY <1>0 DEF TypeOK
  <2>2. detector' = [detector EXCEPT !.failures = detector.failures + 1]
    BY DEF Misses
  <2>3. detector' \in Detector
    BY <2>1, <2>2 DEF Detector
  <2>4. /\ detector'.seen = detector.seen /\ detector'.previous = detector.previous
        /\ detector'.ineffective = detector.ineffective
    BY <2>1, <2>2 DEF Detector
  <2> QED
    BY <1>1, <2>3, <2>4 DEF Alike
<1>3. \/ Stops("resolution_failures", TRUE)
      \/ at' = "turning" /\ stop' = stop
  BY DEF Misses
<1>4. Stopping'
  <2>1. "resolution_failures" \in Triggers
    BY DEF Triggers
  <2> QED
    BY <1>0, <1>3, <2>1, StopsIsTyped DEF Stopping, Places
<1>5. Counting'
  BY <1>0, <1>1 DEF Misses, Counting, help, session, InTime, UNUSABLE_RESPONSES_ALLOWED
<1>6. Showing' /\ Logging'
  BY <1>0, <1>1 DEF Misses, Showing, Logging, session
<1>7. TypeOK'
  BY <1>0, <1>1, <1>2, <1>4, <1>5, <1>6, TypeFromParts DEF TypeOK
<1>8. Tally' /\ Quiet' /\ Armed'
  BY <1>1, <1>2, AlikeKeeps DEF DInv, Quiet, Armed, Choosing
<1>9. Answered'
  <2>1. stop.trigger # "reached"
    BY <1>1 DEF DInv, Answered
  <2>2. stop'.trigger # "reached"
    BY <1>3, <2>1 DEF Stops
  <2> QED
    BY <1>1, <2>2 DEF DInv, Answered
<1>10. Paced' /\ Why'
  BY <1>1, <1>3 DEF DInv, Paced, Onward, Choosing, Why, Stops, UNUSABLE_RESPONSES_ALLOWED
<1> QED
  BY <1>7, <1>8, <1>9, <1>10 DEF DInv

-----------------------------------------------------------------------------
\* An action that was performed.

\* What the action was, and whether it was a reading.
Recorded(readOnly) ==
  IF readOnly
  THEN \E name \in Names, control \in Controls :
         Unread(name, control) /\ readings' = readings \cup {<<name, control>>}
  ELSE UNCHANGED readings

LEMMA ReadingsAreSteps ==
  ASSUME DInv, NEW readOnly \in BOOLEAN, Recorded(readOnly), performed' = performed + 1
  PROVE  /\ IsFiniteSet(readings') /\ Cardinality(readings') <= performed'
         /\ readings' \subseteq Names \X Controls
<1>0. /\ IsFiniteSet(readings) /\ Cardinality(readings) <= performed /\ performed \in Nat
      /\ readings \subseteq Names \X Controls /\ Cardinality(readings) \in Nat
  BY FS_CardinalityType DEF DInv, Answered, TypeOK
<1>1. CASE readings' = readings
  BY <1>0, <1>1
<1>2. CASE \E name \in Names, control \in Controls : readings' = readings \cup {<<name, control>>}
  <2>1. PICK name \in Names, control \in Controls : readings' = readings \cup {<<name, control>>}
    BY <1>2
  <2>2. /\ IsFiniteSet(readings')
        /\ Cardinality(readings') \in {Cardinality(readings), Cardinality(readings) + 1}
    BY <1>0, <2>1, FS_AddElement
  <2> QED
    BY <1>0, <2>1, <2>2
<1> QED
  BY <1>1, <1>2 DEF Recorded

LEMMA ObservedIsTyped ==
  ASSUME TypeOK, NEW screen \in Screens, NEW readOnly \in BOOLEAN
  PROVE  observed(screen, readOnly) \in Detector
<1>1. detector \in Detector /\ detector.ineffective \in Nat /\ detector.seen[screen] \in Nat
  BY DEF TypeOK, Detector
<1>2. Ineffective(screen) \in Nat /\ Seen(screen) \in Nat
  BY <1>1 DEF Ineffective, Seen
<1> QED
  BY <1>1, <1>2 DEF observed, Detector

\* A screen the run goes on from breaks no bound, and one it stops at has broken
\* the bound that is named.
LEMMA VerdictIsTrue ==
  ASSUME DInv, at = "deciding",
         NEW screen \in Screens, NEW readOnly \in BOOLEAN, NEW overdue \in BOOLEAN,
         detector' = observed(screen, readOnly), bounds' = bounds,
         lap' = IF readOnly THEN lap ELSE Append(lap, screen)
  PROVE  /\ Tally'
         /\ verdict(screen, readOnly, overdue) = "none" => Bounded'
         /\ verdict(screen, readOnly, overdue) = "cycle" => WentRound'
         /\ verdict(screen, readOnly, overdue) = "no_effect" => NoEffect'
<1>0. TypeOK /\ Tally /\ Bounded
  BY DEF DInv, Quiet, Choosing
<1>1. CASE readOnly
  <2>1. Alike
    BY <1>0, <1>1 DEF Alike, observed, TypeOK, Detector
  <2> QED
    BY <1>0, <1>1, <2>1, AlikeKeeps DEF verdict
<1>2. CASE ~readOnly
  <2>1. Tally' /\ lap' # <<>> /\ detector'.ineffective = Ineffective(screen)
    BY <1>0, <1>2, TallyGoesOn DEF observed
  <2>2. /\ \A s \in Screens : detector'.seen[s] = IF s = screen THEN Seen(screen) ELSE detector.seen[s]
        /\ Ineffective(screen) \in Nat /\ Seen(screen) \in Nat
    BY <1>0, <1>2 DEF observed, Seen, Ineffective, TypeOK, Detector
  <2>3. ASSUME verdict(screen, readOnly, overdue) = "none" PROVE Bounded'
    <3>1. ~(Ineffective(screen) >= bounds.ineffectiveAllowed) /\ ~(Seen(screen) > bounds.repeatsAllowed)
      BY <1>2, <2>3 DEF verdict
    <3>2. Ineffective(screen) < bounds.ineffectiveAllowed /\ Seen(screen) <= bounds.repeatsAllowed
      BY <1>0, <2>2, <3>1, BoundsAreNumbers
    <3> QED
      BY <1>0, <2>1, <2>2, <3>2 DEF Bounded
  <2>4. ASSUME verdict(screen, readOnly, overdue) = "cycle" PROVE WentRound'
    <3>1. Seen(screen) > bounds.repeatsAllowed
      BY <1>2, <2>4 DEF verdict
    <3>2. Times(screen)' = Seen(screen)
      BY <2>1, <2>2 DEF Tally
    <3> QED
      BY <3>1, <3>2 DEF WentRound
  <2>5. ASSUME verdict(screen, readOnly, overdue) = "no_effect" PROVE NoEffect'
    <3>1. Ineffective(screen) >= bounds.ineffectiveAllowed
      BY <1>2, <2>5 DEF verdict
    <3>2. PICK n \in Nat, m \in Nat : n = Ineffective(screen) + 1 /\ m = bounds.ineffectiveAllowed + 1
      BY <1>0, <2>2, BoundsAreNumbers
    <3>3. EndsAlike(n)'
      BY <2>1, <3>2 DEF Tally, EndsAlike
    <3>4. m <= n /\ lap' \in Seq(Screens)
      BY <1>0, <1>2, <2>2, <3>1, <3>2, BoundsAreNumbers DEF TypeOK
    <3>5. EndsAlike(m)'
      BY <3>3, <3>4 DEF EndsAlike
    <3> QED
      BY <3>2, <3>5 DEF NoEffect, EndsAlike
  <2> QED
    BY <2>1, <2>3, <2>4, <2>5
<1> QED
  BY <1>1, <1>2

LEMMA ActsStep ==
  ASSUME DInv, Acts
  PROVE  DInv'
<1>0. TypeOK /\ Stopping /\ Counting /\ Showing /\ Logging
  BY TypeIsItsParts DEF DInv
<1>1. /\ UNCHANGED <<bounds, attended, outputs, attempted, armed, interventions, helped>>
      /\ UNCHANGED <<owner, episode, ended, result>>
      /\ unusable' = 0 /\ landed' = landed + 1 /\ performed' = performed + 1 /\ at = "deciding"
      /\ stop.trigger # "reached"
  BY DEF Acts, Decides, fixed, help, session, DInv, Answered
<1>2. PICK readOnly \in BOOLEAN :
        /\ Recorded(readOnly)
        /\ \/ \E screen \in Screens, overdue \in BOOLEAN :
                LET trigger == verdict(screen, readOnly, overdue) IN
                /\ shown' = screen /\ late' = overdue
                /\ detector' = observed(screen, readOnly)
                /\ lap' = IF readOnly THEN lap ELSE Append(lap, screen)
                /\ IF trigger = "none" THEN at' = "turning" /\ UNCHANGED <<stop, outcome>>
                   ELSE Stops(trigger, TRUE) /\ outcome' = "STUCK"
           \/ /\ at' = "failing" /\ detector' = [detector EXCEPT !.failures = 0]
              /\ UNCHANGED <<shown, late, lap, stop, outcome>>
  BY DEF Acts, Recorded
<1>3. /\ IsFiniteSet(readings') /\ Cardinality(readings') <= performed'
      /\ readings' \subseteq Names \X Controls
  BY <1>1, <1>2, ReadingsAreSteps
<1>4. Counting'
  BY <1>0, <1>1 DEF Counting, UNUSABLE_RESPONSES_ALLOWED
<1>5. performed' \in Nat /\ outputs' \subseteq Names
  BY <1>0, <1>1 DEF TypeOK
<1>6. CASE /\ at' = "failing" /\ detector' = [detector EXCEPT !.failures = 0]
           /\ UNCHANGED <<shown, late, lap, stop, outcome>>
  <2>1. Alike /\ detector' \in Detector /\ lap' \in Seq(Screens)
    BY <1>0, <1>1, <1>6 DEF Alike, TypeOK, Detector
  <2>2. Stopping' /\ Showing' /\ Logging'
    BY <1>0, <1>1, <1>6 DEF Stopping, Showing, Logging, Places
  <2>3. TypeOK'
    BY <1>0, <1>1, <1>3, <1>4, <1>5, <2>1, <2>2, TypeFromParts
  <2>4. Tally'
    BY <2>1, AlikeKeeps DEF DInv
  <2> QED
    BY <1>1, <1>3, <1>6, <2>3, <2>4 DEF DInv, Paced, Armed, Quiet, Why, Answered, Onward, Choosing
<1>7. CASE \E screen \in Screens, overdue \in BOOLEAN :
             LET trigger == verdict(screen, readOnly, overdue) IN
             /\ shown' = screen /\ late' = overdue
             /\ detector' = observed(screen, readOnly)
             /\ lap' = IF readOnly THEN lap ELSE Append(lap, screen)
             /\ IF trigger = "none" THEN at' = "turning" /\ UNCHANGED <<stop, outcome>>
                ELSE Stops(trigger, TRUE) /\ outcome' = "STUCK"
  <2>1. PICK screen \in Screens, overdue \in BOOLEAN :
          /\ shown' = screen /\ late' = overdue
          /\ detector' = observed(screen, readOnly)
          /\ lap' = IF readOnly THEN lap ELSE Append(lap, screen)
          /\ IF verdict(screen, readOnly, overdue) = "none"
             THEN at' = "turning" /\ UNCHANGED <<stop, outcome>>
             ELSE Stops(verdict(screen, readOnly, overdue), TRUE) /\ outcome' = "STUCK"
    BY <1>7
  <2> DEFINE trigger == verdict(screen, readOnly, overdue)
  <2>2. /\ Tally'
        /\ trigger = "none" => Bounded'
        /\ trigger = "cycle" => WentRound'
        /\ trigger = "no_effect" => NoEffect'
    BY <1>1, <2>1, VerdictIsTrue
  <2>3. /\ trigger \in {"no_effect", "cycle", "max_steps", "deadline", "none"}
        /\ trigger = "max_steps" => attempted >= bounds.maxSteps
        /\ trigger = "deadline" => overdue
    BY DEF verdict
  <2> HIDE DEF trigger
  <2>4. detector' \in Detector /\ lap' \in Seq(Screens)
    BY <1>0, <2>1, ObservedIsTyped DEF TypeOK
  <2>5. IF trigger = "none" THEN at' = "turning" /\ UNCHANGED <<stop, outcome>>
        ELSE Stops(trigger, TRUE) /\ outcome' = "STUCK"
    BY <2>1 DEF trigger
  <2>6. Stopping'
    <3>1. CASE trigger = "none"
      BY <1>0, <2>5, <3>1 DEF Stopping, Places
    <3>2. CASE trigger # "none"
      <4>1. trigger \in Triggers
        BY <2>3, <3>2 DEF Triggers
      <4> QED
        BY <2>5, <3>2, <4>1, StopsIsTyped
    <3> QED
      BY <3>1, <3>2
  <2>7. Showing' /\ Logging'
    BY <1>0, <1>1, <2>1, <2>5 DEF Showing, Logging
  <2>8. TypeOK'
    BY <1>0, <1>1, <1>3, <1>4, <1>5, <2>4, <2>6, <2>7, TypeFromParts
  <2>9. Paced' /\ Armed'
    BY <1>1 DEF DInv, Paced, Armed, Onward, Choosing, UNUSABLE_RESPONSES_ALLOWED
  <2>10. Quiet'
    BY <2>2, <2>5 DEF Quiet, Choosing, Stops
  <2>11. Why'
    BY <1>1, <2>1, <2>2, <2>3, <2>5 DEF Why, Stops
  <2>12. Answered'
    <3>1. stop'.trigger # "reached"
      BY <1>1, <2>3, <2>5 DEF Stops
    <3> QED
      BY <1>3, <3>1 DEF Answered
  <2> QED
    BY <2>2, <2>8, <2>9, <2>10, <2>11, <2>12 DEF DInv
<1> QED
  BY <1>2, <1>6, <1>7

-----------------------------------------------------------------------------
\* The wait for a person ends.

LEMMA WaitEndsStep ==
  ASSUME DInv, WaitEnds
  PROVE  DInv'
<1>0. TypeOK /\ Stopping /\ Counting /\ Showing /\ Logging
  BY TypeIsItsParts DEF DInv
<1>1. /\ UNCHANGED <<bounds, attended, attempted, unusable, interventions, stop, outcome, ended>>
      /\ UNCHANGED <<readings, performed, outputs, late, landed, episode>>
      /\ at = "paused" /\ owner' = "automation"
  BY DEF WaitEnds, fixed, record, log, Session!TakeBack, Session!GiveUp
<1>2. CASE Leaves("unwritable") /\ UNCHANGED <<shown, stretch, helped>>
  <2>1. Calm
    BY <1>1, <1>2 DEF Calm, stretch
  <2>2. Stopping' /\ Counting' /\ Showing' /\ Logging'
    BY <1>0, <1>1, <1>2 DEF Leaves, Stopping, Counting, Showing, Logging, Places
  <2>3. TypeOK'
    BY <1>0, <1>1, <2>1, <2>2, CalmType
  <2> QED
    BY <1>1, <1>2, <2>1, <2>3, CalmGoesOn DEF Leaves, Choosing, Onward
<1>3. CASE at' = "concluding" /\ UNCHANGED <<shown, stretch, helped, armed, result>>
  <2>1. Calm
    BY <1>1, <1>3 DEF Calm, stretch
  <2>2. Stopping' /\ Counting' /\ Showing' /\ Logging'
    BY <1>0, <1>1, <1>3 DEF Stopping, Counting, Showing, Logging, Places
  <2>3. TypeOK'
    BY <1>0, <1>1, <2>1, <2>2, CalmType
  <2> QED
    BY <1>1, <1>3, <2>1, <2>3, CalmGoesOn DEF Choosing, Onward
<1>4. CASE /\ Handed
           /\ \/ /\ at' = IF stop.goesOn THEN "turning" ELSE "concluding"
                 /\ IF late THEN UNCHANGED shown ELSE shown' \in Screens
              \/ ~late /\ at' = "failing" /\ UNCHANGED shown
           /\ UNCHANGED result
  <2>1. detector' = stuckDetector /\ lap' = <<>> /\ helped' = performed /\ armed' = TRUE
    BY <1>4 DEF Handed
  <2>2. /\ stuckDetector \in Detector /\ \A s \in Screens : stuckDetector.seen[s] = 0
        /\ stuckDetector.previous = NoScreen
    BY DEF stuckDetector, Detector
  <2>3. detector' \in Detector /\ lap' \in Seq(Screens)
    BY <2>1, <2>2
  <2>4. Stopping' /\ Counting' /\ Showing' /\ Logging'
    BY <1>0, <1>1, <1>4, <2>1 DEF Stopping, Counting, Showing, Logging, Places, TypeOK
  <2>5. TypeOK'
    BY <1>0, <1>1, <2>3, <2>4, TypeFromParts DEF TypeOK
  <2>6. \A s \in Screens : Times(s)' = 0
    <3>1. ASSUME NEW s \in Screens PROVE Times(s)' = 0
      <4>1. {i \in DOMAIN lap' : lap'[i] = s} = {}
        BY <2>1
      <4> QED
        BY <4>1, FS_EmptySet DEF Times
    <3> QED
      BY <3>1
  <2>7. Tally'
    BY <2>1, <2>2, <2>6 DEF Tally
  <2>8. Bounded'
    BY <1>0, <1>1, <2>1, <2>2, BoundsAreNumbers DEF Bounded
  <2>9. Answered'
    BY <1>1 DEF DInv, Answered
  <2>10. at' = "turning" => stop.goesOn
    BY <1>4
  <2>11. Paced' /\ Armed' /\ Quiet'
    BY <1>1, <1>4, <2>1, <2>8, <2>10 DEF DInv, Paced, Armed, Quiet, Onward, Choosing
  <2>12. Why'
    BY <1>1, <1>4 DEF DInv, Why
  <2> QED
    BY <2>5, <2>7, <2>9, <2>11, <2>12 DEF DInv
<1> QED
  BY <1>2, <1>3, <1>4 DEF WaitEnds

-----------------------------------------------------------------------------
LEMMA DInvInit ==
  ASSUME Init
  PROVE  DInv
<1>1. /\ stuckDetector \in Detector /\ \A s \in Screens : stuckDetector.seen[s] = 0
      /\ stuckDetector.previous = NoScreen
  BY DEF stuckDetector, Detector
<1>2. bounds \in StuckBounds
  BY DiscoveryAssumption DEF Init
<1>3. bounds.maxSteps \in Nat \ {0} /\ bounds.repeatsAllowed \in Nat \ {0}
  BY <1>2 DEF StuckBounds
<1>4. Stopping /\ Showing /\ Logging
  BY DEF Init, Session!OwnershipInit, Stopping, Showing, Logging, NoStop, Places
<1>5. Counting
  BY <1>3, DiscoveryAssumption DEF Init, Session!OwnershipInit, Counting, UNUSABLE_RESPONSES_ALLOWED
<1>6. TypeOK
  BY <1>1, <1>4, <1>5 DEF Init, TypeOK, Stopping, Showing, Logging, Counting
<1>7. \A s \in Screens : Times(s) = 0
  BY NoTimes DEF Init
<1>8. Tally /\ Bounded
  BY <1>1, <1>3, <1>7 DEF Init, Tally, Bounded
<1>9. Answered
  BY FS_EmptySet DEF Init, Answered, NoStop
<1>10. Paced /\ Armed /\ Quiet /\ Why
  BY <1>3, <1>8 DEF Init, Paced, Armed, Quiet, Why, UNUSABLE_RESPONSES_ALLOWED
<1> QED
  BY <1>6, <1>8, <1>9, <1>10 DEF DInv

LEMMA DInvStep ==
  ASSUME DInv, [Next]_vars
  PROVE  DInv'
BY PersonSteps, TurnsBegin, RunStops, SucceedsStep, MissesStep, ActsStep, WaitEndsStep
   DEF Next, Loop, Done

LEMMA DInvAlways == Spec => []DInv
<1>1. Init => DInv
  BY DInvInit
<1>2. DInv /\ [Next]_vars => DInv'
  BY DInvStep
<1> QED
  BY <1>1, <1>2, PTL DEF Spec

\* What the run, its detector, its record and the log hold has its type.
THEOREM DiscoveryTypeCorrect == Spec => []TypeOK
<1>1. DInv => TypeOK
  BY DEF DInv
<1> QED
  BY <1>1, DInvAlways, PTL

\* A run that says why it stopped tells the truth about the stretch since a person
\* last handed back, for any bounds and any number of screens.
THEOREM DiscoveryStopsForItsReason == Spec => []StopsForItsReason
<1>1. DInv => StopsForItsReason
  BY DEF DInv, Why, WentRound, NoEffect, StopsForItsReason
<1> QED
  BY <1>1, DInvAlways, PTL

\* A run that goes on is not going round and is not without effect.
THEOREM DiscoveryNoticesLoops == Spec => []NothingGoesUnnoticed
<1>1. DInv => NothingGoesUnnoticed
  <2>1. SUFFICES ASSUME DInv, at \in {"turning", "deciding"}
                 PROVE  /\ \A s \in Screens : Times(s) <= bounds.repeatsAllowed
                        /\ ~EndsAlike(bounds.ineffectiveAllowed + 1)
    BY DEF NothingGoesUnnoticed
  <2>2. Bounded /\ Tally /\ TypeOK
    BY <2>1 DEF DInv, Quiet, Choosing
  <2>3. \A s \in Screens : Times(s) <= bounds.repeatsAllowed
    BY <2>2 DEF Bounded, Tally
  <2>4. PICK n \in Nat \ {0} : n = bounds.ineffectiveAllowed
    BY <2>2, BoundsAreNumbers
  <2>5. lap \in Seq(Screens) /\ detector.ineffective \in Nat
    BY <2>2, CountersAreNumbers
  <2>6. CASE lap = <<>>
    <3>1. ~EndsAlike(n + 1)
      BY <2>6 DEF EndsAlike
    <3> QED
      BY <2>3, <2>4, <3>1
  <2>7. CASE lap # <<>>
    <3>1. PICK m \in Nat : m = detector.ineffective
      BY <2>5
    <3>2. m + 2 <= n + 1 /\ ~EndsAlike(m + 2)
      BY <2>2, <2>4, <2>7, <3>1 DEF Bounded, Tally
    <3>3. ~EndsAlike(n + 1)
      BY <2>5, <3>2, EndsAlikeInFewer
    <3> QED
      BY <2>3, <2>4, <3>3
  <2> QED
    BY <2>6, <2>7
<1> QED
  BY <1>1, DInvAlways, PTL

\* A claim of success rests on readings of the run that were recorded, whatever
\* names the model gave them.
THEOREM DiscoveryClaimsAreBacked == Spec => []ClaimIsBacked
<1>1. DInv => ClaimIsBacked
  <2>1. ASSUME DInv, stop.trigger = "reached", NEW name \in outputs
        PROVE  \E control \in Controls : <<name, control>> \in readings
    <3>1. name \in NamesRead /\ readings \subseteq Names \X Controls
      BY <2>1 DEF DInv, Answered, TypeOK
    <3>2. PICK reading \in readings : reading[1] = name
      BY <3>1 DEF NamesRead
    <3>3. reading = <<name, reading[2]>> /\ reading[2] \in Controls
      BY <3>1, <3>2
    <3> QED
      BY <3>2, <3>3
  <2> QED
    BY <2>1 DEF ClaimIsBacked, DInv, Answered
<1> QED
  BY <1>1, DInvAlways, PTL

\* The Surface has the deadline wherever an action may be chosen, so none begins
\* after it, whoever held the session in between.
THEOREM DiscoveryKeepsItsDeadline == Spec => NothingAfterTheDeadline
<1>1. ASSUME DInv, Next, landed' # landed PROVE ~late
  <2>1. at = "deciding" /\ InTime
    BY <1>1 DEF Next, Loop, Open, Turn, ModelIsLate, ModelFails, Corrected, Escalates, Succeeds, Misses,
       Acts, Stall, Fail, Conclude, Unwritable, WaitEnds, PersonMoves, TimePasses, Done, Decides, vars
  <2> QED
    BY <1>1, <2>1 DEF DInv, Armed, Choosing, InTime
<1>2. DInv /\ [Next]_vars => [landed' # landed => ~late]_vars
  BY <1>1
<1> QED
  BY <1>2, DInvAlways, PTL DEF Spec, NothingAfterTheDeadline

=============================================================================
