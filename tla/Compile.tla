------------------------------- MODULE Compile -------------------------------
(***************************************************************************)
(* From a discovery run to a stored capability: what the loop writes into  *)
(* the trajectory while a model drives the application, and the document   *)
(* the compiler makes of it or refuses to make.                            *)
(*                                                                         *)
(* A text is a sequence of words.  What a model proposes is any member of  *)
(* Proposals, in any order; whether the screen still holds the control it  *)
(* names is open.  An operator may once take the run over between two      *)
(* steps and leave something typed behind.                                 *)
(***************************************************************************)
EXTENDS Scrub

CONSTANTS
  Goal,          \* what the run is asked to do
  PublicTerms,   \* the words of it the caller declared public
  Lower,         \* the words that have capitals, and what they are without
  Entry,         \* [path, query]: where the application is opened
  Proposals,     \* the actions a model may propose
  Endings,       \* the [summary, description] it may end with
  Labels,        \* what each list on screen offers, by its region
  Reads,         \* what each cell reads
  TypedByHand,   \* the values an operator may type
  Absent, Refused,
  MaxTurns       \* how many proposals a run is given

ASSUME TurnsAssumption == MaxTurns \in Nat
ASSUME ListsAssumption ==
  \A p \in Proposals : /\ p.verb = "selectFromList" => p.target \in DOMAIN Labels
                       /\ p.verb = "extract" => p.target \in DOMAIN Reads
\* A value is of one of four origins, and a field is filled with something.
ASSUME ValuesAssumption ==
  \A p \in Proposals :
    /\ p.value = [kind |-> p.value.kind, name |-> p.value.name, literal |-> p.value.literal]
    /\ p.verb = "fill" => p.value.kind \in {"goalDerived", "constant", "uiDerived"}

\* What a run reads, is given and is told is written in words.
Texts ==
  {Entry.path, Entry.query} \cup TypedByHand
    \cup (UNION {{p.target, p.intent, p.value.literal} : p \in Proposals})
    \cup (UNION {{ending.summary, ending.description} : ending \in Endings})
    \cup (UNION {Range(Labels[region]) : region \in DOMAIN Labels})

ASSUME TextsAssumption ==
  /\ \A text \in Texts : text \in Seq(Range(text))
  /\ \A region \in DOMAIN Labels : Labels[region] \in Seq(Range(Labels[region]))

\* What a value is called once it is known, and that no name makes a placeholder
\* read as a quotation mark.
SecretLabels ==
  {"url", "operator", "goalTerm"}
    \cup {p.value.name : p \in {q \in Proposals : q.value.kind = "goalDerived"}}

ASSUME PlaceholdersAssumption ==
  \A label \in SecretLabels \cup {"overlapping-values"} :
    PlaceholderFor(label) \notin {Escaped, TwiceEscaped}

VARIABLES
  run,      \* the trajectory as it grows
  stored    \* what the compiler answered

compileVars == <<run, stored>>

-----------------------------------------------------------------------------
\* Words

Folded(text) == {IF word \in DOMAIN Lower THEN Lower[word] ELSE word : word \in Range(text)}

IsTokenSubsetOf(wanted, text) == wanted # <<>> /\ Folded(wanted) \subseteq Folded(text)

Includes(text, part) == \E at \in DOMAIN text : Occurs(part, text, at)

Secret(label, text) == [label |-> label, text |-> text]

\* A value is registered once under one label, and nothing of no length is.
Remember(secrets, label, text) ==
  IF text = <<>> \/ Secret(label, text) \in Range(secrets) THEN secrets
  ELSE Append(secrets, Secret(label, text))

\* A value that turns out to be public is registered no longer.
Declassify(secrets, secret) ==
  IF secret \notin Range(secrets) THEN secrets
  ELSE RemoveAt(secrets, CHOOSE i \in DOMAIN secrets : secrets[i] = secret)

-----------------------------------------------------------------------------
\* The trajectory

FirstSecrets == Remember(<<>>, "url", Entry.query)

Began ==
  [stage |-> "running", attempted |-> 0, steps |-> <<>>, readings |-> {}, parameters |-> <<>>,
   selections |-> <<>>, gaps |-> <<>>, secrets |-> FirstSecrets, summary |-> <<>>, outputs |-> {}]

CompileInit == run = Began /\ stored = Absent

StepId(p, ordinal) == IF p.verb = "extract" THEN p.bindAs ELSE p.verb \o "-" \o ToString(ordinal)

\* Whether the origin a value was tagged with can be its origin.
Mistagged(value) ==
  CASE value.kind = "goalDerived" -> ~IsTokenSubsetOf(value.literal, Goal)
    [] value.kind = "constant" -> IsTokenSubsetOf(value.literal, Goal)
    [] OTHER -> FALSE

Matched(p) ==
  SelectSeq(Labels[p.target], LAMBDA label : IsTokenSubsetOf(p.value.literal, label))

\* A selection is made by a word of the goal that one item on offer answers to.
Selectable(p) ==
  p.value.kind = "goalDerived" /\ ~Mistagged(p.value) /\ Len(Matched(p)) = 1

\* The one thing a run may find to be public: an account type the caller allowed.
PublicSelection(p) ==
  /\ p.verb = "selectFromList" /\ p.value.kind = "goalDerived" /\ p.value.name = "accountType"
  /\ p.value.literal \in {<<"savings">>, <<"checking">>}
  /\ Range(p.value.literal) \subseteq PublicTerms
  /\ Selectable(p)

\* What the run takes out of text from here on: a word of the goal is one
\* whatever it was tagged as, before anything is written about it.
SecretsKnowing(p) ==
  LET label == IF p.value.kind = "goalDerived" THEN p.value.name ELSE "goalTerm"
      fromGoal == IF p.value.kind = "goalDerived" THEN ~Mistagged(p.value) ELSE Mistagged(p.value)
  IN IF PublicSelection(p)
     THEN Declassify(Declassify(run.secrets, Secret("accountType", p.value.literal)),
                     Secret("goalTerm", p.value.literal))
     ELSE IF p.value.kind \in {"goalDerived", "constant"} /\ fromGoal
     THEN Remember(run.secrets, label, p.value.literal)
     ELSE run.secrets

Exempt(p) ==
  UNION ({Range(s.default) : s \in Range(run.selections)}
         \cup (IF p.verb = "selectFromList" /\ p.value.kind = "goalDerived"
               THEN {Range(p.value.literal)} ELSE {}))

\* Whether a text says a known value, what a selection chose by left aside.
\* A value that is exempt is one word.
QuotesAValue(secrets, exempt, text) ==
  LET remaining == SelectSeq(text, LAMBDA word : word \notin exempt)
  IN Scrubbed(secrets, remaining) # remaining

AlreadyRead(p) ==
  \E reading \in run.readings : reading.cell = p.target \/ reading.step = p.bindAs

Corrected(p) ==
  \/ Mistagged(p.value)
  \/ QuotesAValue(SecretsKnowing(p), Exempt(p), p.intent)
  \/ p.verb = "extract" /\ AlreadyRead(p)
  \/ p.verb = "selectFromList" /\ ~Selectable(p)
  \/ p.verb = "fill" /\ p.value.kind = "uiDerived"

\* A name has the literal it was first used for.
ParametersKnowing(p, id) ==
  LET used == {i \in DOMAIN run.parameters : run.parameters[i].name = p.value.name}
  IN IF p.value.kind # "goalDerived" THEN run.parameters
     ELSE IF used = {}
     THEN Append(run.parameters,
                 [name |-> p.value.name, literal |-> p.value.literal, usedBy |-> <<id>>])
     ELSE [i \in DOMAIN run.parameters |->
             IF i \in used THEN [run.parameters[i] EXCEPT !.usedBy = Append(@, id)]
             ELSE run.parameters[i]]

Selection(p) ==
  [parameter |-> p.value.name, values |-> Labels[p.target], default |-> p.value.literal,
   matched |-> Matched(p)[1], public |-> PublicSelection(p)]

\* What is recorded of a step has the values known by then taken out of it, its
\* Target and its fixed text included; `did` is what was really done.
Recorded(p, id, secrets) ==
  [id |-> id, verb |-> p.verb, intent |-> p.intent,
   target |-> Scrubbed(secrets, p.target),
   value |-> IF p.value.kind = "constant"
             THEN [p.value EXCEPT !.literal = Scrubbed(secrets, @)] ELSE p.value,
   rationale |-> Scrubbed(secrets, p.target),
   did |-> [target |-> p.target, literal |-> p.value.literal]]

Performed(p) ==
  LET id == StepId(p, run.attempted + 1)
      secrets == SecretsKnowing(p)
  IN [run EXCEPT
        !.attempted = @ + 1,
        !.secrets = secrets,
        !.readings = IF p.verb = "extract" THEN @ \cup {[step |-> id, cell |-> p.target]} ELSE @,
        !.parameters = ParametersKnowing(p, id),
        !.selections = IF p.verb = "selectFromList" THEN Append(@, Selection(p)) ELSE @,
        !.steps = Append(@, Recorded(p, id, secrets))]

\* A turn that changed nothing on the screen: corrected, denied, or not there.
Unperformed(p) == [run EXCEPT !.attempted = @ + 1, !.secrets = SecretsKnowing(p)]

Turn(p) ==
  /\ run.stage = "running" /\ run.attempted < MaxTurns
  /\ \/ run' = Unperformed(p)
     \/ ~Corrected(p) /\ run' = Performed(p)
  /\ UNCHANGED stored

\* An operator has the application between two steps, once in a run, and what
\* they typed is registered.
Handed(typed) ==
  /\ run.stage = "running" /\ run.gaps = <<>>
  /\ run' = [run EXCEPT
       !.gaps = <<[after |-> IF run.steps = <<>> THEN "open" ELSE Last(run.steps).id,
                   at |-> Len(run.steps)]>>,
       !.secrets = Remember(@, "operator", typed)]
  /\ UNCHANGED stored

Said(ending) == {ending.summary, ending.description}

\* Nothing the model says of the finished run may quote a value or a reading.
Succeed(ending, reading) ==
  /\ run.stage = "running"
  /\ \A text \in Said(ending) :
       /\ ~QuotesAValue(run.secrets, UNION {Range(s.default) : s \in Range(run.selections)}, text)
       /\ \A r \in run.readings : ~Includes(text, Reads[r.cell])
  /\ run' = [run EXCEPT !.stage = "reached", !.summary = ending.summary,
               !.outputs = {[from |-> reading.step, description |-> ending.description]}]
  /\ UNCHANGED stored

Stop ==
  /\ run.stage = "running" /\ run.attempted = MaxTurns
  /\ run' = [run EXCEPT !.stage = "stuck"]
  /\ UNCHANGED stored

-----------------------------------------------------------------------------
\* The document

Constant(text) == [from |-> "constant", text |-> text, name |-> Absent]
Parameter(name) == [from |-> "parameter", text |-> <<>>, name |-> name]
NoValue == [from |-> "nothing", text |-> <<>>, name |-> Absent]

ValueRef(value) ==
  CASE value.kind = "goalDerived" -> Parameter(value.name)
    [] value.kind = "constant" -> Constant(value.literal)
    [] OTHER -> NoValue

Assertion(kind, text, value, step) ==
  [assert |-> kind, text |-> text, value |-> value, step |-> step]

\* What a step needing to work proves of the one before it.
ObservableOf(step) ==
  CASE step.verb \in {"click", "fill", "extract"} ->
         {Assertion("targetPresent", step.target, NoValue, Absent)}
    [] step.verb = "selectFromList" -> {Assertion("textPresent", step.target, NoValue, Absent)}
    [] OTHER -> {}

Following(i) == IF i < Len(run.steps) THEN ObservableOf(run.steps[i + 1]) ELSE {}

Expected(i) ==
  LET step == run.steps[i]
  IN CASE step.verb = "extract" -> {Assertion("stepRead", <<>>, NoValue, step.id)}
       [] step.verb = "fill" ->
            {Assertion("targetReads", step.target, ValueRef(step.value), Absent)}
       [] OTHER -> Following(i)

EntryParameter ==
  IF Entry.query = <<>> THEN Absent
  ELSE CHOOSE name \in {"entryPath", "entryPath_"} :
         /\ name \notin {p.name : p \in Range(run.parameters)}
         /\ name = "entryPath_" => "entryPath" \in {p.name : p \in Range(run.parameters)}

Opening ==
  [id |-> "open", type |-> "navigate", intent |-> <<>>, target |-> <<>>, rationale |-> <<>>,
   value |-> IF Entry.query = <<>> THEN Constant(Entry.path) ELSE Parameter(EntryParameter),
   expect |-> Following(0)]

StepFor(i) ==
  [id |-> run.steps[i].id, type |-> run.steps[i].verb, intent |-> run.steps[i].intent,
   target |-> run.steps[i].target, rationale |-> run.steps[i].rationale,
   value |-> IF run.steps[i].verb = "navigate" THEN Constant(run.steps[i].target)
             ELSE ValueRef(run.steps[i].value),
   expect |-> Expected(i)]

Straight == <<Opening>> \o [i \in DOMAIN run.steps |-> StepFor(i)]

\* Where the compiler finds the step a gap is said to come after.
StepBefore(gap) == Min({k \in DOMAIN Straight : Straight[k].id = gap.after})

\* After a gap the checkpoint is what the next step needs, and what was read.
Steps ==
  LET gapped == {StepBefore(gap) : gap \in Range(run.gaps)}
  IN [k \in DOMAIN Straight |->
        IF k \notin gapped THEN Straight[k]
        ELSE [Straight[k] EXCEPT
                !.expect = {a \in @ : a.assert = "stepRead"} \cup Following(k - 1)]]

StringInput == [type |-> "string", sensitive |-> TRUE, values |-> <<>>, default |-> <<>>]

\* A fault: the default is the label on this institution's screen.
EnumInput_OfTheLabel(selection) ==
  [type |-> "enum", sensitive |-> ~selection.public, values |-> selection.values,
   default |-> selection.matched]

\* The default is the goal's own word for the item.
EnumInput(selection) ==
  [type |-> "enum", sensitive |-> ~selection.public, values |-> selection.values,
   default |-> selection.default]

\* The last selection made under a name declares it.
InputFor(name) ==
  LET made == {i \in DOMAIN run.selections : run.selections[i].parameter = name}
  IN IF made = {} THEN StringInput ELSE EnumInput(run.selections[Max(made)])

Inputs ==
  [name \in {p.name : p \in Range(run.parameters)} \cup ({EntryParameter} \ {Absent}) |->
     InputFor(name)]

Document ==
  [entry |-> Entry.path, summary |-> run.summary, inputs |-> Inputs, outputs |-> run.outputs,
   requiresHuman |-> {gap.after : gap \in Range(run.gaps)}, steps |-> Steps]

-----------------------------------------------------------------------------
\* What is refused

\* A step nothing confirms, a gap nothing follows, no answer.
Unconfirmed ==
  \/ Following(0) = {}
  \/ \E i \in DOMAIN run.steps : Expected(i) = {}
  \/ \E gap \in Range(run.gaps) : Following(StepBefore(gap) - 1) = {}
  \/ run.outputs = {}

\* A fault: one id may name two steps.
UsedTwice_Allowed(doc) == FALSE

UsedTwice(doc) ==
  \E j, k \in DOMAIN doc.steps : j # k /\ doc.steps[j].id = doc.steps[k].id

Values(doc) ==
  {step.value : step \in Range(doc.steps)}
    \cup UNION {{a.value : a \in step.expect} : step \in Range(doc.steps)}

ReadBy(doc, k) == {doc.steps[j].id : j \in {j \in 1..k : doc.steps[j].type = "extract"}}

Unparsable(doc) ==
  \/ UsedTwice(doc)
  \/ \E value \in Values(doc) : value.from = "parameter" /\ value.name \notin DOMAIN doc.inputs
  \/ \E k \in DOMAIN doc.steps : \E a \in doc.steps[k].expect :
       a.assert = "stepRead" /\ a.step \notin ReadBy(doc, k)
  \/ \E output \in doc.outputs : output.from \notin ReadBy(doc, Len(doc.steps))
  \/ ~(doc.requiresHuman \subseteq {step.id : step \in Range(doc.steps)})
  \/ \E name \in DOMAIN doc.inputs : doc.inputs[name].type = "enum" /\ doc.inputs[name].values = <<>>

FixedLiterals(doc) ==
  {value.text : value \in {v \in Values(doc) : v.from = "constant"}}
    \cup UNION {{a.text : a \in {b \in step.expect : b.assert = "textPresent"}} :
                  step \in Range(doc.steps)}

\* The words a document finds its controls by, and the lists it accepts.
Matching(doc) ==
  {step.target : step \in Range(doc.steps)}
    \cup (UNION {{a.text : a \in step.expect} : step \in Range(doc.steps)})
    \cup (UNION {Range(doc.inputs[name].values) : name \in DOMAIN doc.inputs})
    \cup {doc.entry}

Prose(doc) ==
  {doc.summary} \cup {output.description : output \in doc.outputs}
    \cup {step.intent : step \in Range(doc.steps)} \cup {step.rationale : step \in Range(doc.steps)}

Names(doc) ==
  {<<step.id>> : step \in Range(doc.steps)} \cup {<<name>> : name \in DOMAIN doc.inputs}
    \cup {doc.inputs[name].default : name \in DOMAIN doc.inputs}

DocumentText(doc) == FixedLiterals(doc) \cup Matching(doc) \cup Prose(doc) \cup Names(doc)

GoalEchoes(doc) == \E text \in FixedLiterals(doc) : IsTokenSubsetOf(text, Goal)

LiteralsTyped == {p.literal : p \in Range(run.parameters)}

TypedValuesInFixedText(doc) ==
  \E text \in FixedLiterals(doc) \cup Matching(doc), literal \in LiteralsTyped :
    Includes(text, literal)

ValuesInText(doc) ==
  \E p \in Range(run.parameters), text \in DocumentText(doc) :
    p.name \notin {s.parameter : s \in Range(run.selections)} /\ Includes(text, p.literal)

PrivateWords == Folded(Goal) \ PublicTerms

\* A fault: only what the document is run by is looked at.
ContainsPrivateGoalData_WhatRuns(doc) ==
  \E text \in FixedLiterals(doc) \cup Matching(doc) : Folded(text) \cap PrivateWords # {}

ContainsPrivateGoalData(doc) ==
  \E text \in DocumentText(doc) : Folded(text) \cap PrivateWords # {}

CarriesSensitiveText(doc) ==
  \E text \in DocumentText(doc) : Scrubbed(run.secrets, text) # text

Gated(doc) ==
  \/ CarriesSensitiveText(doc) \/ GoalEchoes(doc) \/ TypedValuesInFixedText(doc)
  \/ ValuesInText(doc) \/ ContainsPrivateGoalData(doc)

Compiled ==
  IF run.stage # "reached" \/ run.steps = <<>> \/ Unconfirmed THEN Refused
  ELSE IF Unparsable(Document) \/ Gated(Document) THEN Refused
  ELSE Document

CompileArtifact ==
  /\ run.stage \in {"reached", "stuck"} /\ stored = Absent
  /\ stored' = Compiled
  /\ UNCHANGED run

CompileNext ==
  \/ \E p \in Proposals : Turn(p)
  \/ \E typed \in TypedByHand : Handed(typed)
  \/ \E ending \in Endings, reading \in run.readings : Succeed(ending, reading)
  \/ Stop
  \/ CompileArtifact

CompileSpec == CompileInit /\ [][CompileNext]_compileVars

-----------------------------------------------------------------------------
Stored == stored \notin {Absent, Refused}

\* The run and what is made of it have their types.
CompileTypeOK ==
  /\ run.stage \in {"running", "reached", "stuck"} /\ run.attempted \in 0..MaxTurns
  /\ Len(run.steps) <= run.attempted
  /\ \A reading \in run.readings : reading.cell \in DOMAIN Reads
  /\ stored # Absent => run.stage # "running"

\* What stands where a value was.
Placeholders == {PlaceholderFor(secret.label) : secret \in Range(run.secrets)}

\* Nothing of the run is stored, in what the document is run by or in what a
\* reviewer reads: no word of the goal the caller did not make public, no value
\* the run learned to take out, and no fixed text that is only words of the goal
\* (compile.ts, the three gates).  A value that itself says a placeholder reads
\* as one that was taken out.
NothingOfTheRunIsStored ==
  Stored =>
    /\ \A text \in DocumentText(stored) :
         /\ Folded(text) \cap PrivateWords = {}
         /\ \A secret \in Range(run.secrets) :
              Range(secret.text) \cap Placeholders = {} => ~Includes(text, secret.text)
    /\ \A text \in FixedLiterals(stored) : ~IsTokenSubsetOf(text, Goal)
    /\ \A name \in DOMAIN stored.inputs :
         ~stored.inputs[name].sensitive =>
           \E s \in Range(run.selections) : s.public /\ s.parameter = name

\* A checkpoint says what the run saw once its step had landed: the reading of
\* that step, the field it filled, or what the next step went on to act on.
\* Where an operator came in between it is the next step that has the last word
\* (compile.ts, stepFor and humanDependencies).
CheckpointsSpeakOfWhatFollows ==
  Stored =>
    \A i \in 0..Len(run.steps) :
      LET gapped == \E gap \in Range(run.gaps) : gap.at = i
          said(a) == CASE a.assert = "stepRead" -> i > 0 /\ run.steps[i].verb = "extract"
                                                   /\ a.step = run.steps[i].id
                       [] a.assert = "targetReads" -> i > 0 /\ run.steps[i].verb = "fill" /\ ~gapped
                                                      /\ a.text = run.steps[i].target
                       [] OTHER -> i < Len(run.steps) /\ a.text = run.steps[i + 1].target
      IN /\ stored.steps[i + 1].expect # {}
         /\ \A a \in stored.steps[i + 1].expect : said(a)
         /\ gapped => \E a \in stored.steps[i + 1].expect :
                        a.assert \in {"targetPresent", "textPresent"}

\* What a value of the document is when the run's own values are supplied, and a
\* choice is left to its default.
Supplied(value) ==
  CASE value.from = "constant" -> value.text
    [] value.from = "parameter" /\ stored.inputs[value.name].type = "enum" ->
         stored.inputs[value.name].default
    [] value.from = "parameter" /\ stored.inputs[value.name].type # "enum" ->
         (CHOOSE p \in Range(run.parameters) : p.name = value.name).literal
    [] OTHER -> <<>>

DoesWhatWasDone(i) ==
  LET done == run.steps[i].did
      step == stored.steps[i + 1]
  IN /\ step.target = done.target
     /\ step.type \in {"fill", "selectFromList"} => Supplied(step.value) = done.literal

\* The steps of the document, given the values of the run, are what the run did
\* (compile.ts: every step is an action that run took).
StepsAreWhatTheRunDid == Stored => \A i \in DOMAIN run.steps : DoesWhatWasDone(i)

\* A name that was used for two values, and a Target with a known value in it.
TwoMeanings(name) ==
  \E i, j \in DOMAIN run.steps :
    /\ run.steps[i].value.kind = "goalDerived" /\ run.steps[i].value.name = name
    /\ run.steps[j].value = [run.steps[i].value EXCEPT !.literal = run.steps[j].did.literal]
    /\ run.steps[i].did.literal # run.steps[j].did.literal

TakenOutOf(step) ==
  step.target # step.did.target
    \/ (step.value.kind = "constant" /\ step.value.literal # step.did.literal)

\* Of every step whose name has one meaning and nothing was taken out of: it does
\* what was done, a selection by the goal's own word and not the label it met.
PlainStepsAreWhatTheRunDid ==
  Stored =>
    \A i \in DOMAIN run.steps :
      DoesWhatWasDone(i) \/ TakenOutOf(run.steps[i])
        \/ (run.steps[i].value.kind = "goalDerived" /\ TwoMeanings(run.steps[i].value.name))

=============================================================================
