# Verification of the capability runner

TLA+ specifications, TLC configurations and TLAPS proofs for this repository: a
program that discovers how to do a task in a web application with an agent,
compiles what it did into an artifact (a *Capability*), replays it without one,
and hands its browser session to a person when it cannot go on. Paths below are
relative to the repository root.

## 1. The system

Everything runs on one JavaScript thread, as Effect fibers: between two
suspension points (a browser round trip, a wait, a model's reply) nothing else
runs. There is one run per process and one browser session per run. A person
works through a small web server in the same process, so what interleaves with
a run is: the requests of that server, the fiber that watches the screen while
the run is parked, the clock, the live page, and, on disk, other runs.

| Component | State it keeps | Operations | Talks to | What is hard | What makes it correct |
|---|---|---|---|---|---|
| Session control and hand-off (`packages/session`: Handoff, Intervention, Session, Watching) | owner, pending episode and its Deferred, closed records, the watched screen | `claim`, `pause`, `takeControl`, `noteAction`, `returnControl`, attach, detach | called by the engines and by the operator server; writes Evidence; looks at the Surface | requests that suspend in a look while the wait expires; transitions whose event cannot be written; a person who never comes | automation acts only while it owns the session; a run goes on only on a recorded answer; records and log agree; what a person typed is registered before it is quoted |
| Operator interface (`apps/operator`) | the URL it serves, a token | pages, take, note, return | session control | requests in any order, several at a time | no request does what ownership forbids |
| Replay engine (`packages/replay`: engine, recovery) | steps recorded, readings, two budgets | one run over the steps: act, verify, recover, consult, hand over, collect, finalise | Surface, Policy, Evidence, Session, advisor | a ladder of fallbacks with repeats inside; two hand-offs per step; a log that breaks at any point | success is earned step by step; nothing risky is repeated without an argument; budgets hold; result and log agree; the run ends |
| Assist, selection, diagnostics (`packages/replay`) | one consultation per run | `consultAssist`, `chooseItem` | advisor, Policy, Evidence | a closed list built from an artifact that learns | an advisor never answers with a code ruled to need a person |
| Checkpoints (`packages/replay/checkpoint.ts`) | none | poll the screen for the intended state or a declared outcome | Surface, Policy | time, order of the two questions | intended state first, then outcomes, then the clock |
| Discovery loop (`packages/agent`: loop, Stuck) | turns, stall counters, deadline, messages | one agent turn after another, one hand-off, finish | model, Surface, Policy, Session | deadlines and hand-offs, stall detection | it ends; it stops for the reason it says; the agent's claim is checked |
| Trajectory compiler (`packages/agent`: compile, Trajectory, Provenance) | the trajectory the loop records | turns, hand-offs and readings to steps, inputs, checkpoints; gates on what may be stored | discovery loop, artifact store, scrubber | names, ids and values that meet; gates that each see a part | a step does what was done, a checkpoint speaks of what follows, nothing of the run is stored |
| Learning and amendment (`session/Learning.ts`, `artifact/Amendment.ts`, `replay/amend.ts`) | versions of an artifact | classify an episode, declare what it taught | artifact store | answers in any order; two runs at one version | what is learned only gets stricter, whatever the order |
| Artifact store and overrides (`artifact/store.ts`, `Override.ts`) | files, one per version and per tenant | load, write, override | file system | read-modify-write by several runs | no version is lost or replaced |
| Artifact documents (`artifact/parse.ts`, `yaml.ts`, schemas) | none | parse, print, compare | | | parse and print agree |
| Policy (`packages/policy`) | the policy a run loaded | load, decide on an action, an origin, a consultation, an artifact's repeats | every engine, Surface | precedence of rules; addresses that only look listed; a list that is empty or not there | what is allowed is written down, and taking a line away allows nothing |
| Surface (`packages/surface/PlaywrightSurface.ts`) | the page, a boundary latch, the frames that load, a deadline | observe, resolve, act, wait, capture, each a row of attempts | browser, Policy, engines | a page that moves by itself between two awaits; late answers; a refusal seen by any frame | nothing is done on an unlisted page, no load that was announced is left arriving, every call answers |
| Target resolution (`surface/resolution.ts`) | none | which element a target names; what a report advises | Surface, engines, a model that reads reports | rungs that narrow one after another; advice that leads back | one element or none, nothing guessed, advice that gets further |
| Evidence (`packages/evidence`) | a log, what was written, values to take out | open, record, redact, declassify, attach | file system, everything | an append that fails after its number was taken; two processes on one run id; values that overlap | a log is one session's and agrees with its answers; no known value is in it |
| Command line (`apps/cli`) | | replay, discover, compile | everything | order of load, run, amend, write | |
| Demonstration bank and driver (`apps/banking`, `apps/demo`) | members, conditions that clear | HTTP routes | the browser | | |

`PROJECT.json` lists the same components with what is modelled of each, and
under `hazards` the places where a test would hardly reach.

## 2. Modules

| Module | What it is |
|---|---|
| `ControlOwnership` | What a session promises about who may act: the four owner states of `Session.ts`, the arrows between them, and what the run is told. The abstract specification. |
| `Handoff` | `Handoff.ts` with `Watching.ts`, the intervention records and events, the operator's requests and the person at the browser. Implements `ControlOwnership`. |
| `HandoffProofs` | The inductive invariant of `Handoff` and the theorems. |
| `Replay` | `engine.ts`, `recovery.ts`, `consultAssist` and `unsafeRepeats`: one run of a Capability, composed with the `ControlOwnership` actions for its pauses. |
| `ReplayProofs` | The inductive invariant of `Replay` and the theorems. |
| `Discovery` | `loop.ts` with the detector of `Stuck.ts`: one run of the agent, composed with the `ControlOwnership` actions for its one pause. |
| `DiscoveryProofs` | The inductive invariant of `Discovery` and the theorems. |
| `Ratchet` | What a Capability promises about the lessons it takes on: what is known only tightens. The abstract specification. |
| `ArtifactStore` | `Learning.ts`, `Amendment.ts`, `amend.ts`, `Override.ts`, `override.ts` and `store.ts` in the order of `apps/cli/src/replay.ts`: several processes, the versions of a Capability and a tenant's override. Implements `Ratchet`. |
| `StoreProofs` | The inductive invariants of `ArtifactStore` and the theorems: what holds whatever `--amendTo` is given, then the line of versions, and that `ArtifactStore` implements `Ratchet`. |
| `Origins` | `origins.ts`: what a line of the allowlist covers. Shared by `Policy` and `Surface`. |
| `Policy` | `PolicyDocument.ts`, `decide.ts` and the vocabulary of `Policy.ts`: a policy file that is edited a line at a time, loaded, and asked. |
| `Surface` | `PlaywrightSurface.ts`: the adapter's operations an attempt at a time, with the page, the servers, Chromium's loading events and the clock around it. |
| `SurfaceProofs` | The inductive invariant of `Surface` and the theorems. |
| `Resolution` | `resolution.ts` and `selection.ts`: from the accessibility tree and a Target to one node, or to a report that says what to try instead; and a reader who tries it. |
| `ResolutionProofs` | What `Resolution`'s operators do on trees of any size, its inductive invariant and the theorems. |
| `Scrub` | `Scrub.ts`: taking known values out of text, in every spelling and inside quotations. Shared by `Evidence` and `Compile`. |
| `Evidence` | `EvidenceWriter.ts`: writers, their logs, and the values they learn and drop. |
| `EvidenceProofs` | The inductive invariant of `Evidence` and the theorems. |
| `Compile` | What `loop.ts` records of a run, and `compile.ts`, `Trajectory.ts`, `Provenance.ts`: the document made of it, and what is refused. |
| `GateProofs` | The two gates: what a loaded policy allows is what its file writes down, and a stored document is faithful to its run and has nothing of it that must not be kept. The invariants and theorems of `Policy` and `Compile`, and the lemmas about `Scrub` they rest on. |
| `MCHandoff`, `MCReplay`, `MCDiscovery`, `MCArtifactStore`, `MCPolicy`, `MCSurface`, `MCResolution`, `MCEvidence`, `MCCompile` | Instances for TLC. |

The composition follows the code's own interface: an engine knows of the
session only what `pause` answers and who owns it, which is what
`ControlOwnership` keeps; `Handoff` is proved to implement it, so what `Replay`
and `Discovery` assume of a session is what `Handoff` gives. `ArtifactStore`
starts where a run ends: of the run it keeps the interventions it closed, records
of the kind `Handoff` closes.

### Handoff

State: `owner`, `attached`, `pending`, `answered`, `raised`, `resolved` are the
fields of `State` (`answered`: the pending Deferred is complete); `screen` is
the Ref of that name; `needles` what `Evidence.redact` was given; `log` the
intervention events on disk. `engine` is where the run is (running, in the
first look of `pause`, parked, waking), `looking` the looks at the screen that
are in flight, for the watcher and for each request; `page` and `typed` are the
live browser and the person.

One action is the code between two suspension points. With the synchronous
writer that ships, a transition, its event and the rollback of an event that
could not be written are one step (`Transition`). `pause` is `Raise`,
`Baseline`, then `Wake` or `Expire`, then `Settle`; a note or a return is
`Submit` (up to its look) and `Answer` (from the browser's reply on); the
watching fiber is `WatcherLooks` and `WatcherSees`. Any event may fail to be
written, any look may answer late, the clock may run out in any state of the
wait, and operator requests come in any order, also stale ones.

Left out: names, dates and wording; the two *next time* answers, which only
matter after the run (`ArtifactStore`); `intervention.observed`, an event whose failure the code ignores.
A call refused before it touches the state is a stuttering step.

### Replay

The engine is one fiber, so each rung of the ladder is one action. The state is
that of the closure in `replayCapability`: `steps` (here `records`),
`readings`, `budget`, `assistBudget`; `ladder` is what `runStep` and
`performOrHandOff` keep in local variables of the step in hand; `outcome` and
`ended` are the two events of the log that a result must agree with. What the
screen shows, what policy says, what the advisor replies and whether the log
can be written are choices of the environment; a screen is kept only as the
verdict it gives, a value read as a member of `Values`. Counters `landed`,
`remedied`, `tried` and `consulted` are history: nothing reads them but
properties.

Between pauses `Start`, `Observe`, `Lands`/`Answered`/`Blocked`
(`attemptAction`), `Verify` (`verifyCheckpoint`), `Recover` and `Remedy`
(`attemptRecovery`, one attempt of `recover` at a time), `Consult`
(`attemptAssist`), `HandOver`, `WaitEnds` and `Returned` (`handOff`,
`performOrHandOff`), `ReportAnswer`, `Collect`, `Finalise`; `Breaks` is every
failure that ends the run where it stands, by the reasons possible there.
`requiresHuman` codes, `unsafeRepeats` and the closed list of codes an advisor
may propose are computed as the code does.

Simplifications: a `fill` is a `press` (both risky, both bound to a target); the
code a list names is one per capability; a suggestion of a control
(`TargetSuggested`) goes to the person like a refusal; remedies are counted as a
whole.

### Discovery

The loop is one fiber and a turn two actions: `Turn`, up to the screen the model
decides from, and then one action for each way its reply may turn out:
`ModelIsLate`, `ModelFails`, `Corrected` (every refusal that only costs the
turn), `Escalates`, `Succeeds`, `Misses` (a target or a Surface that failed) and
`Acts`. A proposal is what becomes of it, a screen its signature. `Stall`,
`WaitEnds` and `Handed` are `pauseFor`, `Fail` the error handlers around the
loop, `Conclude` is `finish`, `Unwritable` a log that breaks. The state is that
of the closure in `discover`: `attempted`, `unusable`, `detector` (the map `seen`,
`previous` and the two counts), `readings` (with `readAt`), `outputs`,
`interventions`, and of the Surface only whether it has the deadline (`armed`);
`late` says that the instant has passed. `lap` and `landed` are history.

Left out: prompts, prose that quotes a value and the registration of secrets
(data, each refusal is a `Corrected`), parameters and selections, screenshots
(their failure is ignored). A step is not identified: `stepIdFor` says an id
cannot collide, which holds only if no `bindAs` reads like `click-3`.

### ArtifactStore

Every process runs `replay <capability>` over and over. `files` are the version
files, `override` is the one file of a tenant, `run` what each process holds:
the base document and the override it loaded at its start, the episodes its run
closed, and what it is about to write. An action is what a process does between
two accesses to the file system that another could come between: `Load`
(`loadArtifact`, `loadOverride`, `applyOverride`), `Ends` (the run), then for each
episode `Amend` (`classify`, `proposeAmendment`, `existsSync`, the read-back),
`Create` and `Fill` (the two halves of `writeFileSync` with `wx`), and, for a run
with `--tenant`, `Confirm` and `Rewrite` (the same of `writeOverride`, whose open
empties the file). `Crash` also stands for `--noAmend`: nothing more is written.
A write may fail before it made the file and after; what is then there does not
parse (`Torn`). `OutcomeCodes` are the words of the pattern every code in a document has;
`formatArtifact` throws on a proposal with another, which ends the process in `Amend`.

A document is what lessons and tenants can change of it: the names its steps ask
for, which selections have an answer for no match, the answers of each
checkpoint, the declared outcomes, the stops for a person, with the episode each
came from. A record is what `classify` and the declarations read of it; `quotes`
stands for what `carriesSensitiveText` finds. What may be refused is a set of at
most one document. Versions are their minor numbers.

Left out: that a confirmed text is on the screen, and other refusals that depend
only on data; `baseVersion` of an override, which no code reads; other tenants and
capabilities, which have files of their own. When two processes write one
override file at once, what is left is one of the two or does not parse; that the
texts could agree beyond the shorter one is ignored.

### Policy

`file` is the policy on disk, `policy` what the latest run made of it. A reviewer
changes one line at a time (`AddAction`, `StrikeOrigin`, `ChangeMode`, ...) and
`LoadPolicy` is a run that begins: `loadPolicy`, `compilePolicy` and everything the
two refuse (`Loads`). `Decide` and `DecideAssist` are `decide` and `decideAssist`,
asked in the code's order with the rule that answered. A URL is what the URL parser
made of a text; a written reason is its length once trimmed.

### Surface

`doc` and `nav` are the page: what each of two frames shows, and the navigation each
is making, with who began it. `events` is what Chromium has said of loading and the
adapter has not heard, `loading` the Set `loadingFrames`, `boundary` the variable of
that name, `deadline` and `timer` the two clocks. `call` is the operation in
progress: `Program` gives the attempts each is made of, `call.at` the one it is at.

An action of the adapter is what it does between two awaits: `Refrain`,
`CheckFrames`, `AuthorizeDestination`, `Decide`, `Satisfied` are done at once;
`Begin` asks the browser, `Finish` and `GiveUp` are its answers; an input `Land`s,
waits for what was said until then (`Drained`), and for the loads to end (`Settled`,
`Unsettled`). `Keep` and `Fail` are the two ends of `attempt`. Around it the page
navigates, opens a child and asks for things (`PageNavigates`, `PageOpensChild`,
`PageRequests`), at any point where the adapter is waiting.

A navigation goes from `asked` to `sent` in two steps, because `context.route` awaits
`watchFrame` between them: it is checked (`Intercept`), and is then let through without
another look (`LetThrough`) or refused because its frame cannot be watched
(`CannotWatch`). A refusal that is latched in between does not stop it, unless the
frame's own session sees the request too and sees it later; the model allows both. A
redirect (`Redirect`) is checked and let through in one step, by that session
(`Follow`), and the document comes last (`Commit`).

An input that lands may have Chromium announce a load before the input is answered, or
leave one to come (`due`), which a frame may start at any later time (`InputNavigates`):
`surface-origin-boundary.test.ts:135` waits for just that. An input that was given up
may have reached its control too.

Of the browser it is assumed that a reply to `getFrameTree` comes after the events
said before it; that a frame which begins another load before it finished the first
stops loading once; that an input starts at most one load later; that an input that
timed out does not land later; and that a
reference into a document that was replaced resolves to nothing. Left out: other
pages the context opens, whose requests are routed like a picture's, what a target
resolves to (`Resolution`; here a frame of the snapshot), what an operation returns, and
more than one child frame.

### Resolution

`index` is the snapshot (`indexTree`), a forest in document order; a text is the
sequence of its words. A reader asks for a Target (`Ask`: `resolveTargetIn`), or
chooses an item of a list (`Choose`: `chooseItem`, whose `remedy` is the Target the
engine presses), and may then `Follow` any Target the report tells it to try: the
same code on the same screen. `ScopeOf`, `NarrowByText`, `Nearest`, `HeadingOf`,
`LabelOf`, and the remedies are the functions of those names.

Left out: how many regions and roles a report lists, its wording, and the parsing of
the text Playwright prints.

### Evidence

`made` is the set of run directories, `log` the `events.jsonl` of each, `writer` what
each process holds: its sequence number, what it has written, the values its scrubber
knows, the filter for diagnostics, and what callers were told (`recorded`,
`refused`). `Open`, `Record`, `Redact`, `Declassify` and `ProtectDiagnostics` are the
operations. A file is the sequence of the pieces appended to it: a failed append may leave
nothing, part of the text, the text without its newline or all of it, and the next piece
goes where the file then ends. `Readable` is what somebody finds who splits the file at
its newlines. `ScrubText` is the
scrubber of `Scrub.ts` proper: spellings, longest first, spans against the original
text, quotations read, scrubbed and written again, crossing spans merged. The loops are
written as what they arrive at: `Chosen` is what a search that takes one occurrence
after another and bars those that cross it has taken (`:119`), `Merged` cuts the text
where no span goes across (`:149`), `Replaced` reads it from left to right (`:162`).

Left out: attachments and captures, and the fields of the several kinds of event: an
event is a text that quotes something. A value does not begin with a quotation mark.

### Compile

`run` is the trajectory as `loop.ts` builds it, `stored` the compiler's answer. A
`Turn` is one proposal, corrected, not performed, or performed and recorded with
the values known by then taken out; `Handed` is an operator who takes over once;
`Succeed` the gates on what the model says of the finished run. `CompileArtifact` is
`compile.ts`: parameters, inputs, checkpoints, gaps, what does not parse (the part of
`referentialProblems` a compiled document can break) and the gates on goal data and
known values. A text is a sequence of words, a screen value a constant of the instance.
What is known of a run is registered once, so `Declassify` has one place to take it from.

Left out: the input types beside text and enum, `Vocabulary.ts`, the wording of
intents, the rewriting of prose after the gates, and navigations whose address is
refused for its query. A value a selection leaves out of the gates is one word.

## 3. Runs

| Run | Question | Bounds |
|---|---|---|
| `handoff` | Do records, log and scrubber stay consistent over two episodes, and does a run go on only on record? | 1 secret, 1 request in flight, 2 episodes |
| `handoff_overlap` | With two requests in flight: does the session implement `ControlOwnership`, does the wait end, does a recorded return resume? | 1 secret, 2 requests, 1 episode |
| `replay` | Is success earned, in what order, how often is anything tried, does it end? | 5 capabilities of 2 steps, 2 values, 3 codes, 5 episodes |
| `discovery` | Why does a run of the agent stop, what may it claim, what happens around the deadline and a hand-back, and does it end? | 2 screens, 2 names, 2 controls; default repetition bounds with 5 turns, tighter ones with 4 |
| `store` | Whatever runs do at once and wherever writes fail: do versions stay immutable and one line of lessons, do they implement `Ratchet`, does what is learned hang together, do overrides go on applying? | 2 processes, 1 tenant, 3 steps, 3 versions, 7 kinds of episode, 1 a run |
| `resolution` | Is anything guessed, is a position the candidate it was given for, does advice get further, is the item chosen the one pressed? | all forests of up to 3 nodes of 8 kinds, of 4 below a table, 216 screens of two panels; 27 targets, 16 selections, 3 turns |
| `policy` | Is what a loaded policy allows what its file says, does it keep to the list, can striking lines out allow anything? | 6 documents, any 2 edits of a line; 3 origin lines, 7 addresses, 3 lengths of a reason |
| `surface` | After which calls is anything still arriving, where may an input land, is a refusal final, is anything late, does every call answer? | 2 frames, 2 addresses, the opening navigation and two operations, 1 move of the page, a deadline of 2 that counts down before or in a call |
| `evidence` | Is a log one session's and in step with its answers, and is anything quoted that was known? | 2 writers on 1 run id, 2 events each, 4 values of which 2 at a time, 5 texts |
| `compile` | Is anything of the run stored, do checkpoints speak of what follows, does a stored step do what was done? | 3 proposals of 24, 1 hand-off, 3 endings |
| `replay_RiskyRemedyRunsOnce`, `compile_StepsAreWhatTheRunDid` | One statement of a comment each, which the code does not keep (section 6) | as above |

Why these bounds are enough to be interesting. *Two episodes* is what it takes
for a late answer of one to meet the next (`EvidenceAgrees`,
`SeenIsAccountedFor`); *two requests* is what it takes for two looks to overlap
or two returns to race; one secret suffices because values are never compared
with each other. The two runs split these because together they exceed what a
few minutes can cover; the theorems cover all of it. In `replay`, *two steps*
let the budget of one be spent by the other, with rules of 3, 2, 1 and 4
attempts against a budget of 4; the five capabilities have every action type,
rules that resume here and at the step, justified and not, outcomes, a list
whose emptiness is an answer and one whose code needs a person. `MaxEpisodes`
is one more than a run can use, so that it is the code that stops.

In `resolution`, every small tree is tried because the rungs differ on small trees
already (a cell in a row in a table, a control with and without a caption); the
panels are those of the application, a heading in the first row and a caption beside
what it captions, side by side, one in the other, and in a frame. The cell with a name
and a value of its own is there for the headings that are read in one way and found in
another (section 6). In `policy`, two edits are what it takes for a mode to be
listed and emptied, or an entry to be duplicated and the first struck out; the proofs
cover any number. In `surface`, two operations are what it takes for a load the first
started late to meet the second, and with it a load the second started
(`NothingStillArriving`) or the refusal of it (`RefusalIsFinal`); one move of the page
is a child that opens, a frame that is taken elsewhere after its check, or a redirect.
The theorems cover any number of both. In `evidence`, the values are one in another,
two that cross, one that runs into itself and one that is encoded and quoted. In
`compile`, three turns are a control that is recorded under a scrubbed name, a
selection or a fill, and a reading, in any order. The goal has one constant word,
because a later public selection of it is what takes a registered value back
(`Declassify`).

In `discovery`, *two screens* are what a lap needs, and *two names and two
controls* what re-reading under another name needs; five turns are enough to
stop for a cycle, be handed back, and go on to the next stop. The second bounds
(`ineffectiveAllowed` 1, two resolution failures) are there because under the
default ones `no_effect` never fires (section 6).

In `store`, *two processes* are what a race needs, and each runs any number of
times one after the other, so one episode a run still builds up two lessons and
two override entries; the seven episodes are one for each class and for each reason
to refuse, and one at each step (a quoted value, somebody who was stuck, a proposal nobody answered); the answer a caller may give is called like one of the stops, so that codes meet
(that two steps may be stopped at under one code is left to `StoreLearnedHangsTogether`);
the id of one step makes no code, so that a lesson may end the process.
A run of the highest version is left out (`MaxVersion`). `AmendTo` is empty:
`--amendTo` lets a person cut any version from any other, and then the versions are
no line and `EachVersionAddsOneLesson` and `Ratchet` are not promised.

`CHECK_DEADLOCK FALSE` is said where the system may stop: a session that is `ended`
or has used `MaxEpisodes`, a reader who has its answer, a policy nobody edits, a
caller that has asked for all it wanted, writers that are done, a run that is compiled.
`Replay` and `Discovery` end in `Done`, which stutters, so deadlock is checked there.

Properties worth pointing at:

- `ResumedOnlyOnRecord`, `EvidenceAgrees`: after every way out of `pause`
  (refused, unwritable, expired, returned) a run that was told to go on finds the
  resolution in the log.
- `SeenIsAccountedFor`: nothing on the screen is passed over as already seen
  unless it was there at the start or has been registered for redaction,
  however looks overlap.
- `SuccessIsEarned`, `StepsInOrder`: no path through recovery, consultation and
  people skips a checkpoint.
- `RiskyStepsLandOnce`: a press is made twice only under a rule that argues for it.
- `BudgetsHold`, `RunsEnd`: the ladder is bounded, and a run ends.
- `StopsForItsReason`, `NothingGoesUnnoticed`: against the screens an observer
  counted since the last hand-back, the detector stops when it should, only
  then, and says why; reads count for nothing.
- `ClaimIsBacked`, `NothingAfterTheDeadline`, `DiscoveryEnds`: the agent's word is not
  taken for its reading; the deadline is lifted while a person holds the session and
  is back when they return it; the run ends.
- `EachVersionAddsOneLesson`, `ImplementsRatchet`, `VersionsAreImmutable`: the
  versions on disk are one line, each the one below and one lesson more, although
  every run cuts from what it loaded at its start and nothing is locked; so nothing
  known is forgotten and a step that needs a person is never given an answer.
- `WhatIsLearnedHangsTogether`, `OverridesStillApply`: no lesson is lost to a document
  whose references do not resolve, nor to one that does not parse where the author's codes
  are codes (section 6 has the other case), and none makes another tenant's override stop applying.
- `NothingIsGuessed`: against a second definition of what a Target describes, said
  without the order the code narrows in, the code answers with a node only when
  whatever else is described encloses it or stands further from the text asked for.
- `AdviceGetsFurther`: a reader that does what a report says cannot go round.
- `PressLandsOnTheItem`: the Target a selection is pressed through finds the item that
  was chosen, and nothing else but an item that encloses another.

Each property has a mutant in `PROJECT.json`: a plausible bug of a modelled
definition (a dropped rollback, a budget charged only when exhausted, a wait
without a bound) under which TLC refutes it.

## 4. Fairness

`Handoff!Fairness` is weak fairness of `Baseline`, of `Wake \/ Expire` and of
`Settle`: a look always answers (`entries` falls back to an empty list when the
browser fails), the wait is bounded by `Effect.timeout`, and the runtime runs a
fiber that is ready. Nothing is assumed of the person, of the watcher or of
requests. `Replay!FairSpec` is weak fairness of the engine and of the end of
its wait, which `EveryEpisodeSettles` establishes of `Handoff` in the
checked instance. `Discovery!FairSpec` is the same of the agent's loop: a turn
that waits for the model is bounded by `Effect.timeoutOption`. `Surface!Spec` is weak
fairness of the adapter's own steps (a fiber that is ready runs), of hearing what
Chromium has said (a callback that is queued runs) and of the clock. Nothing is assumed
of the page, the servers or the caller: a request may never be answered.

## 5. Proofs

`HandoffProofs` proves, for every number of secrets, requests and episodes:

- `HandoffInvariant`: `Spec => []IInv`;
- `HandoffTypeCorrect`, `HandoffHoldsControl`, `HandoffResumesOnRecord`,
  `HandoffEvidenceAgrees`, `HandoffAccountsForSeen`: the safety properties of
  the `handoff` run, and that a run which goes on owns its session;
- `HandoffImplementsOwnership`: `Handoff` implements `ControlOwnership` under
  `episode <- raised, answer <- pending.classification`.

The only assumption is `HandoffAssumption`: the watcher is no request, the null
text no secret, and there is at least one episode.

The properties are not inductive. `EvidenceAgrees` relates the pending record to
the log, which says nothing after a step unless one also knows in which phase
the run is, that a complete Deferred means the owner is back at
`resume_requested`, that the episodes of log and records are numbered by
`raised`, and what the looks in flight started from. So `IInv` is `TypeOK` with
these as named parts: `Phases` (engine, owner, pending and watching fit
together), `Answers` (a record's classification, the Deferred and the owner),
`Numbering` (episodes of the log, of the records and of requests), `Looks` (what a look in
flight may have skipped), and the safety properties. TLC checked `IInv` as an
invariant of the same instances while the proofs were written. The proof has one lemma per action, each with a
step per part of `IInv` the action can disturb, and shares lemmas for the
operators several actions are made of (`Capture`, `noteCapture`, `Transition`,
`WriteDown`); a `QED` step with PTL turns the step into the temporal theorem.
The refinement has one step per action, each shown to be a step of
`ControlOwnership` or a stutter.

`ReplayProofs` proves, for any set of artifacts of any length, with any rules,
outcomes and codes, and any values:

- `ReplayInvariant`: `Spec => []RInv`;
- `ReplayTypeCorrect`, `ReplayEarnsSuccess`, `ReplayResultOnRecord`,
  `ReplayKeepsOrder`, `ReplayKeepsBudgets`, `ReplayPressesOnce`,
  `ReplayKeepsAuthority`, `ReplayUnattendedFails`, `ReplayKeepsControl`: the
  safety properties of the `replay` run, and four that are proved and not run: result and
  log agree, no advisor proposes a code that needs a person, an unattended run pauses
  for nobody, and no claim of the engine is refused.

The assumption is `ReplayAssumption`: an artifact is well formed
(`IsCapability`), the null value is no value and no code, and `MaxEpisodes`
leaves room for two pauses a step. Of well-formedness the proofs need that
steps and rules are numbered, that codes are codes and that outputs are steps.

What the properties lack to be inductive is what is true in the middle of the
ladder, and it depends on the rung. `RInv` says it part by part, each part by
the value of `at`: `Control` (the session is elsewhere exactly while `paused`),
`Order` (steps before the one in hand held, those after it are untouched),
`Attempts` (what was tried is what was charged, but for the rule in hand, whose
attempts are charged when it is done), `Stalls` (what may be stalled on below a
given rung), `Pauses` (one episode for the action and one for the checkpoint:
`BudgetsHold` alone does not say which of the two is spent), `Presses` (a step
whose action is still to do has not landed), `Proposals`, `Attendance` and
`Reports` (nothing is in the log or the result before the end). A rung ends in
few ways, so the proof is by ways first: one lemma each for a step that holds
(`Holding`), is answered (`Answering`), ends the run (`EndingShort`,
`Reporting`) or climbs to another rung (`Climbing`), and one lemma per action,
which shows that the accounts are in order (`Contained`) and cites them.
`RemedyContained` has the heart of `RiskyStepsLandOnce`: that an attempt repeats
a press only under a rule `unsafeRepeats` let pass because it is justified.

`StoreProofs` proves, for any number of processes, steps, codes, versions and kinds
of episode, and whatever `--amendTo` is given: `StoreInvariant` (`Spec => []SInv`),
and from it `StoreTypeCorrect`, `StoreIsImmutable`, `StoreLessonsDemonstrated`,
`StoreLearnedHangsTogether`, `StoreOverridesConfirmed` and `StoreOverridesApply`.
Where nobody chooses where to cut (`AmendTo = {}`), a second invariant
(`LineInvariant`) gives `LineOfVersions` (`EachVersionAddsOneLesson`) and `StoreImplementsRatchet`.

`StoreLessonsDemonstrated` and `StoreOverridesConfirmed` (everything in a stored
document goes back to somebody who did or confirmed just that) are proved and not run.

The assumptions are those of `ArtifactStore`: the author's version is the first
and parses (`FirstAssumption`), episodes are records (`EpisodesAssumption`), outcome codes
are among the words written for them (`StepsAssumption`), bounds are numbers, and what stands for no file, a
torn file and nothing is no document (`SentinelAssumption`). Nothing is assumed of
the codes being different: two steps may read the same.

What is stored was held by a process, and what a process holds it loaded from what
is stored, so `SInv` says of both that it is `Sound` (a document) or `Confirmed` (an
override). Its part `Writers` is what immutability needs: whoever fills a version
made its file, and is alone in it; `wx` establishes it, and `Torn` keeps everybody
else out. The heart of `WhatIsLearnedHangsTogether` are three lemmas, one
for each declaration of `Amendment.ts`: its refusals leave the codes that are declared equal
to those that can be reached. What is proposed is `Coherent`, which is `Sound` but for the
pattern of its codes; what is stored has been read back, and is `Sound`.

`EachVersionAddsOneLesson` speaks of files only, and a process writes long after it
has read. `LInv` adds what connects the two: every process stands on a version that
is still what it loaded, and will cut just above it (`Writing`); the stored versions
are closed downwards and one of them is the newest (`Line`). The newest is part of the
invariant because its existence would otherwise be an induction. So a version that is
stored is just above the newest one, and is seen from `Ratchet` as one of its steps;
every other step is a stutter.

`DiscoveryProofs` proves, for any bounds, screens, names and controls,
`DiscoveryTypeCorrect`, `DiscoveryStopsForItsReason`, `DiscoveryNoticesLoops`,
`DiscoveryClaimsAreBacked` and `DiscoveryKeepsItsDeadline`, from `DiscoveryAssumption`
(bounds are positive, no screen is the null one). The properties are about the screens a
stretch went through, the code keeps counters: `Tally`, the heart of `DInv`, says that
the counters are those of the lap (how often a screen occurs in it, and how long its
tail of equal screens is), which a read leaves alone and a hand-back resets
together. Around it, `Quiet` and `Why` say what is true of the counts where the run
goes on and where it stops, `Armed` that the deadline is set wherever an action is
chosen, `Paced` that turns are counted, `Answered` that readings are no more than the
steps that took them.

`GateProofs` proves of `Policy`, for documents of any length and any requests,
`PolicyAllowsWhatIsWritten`, `PolicyKeepsToTheList` and `StrikingOutAllowsNothing`. The
invariant (`PolicyIsCompiled`) is that a policy in force was compiled from a document
that loads, whatever has become of the file since; the order in which `decide` asks is
then shown to matter to the reason only (`DecideAllows`). It assumes that requests name a
mode there is (`ModesAssumption`) and that a web address has an origin, which is not the
value standing for none (`WhereaboutsAssumption`).

Of `Compile`, for any proposals and runs of any length, it proves `CompileTypeCorrect`,
`CheckpointsAreTheRuns` and `PlainStepsAreTheRuns`. The invariant, `Kept`
(`WhatTheRunKeeps`), says of a run that what is recorded of a step's value is what was
done, but for a constant something was taken out of (`Faithful`); that each parameter, and the
default of each choice, is what some step gave its name (`Given`); and that a gap names
the step it came after (`Placed`), which stays so because steps are only appended. From
there the argument goes through the compiler. `StepBeforeIs` finds the step of a gap
again, and is where the refusal of an id that names two steps is needed; with it, every
assertion is traced to the step it speaks of. `SuppliedIsGiven` says that a name is
supplied, as a parameter or as the last choice made under it, with what some step gave
it: if that is not what this step did, the name had two meanings.

`NothingIsStored` is the third of its properties, `NothingOfTheRunIsStored`, and rests on
what scrubbing does to any text. `ScrubbedLeaves` says that a known value in a text that
scrubbing changes nothing of itself says a placeholder; the gate `CarriesSensitiveText`
stores only such texts. The argument has four parts.

- `ChosenIs` and `RawSpansAre`: where a value occurs, a span that was chosen crosses an
  occurrence of it, since otherwise it would have been chosen (`SoonerRank`: the order of
  the search is well founded, so the choice exists).
- `MergedAre` and `ReplacedFits`: what spans that cross become goes from an edge to the
  next and holds one mark, and no span holds more than it stands for, so a text never
  gets longer; nor do the texts its quotations say, at either depth (`ScrubbedFits`).
- `NothingTakenOut`: a text that comes out as it went in is therefore as long as it was
  from every edge on (`TailsAreKept`), and every span is inside one that was put back as
  it was. `QuotedSpansAre`: a quotation never is, because a quotation is only put back
  when what it says has changed, and what can be written in one can be read back
  (`DecodedEncoded`, which fails of a mark twice escaped; `DepthsAre` shows that what is
  left of a quotation has none).
- So the span is a value of one mark that stands where its own placeholder does.

That last case is why the property excepts a value that itself says a placeholder: the
code writes `[redacted:memberId]` over `[redacted:memberId]` and finds nothing to change.
The rest is the invariant `Told` (`WhatTheRunIsTold`): whatever is registered has a text
and a label that is known (`Registers`), also after `Declassify`, and everything the
document will be made of is written in words (`Worded`), so that the lemmas apply
(`DocumentIsWorded`). The other gates answer for the private words and the fixed texts
directly, and `InputsAre` for the one kind of input that may be public.

The assumptions of `Compile` are
that a list a selection names is on screen and a cell that is read has a reading
(`ListsAssumption`), and that a value is tagged with one of its origins, a field being
filled with something (`ValuesAssumption`, which is what `Provenance.ts` has), that what a
run reads and is given is a sequence of words (`TextsAssumption`), and that a placeholder
is no escaped quotation mark (`PlaceholdersAssumption`: it begins with a bracket).

`SurfaceProofs` proves, for every policy, page, address and bound,
`SurfaceTypeCorrect`, `SurfaceActsWhereItMay`, `SurfaceRefusesForGood`,
`SurfaceIsNeverLate` and `SurfaceLeavesNothingArriving`, assuming that `about:` and
`data:` are no web addresses (`BlankAssumption`) and that times and bounds are numbers.
What they do not say: an input is safe by the document of the frame it is made in, not by
what other frames show or load; after a refusal a request that had passed its check may
still go out and an input already with the browser may still land, both where that was
allowed (`Vetted`: what has passed is to a listed address); and a load an input starts
only after it was answered is not waited for.
In `SInv`, `Checked` is what makes an input safe: from the check of the frames to the
input, a frame that was seen shows a listed document, since the page can only replace it
by leaving the snapshot. `Arriving` says where the news of a navigation is while a call
waits for it: still to be heard and within what the call waits to hear, or heard and in
`loadingFrames`.

`EvidenceProofs` proves, for any number of writers, run ids and events,
`EvidenceKeepsSessionsApart` and `EvidenceAnswersAgree`, assuming only that no run id is
the value for none (`AbsentAssumption`). In `EInv`, `Alone` says that a run is held by
one writer at most, because a directory is made once, and `Owned` that what is in a
log has numbers its holder has used up; so a new number is above all those in the log.
`InStep` ties the pieces of a file to the answers: one that does not reach its newline is
one whose caller was told that it failed.

`ResolutionProofs` proves, for every set of screens whose trees are in document order
(`IsScreen`), of any size, for any words, Targets and selections:

- `ResolutionTypeCorrect` (`TypeOK`): in particular, what a report advises is always a
  Target somebody can ask for;
- `NothingIsEverGuessed`, `PositionsHold`, `PressesLand` and `AdviceIsFollowed`: the four
  properties of the `resolution` run.

The assumptions are those of `Resolution`: screens are sequences of nodes in document
order (`ScreenAssumption`, which is what `parseAccessibilityTree` builds), Targets and
selections are records of their type (`AskedAssumption`), and what stands for no value
is no text, number or name of a criterion (`AbsentAssumption`). TLC evaluates them on
the instance.

The state machine is small: the invariant `Answered` says that the screen is one there
is and that the answer is what the code says of the Target asked for last, or of a
selection. The work is in the operators, which are functions of trees. They need two
inductions over data, and both are done by well-foundedness: a node whose ancestors are
not what they should be would have a first one (`AboveStep`, which also shows that the
recursive function exists, and `AboveIs`); a node with nothing of a set below it is
found by the last one (`InnermostIs`). `InOrderIs` says that the members of a finite set
have an order, by counting (`Counted`). Then there is a lemma per function of
`resolution.ts`: what a rung of `narrowByText` leaves is the best of what it was offered
(`NarrowByTextBest`), scopes are regions of the tree (`ScopedIs`), what a criterion
leaves is among what it was offered (`LeftIs`), and the rungs taken in order leave what
the Target describes (`DescribedIs`), the heart of `NothingIsEverGuessed`. For
`AdviceIsFollowed` there is a lemma per criterion (`WithinAdvice`, `RoleAdvice`,
`NameAdvice`, `LabelAdvice`, `NearnessAdvice`): the Targets it advises do not fail at it,
nor at one before it; `EndsPast` and `AdviceAnswers` turn that into progress.

Model-checked only: liveness (`EveryEpisodeSettles`, `RecordedReturnResumes`,
`RunsEnd`, `DiscoveryEnds`, `EveryCallAnswers`), which depends on fairness and ENABLED and
is out of the prover's reach; and `NothingKnownIsQuoted`. That one is about what scrubbing
leaves of a text it did change, where a value might come about anew from what is left on
the two sides of a placeholder or inside a quotation that was written again: it needs to
be said which values cannot, and `Unbordered` says it of the values of the instance only.
What is proved of scrubbing, `ScrubbedLeaves`, is about the texts it lets through.

A note on writing definitions that are both checked and proved about: TLC and the prover
read `UNION A \cup B` differently, the one as `(UNION A) \cup B` and the other as
`UNION (A \cup B)`, and `SUBSET` likewise. Wherever one of the two is followed by another
operator it is in parentheses.

## 6. Where code and comments disagree

Two are runs: TLC finds a behaviour in which the code does otherwise than the comment says.

| Run | The comment | The code |
|---|---|---|
| `replay_RiskyRemedyRunsOnce` | at `attempts: 1` a remedy runs once (`Repeatability.ts:33`) | once per step whose checkpoint fails on the condition |
| `compile_StepsAreWhatTheRunDid` | every step below is an action that run took (`compile.ts:827`) | a recorded Target has been scrubbed (`loop.ts:1123`), and a name used for two values keeps the first (`loop.ts:1087`) |

These were met while modelling, and the properties above are stated so that they
hold beside them:

- A transition that could not be recorded did not happen (`Handoff.ts:50`): an
  expiry is committed before its event and not rolled back (`:594`).
- Registration happens before the event that would quote the value, every time
  (`Handoff.ts:46`): between the raise and the first look there is nothing to compare a
  screen with (`:532`).
- Acting after handing back is refused (`Handoff.ts:26`): a note or a return that waited
  for its look is carried out on the next episode (`:666`).
- Three actions without an effect are a complaint of their own, reported before a cycle
  (`Stuck.ts:261`): under the default bounds the third identical screen is a cycle
  already (`:284`), and `no_effect` cannot be reported.
- What an amendment produces parses (`test/learning-a-business-outcome.test.ts:653`): a
  learned no-match keeps the author's word, which need not be a code (`Amendment.ts:301`,
  `Action.ts:106`), nor need what is made of a step's id (`:388`); writing the proposal
  out throws (`parse.ts:81`). `WhatIsLearnedHangsTogether` says that this is the only way
  to propose what does not parse.
- A half-valid document cannot be left behind (`store.ts:163`): a write that fails after
  `wx` made the file leaves a version that does not parse, is the newest and is never
  written again (`:193`).
- An override file only ever grows (`store.ts:271`): a run writes what it loaded at its
  start and one entry more over whatever was confirmed since (`:291`).
- A region an ambiguity report suggests resolves (`resolution.ts:260`, `:264`): a section
  without a name takes the first readable text in it, a nested section's included
  (`:278`), so with two candidates in nested panels the region suggested for the outer
  one holds both. A caption with a name and a value is suggested under the two together
  (`:283`) and looked up by the name alone (`:839`), so nothing is found; the instance
  has such a cell, and `AdviceGetsFurther` sets that advice apart (`SaidInTwo`). A report
  may also send a reader back to the Target that has just failed (`:533`), and an item
  chosen by the text under it is not found again by its name (`selection.ts:13`);
  `PressLandsOnTheItem` says that what is found instead can only be an item that
  encloses another.
- A Surface State is a Surface at one moment (`SurfaceAdapter.ts:25`): the frames'
  addresses are read after the tree and the title (`PlaywrightSurface.ts:293`), and a
  page that moves by itself meanwhile gives one document's tree under another's address.
- A load that an action began is stopped before control is ceded
  (`PlaywrightSurface.ts:237`): one that a frame starts only after that, which
  `surface-origin-boundary.test.ts:135` says happens, is not. `NothingStillArriving` is
  about what was announced in time.
- Every occurrence of every value is replaced (`Scrub.ts:66`): the search goes on behind
  an occurrence that was left out because it crosses a longer one (`:123`), so with the
  values `aa` and `bba` the text `bbaaa` keeps an `aa`. `NothingKnownIsQuoted` is
  therefore about values that do not run into themselves.
- A step id cannot collide (`loop.ts:216`): an `extract` is named by the model, and
  may be called like another step; the compiler then refuses the document
  (`UsedTwice`).
- No value from that run survives in this document (`compile.ts:830`): a value that was
  read is looked for in the summary and the output descriptions only (`loop.ts:1002`).
- An event appended after one that was cut off stands on the same line of the file and
  cannot be read, though its caller was told it is recorded (`EvidenceWriter.ts:284`).
  `LogAgreesWithAnswers` says that this is the only way to lose one.
- An episode is `unattended` also when a person holds the session as the wait ends
  (`Intervention.ts:317` says nobody arrived). After an at-step recovery of a reading
  step its record shows the first reading and the output the last.

## 7. Plan

Done: every module of section 2. What would come next, in order of worth:

1. `Checkpoints`: how a condition is read off a screen and polled against a clock, composed
   with `Resolution`, so that `Replay`'s choices become decisions.
2. A refinement from `Surface` to the choices `Replay` and `Discovery` make of it: an
   operation lands once or fails, also when it lands and fails.
3. For which values and texts scrubbing twice is scrubbing once, which with
   `ScrubbedLeaves` would prove `NothingKnownIsQuoted` of them.

## Not modelled

- How checkpoint conditions are evaluated (`checkpoint.ts`): `Replay` takes their verdict
  as a choice, which covers every evaluation but relates none to a screen.
- `Vocabulary.ts` and prompt building: what they decide is what a model proposes, and any
  proposal is a choice of `Compile` and `Discovery` already.
- The lists and signatures of `Sensitivity.ts`: which value is sensitive is given to
  `Evidence` and `Compile`.
- Attachments and captures of `EvidenceWriter.ts`, the fields of each kind of event,
  YAML, schemas and diffs: data without control.
- `apps/cli` beyond the order of a replay: arguments, reports and the discover and
  compile commands call the modelled parts in a row.
- The operator's pages and the screening of its requests by token and origin.
- `apps/banking` and `apps/demo`: the application the tests drive and scripts that drive
  everything; the environment of the system.
- What happens inside a browser or a model.
