--------------------------- MODULE ArtifactStore ---------------------------
(***************************************************************************)
(* What runs of one Capability learn, and the files they keep it in:       *)
(* Learning.ts (what an episode with a person demonstrated), Amendment.ts  *)
(* and amend.ts (what a document may take on), Override.ts and override.ts *)
(* (what one tenant's screens are called), store.ts (the files), in the    *)
(* order apps/cli/src/replay.ts calls them.                                *)
(*                                                                         *)
(* Every run is a process of its own.  They share one file per version of  *)
(* the capability and one override file per tenant, of which there is one  *)
(* here.  An action is what a process does between two calls of the file   *)
(* system another process could see it between.  Versions are numbered by  *)
(* their minor number.  A document is kept as what the lessons and the     *)
(* tenants can change of it; a file that was created and not yet, or only  *)
(* partly, written is Torn: it does not parse.                             *)
(***************************************************************************)
EXTENDS Naturals, Sequences

CONSTANTS
  Runs,        \* processes running "replay <capability>"
  Steps,       \* the steps of the capability
  Selections,  \* those whose action is selectFromList
  Named,       \* those whose action names a control
  Names,       \* accessible names of controls
  Codes,       \* what is written where a code is expected
  OutcomeCodes, \* the codes in capitals and underscores a document may declare
  NoMatchCode, \* the code the author wrote for a selection without a match
  HumanCode,   \* requiresHumanCode(step): may be the same for two steps
  Episodes,    \* the closed interventions that may happen
  First,       \* the version the author wrote
  MaxVersion,  \* bound: the highest minor number
  MaxEpisodes, \* bound: interventions per run
  AmendTo,     \* what may be given as --amendTo, besides nothing
  Answers,     \* codes a caller may give with confirmedOutcome
  WritesFail,  \* may a write fail, or the process die in it?
  Authored, Absent, Torn, None

ASSUME StepsAssumption ==
  /\ Selections \subseteq Steps
  /\ Named \subseteq Steps \ Selections
  /\ NoMatchCode \in [Selections -> Codes]
  /\ HumanCode \in [Steps -> Codes]
  /\ Answers \cup OutcomeCodes \subseteq Codes

ASSUME BoundsAssumption ==
  /\ MaxVersion \in Nat
  /\ MaxEpisodes \in Nat
  /\ AmendTo \subseteq 0..MaxVersion
  /\ WritesFail \in BOOLEAN

Versions == 0..MaxVersion

-----------------------------------------------------------------------------
(* Documents and records                                                   *)

InterventionRecord ==
  [step : Steps,
   failureCause : {"no_matching_item", "checkpoint_failed", "other"},
   classification : {"resolved", "unresolved", "blocked", "unattended"},
   nextTime : {"not_asked", "always_stop_here", "automation_handles_it"},
   touched : BOOLEAN,   \* something was observed to change, or said to be done
   proposal : Names \union {None},
   confirmProposal : {"not_asked", "rejected", "confirmed"},
   quotes : BOOLEAN]    \* its prose holds a value this run treats as sensitive

ASSUME EpisodesAssumption == Episodes \subseteq InterventionRecord

Origin == Episodes \union {Authored}

CapabilityArtifact ==
  [version : Versions,
   names : [Named -> Names],
   onNoMatch : [Selections -> {"escalate", "outcome"}],
   orOutcome : [Steps -> SUBSET Codes],
   outcomes : SUBSET [code : Codes, from : Origin],
   requiresHuman : SUBSET [code : Codes, step : Steps, from : Origin]]

OverrideTarget == [step : Named, was : Names, name : Names, from : Episodes]

\* baseVersion is written for a reviewer, and no code reads it.
TenantOverride == [targets : SUBSET OverrideTarget]

declared(a) == {d.code : d \in a.outcomes}

reachable(a) ==
  {NoMatchCode[s] : s \in {t \in Selections : a.onNoMatch[t] = "outcome"}}
    \union UNION {a.orOutcome[s] : s \in Steps}

\* referentialProblems, as far as what is learned can break it.
HangsTogether(a) ==
  /\ declared(a) = reachable(a)
  /\ \A h \in a.requiresHuman : h.code \notin declared(a)
  /\ \A h, i \in a.requiresHuman : h.step = i.step \/ h.code = i.code => h = i

\* What the schema asks of a code: where a selection escalates it may be any word,
\* and where it answers, or is declared, it may not.
WellNamed(a) ==
  declared(a) \union reachable(a) \union {h.code : h \in a.requiresHuman} \subseteq OutcomeCodes

\* parseArtifact: the schema, and then the references.
Parses(a) == WellNamed(a) /\ HangsTogether(a)

ASSUME FirstAssumption ==
  First \in CapabilityArtifact /\ First.version = 0 /\ Parses(First)
ASSUME SentinelAssumption ==
  /\ Absent # Torn /\ Authored \notin Episodes
  /\ \A x \in {Absent, Torn, None} : x \notin CapabilityArtifact /\ x \notin TenantOverride

-----------------------------------------------------------------------------
(* What an episode taught, and what a document takes on.  A result that    *)
(* may be refused is the set of the documents it yields: one, or none.     *)

DemonstratesNothing(e) ==
  e.classification \in {"unattended", "blocked"} \/ e.nextTime = "not_asked"

classify(e) ==
  CASE DemonstratesNothing(e) -> "nothing_learned"
    [] ~DemonstratesNothing(e) /\ e.nextTime = "always_stop_here" ->
         IF e.touched THEN "requires_human" ELSE "nothing_learned"
    [] OTHER -> IF e.touched THEN "recoverable" ELSE "business_outcome"

\* Mutant: only the declared outcomes are looked at.
classificationOf_Outcomes(a, code) ==
  IF code \in declared(a) THEN "business_outcome" ELSE "none"

classificationOf(a, code) ==
  IF \E h \in a.requiresHuman : h.code = code THEN "requires_human"
  ELSE IF code \in declared(a) THEN "business_outcome"
  ELSE "none"

\* The finished document is compared with its scrubbed self.
carriesNothingSensitive(e) == ~e.quotes

\* Mutant: the section is replaced rather than added to.
declareRequiresHuman_Replaces(a, e, version) ==
  {b \in {[a EXCEPT !.version = version,
             !.requiresHuman =
               {[code |-> HumanCode[e.step], step |-> e.step, from |-> e]}]} :
     /\ version # a.version
     /\ classificationOf(a, HumanCode[e.step]) = "none"
     /\ \A h \in a.requiresHuman : h.step # e.step
     /\ carriesNothingSensitive(e)}

declareRequiresHuman(a, e, version) ==
  {b \in {[a EXCEPT !.version = version,
             !.requiresHuman = @ \union
               {[code |-> HumanCode[e.step], step |-> e.step, from |-> e]}]} :
     /\ version # a.version
     /\ classificationOf(a, HumanCode[e.step]) = "none"
     /\ \A h \in a.requiresHuman : h.step # e.step
     /\ carriesNothingSensitive(e)}

declareLearnedNoMatch(a, e, version) ==
  {b \in {[a EXCEPT !.version = version,
             !.onNoMatch[e.step] = "outcome",
             !.outcomes = @ \union
               {[code |-> NoMatchCode[e.step], from |-> e]}]} :
     /\ version # a.version
     /\ a.onNoMatch[e.step] = "escalate"
     /\ classificationOf(a, NoMatchCode[e.step]) = "none"
     /\ carriesNothingSensitive(e)}

\* Mutant: a step that needs a person may be given an answer.
declareCheckpointOutcome_Downgrades(a, e, version, code) ==
  {b \in {[a EXCEPT !.version = version,
             !.orOutcome[e.step] = @ \union {code},
             !.outcomes = @ \union {[code |-> code, from |-> e]}]} :
     /\ version # a.version
     /\ code \in OutcomeCodes
     /\ classificationOf(a, code) = "none"
     /\ carriesNothingSensitive(e)}

declareCheckpointOutcome(a, e, version, code) ==
  {b \in {[a EXCEPT !.version = version,
             !.orOutcome[e.step] = @ \union {code},
             !.outcomes = @ \union {[code |-> code, from |-> e]}]} :
     /\ version # a.version
     /\ code \in OutcomeCodes
     /\ classificationOf(a, code) = "none"
     /\ \A h \in a.requiresHuman : h.step # e.step
     /\ carriesNothingSensitive(e)}

proposeAmendment(a, e, version, confirmedOutcome) ==
  CASE classify(e) = "requires_human" /\ e.failureCause = "checkpoint_failed" ->
         declareRequiresHuman(a, e, version)
    [] /\ classify(e) = "business_outcome"
       /\ confirmedOutcome # None
       /\ e.failureCause = "checkpoint_failed" ->
         declareCheckpointOutcome(a, e, version, confirmedOutcome)
    [] /\ classify(e) = "business_outcome"
       /\ confirmedOutcome = None
       /\ e.step \in Selections
       /\ e.failureCause = "no_matching_item" ->
         declareLearnedNoMatch(a, e, version)
    [] OTHER -> {}

\* An entry has to land: on a step that names a control, by that name.
Applies(o, a) ==
  \A t \in o.targets : t.step \in Named /\ a.names[t.step] = t.was

declareTargetOverride(existing, a, e) ==
  LET kept == IF existing = None THEN {} ELSE existing.targets
      entry == [step |-> e.step, was |-> a.names[e.step], name |-> e.proposal,
                from |-> e]
  IN {o \in {[targets |-> kept \union {entry}]} :
        /\ e.proposal # a.names[e.step]
        /\ \A t \in kept : t.step # e.step
        /\ carriesNothingSensitive(e)
        /\ Applies(o, a)}

proposeOverride(existing, a, e) ==
  IF e.proposal # None /\ e.confirmProposal = "confirmed" /\ e.step \in Named
  THEN declareTargetOverride(existing, a, e)
  ELSE {}

-----------------------------------------------------------------------------
(* The processes and the files                                             *)

VARIABLES
  files,    \* config/capabilities/<capability>/<version>.yaml
  override, \* config/tenant-overrides/<tenant>/<capability>.yaml
  run       \* what each process holds

vars == <<files, override, run>>

Idle ==
  [phase |-> "idle", artifact |-> None, cut |-> 0, tenant |-> FALSE,
   carried |-> None, episodes |-> <<>>, next |-> 1, draft |-> None]

Phases ==
  {"idle", "running", "amending", "creating", "filling", "confirming", "rewriting"}

Run ==
  [phase : Phases,
   artifact : CapabilityArtifact \union {None},
   cut : Versions,                             \* the version it would write
   tenant : BOOLEAN,                           \* was --tenant given?
   carried : TenantOverride \union {None},
   episodes : Seq(Episodes),
   next : Nat,                                 \* the episode in hand
   draft : CapabilityArtifact \union TenantOverride \union {None}]

Init ==
  /\ files = [v \in Versions |-> IF v = 0 THEN First ELSE Absent]
  /\ override = Absent
  /\ run = [r \in Runs |-> Idle]

\* Mutant: what is amended is the document with the tenant's names in it.
Load_AmendsTheEffective(r, version, cut, tenant) ==
  /\ run[r].phase = "idle"
  /\ files[version] \notin {Absent, Torn}
  /\ cut \in {version + 1} \union AmendTo
  /\ tenant => /\ override # Torn
               /\ override # Absent => Applies(override, files[version])
  /\ run' = [run EXCEPT ![r] =
       [Idle EXCEPT !.phase = "running", !.cut = cut, !.tenant = tenant,
          !.carried = IF tenant /\ override # Absent THEN override ELSE None,
          !.artifact = IF tenant /\ override # Absent
                       THEN [files[version] EXCEPT !.names = [s \in Named |->
                              IF \E t \in override.targets : t.step = s
                              THEN (CHOOSE t \in override.targets : t.step = s).name
                              ELSE @[s]]]
                       ELSE files[version]]]
  /\ UNCHANGED <<files, override>>

\* loadArtifact and loadOverride.  A version or an override that does not
\* parse, or an override that does not apply, is a run that does not happen.
Load(r, version, cut, tenant) ==
  /\ run[r].phase = "idle"
  /\ files[version] \notin {Absent, Torn}
  /\ cut \in {version + 1} \union AmendTo
  /\ tenant => /\ override # Torn
               /\ override # Absent => Applies(override, files[version])
  /\ run' = [run EXCEPT ![r] =
       [Idle EXCEPT !.phase = "running",
                    !.artifact = files[version],
                    !.cut = cut,
                    !.tenant = tenant,
                    !.carried = IF tenant /\ override # Absent THEN override ELSE None]]
  /\ UNCHANGED <<files, override>>

\* The run itself, which touches no file, with the episodes it closed.  A
\* selection that already answers raises none about having no match.
Ends(r, episodes) ==
  /\ run[r].phase = "running"
  /\ \A i \in DOMAIN episodes : episodes[i].failureCause = "no_matching_item" =>
       /\ episodes[i].step \in Selections
       /\ run[r].artifact.onNoMatch[episodes[i].step] = "escalate"
  /\ run' = [run EXCEPT ![r] =
       IF episodes = <<>> THEN Idle
       ELSE [@ EXCEPT !.phase = "amending", !.episodes = episodes]]
  /\ UNCHANGED <<files, override>>

Episode(r) == run[r].episodes[run[r].next]

\* What r does after an episode: the next one's turn.  When amend has seen all,
\* confirmOverride sees them all again.
After(r) ==
  CASE run[r].next < Len(run[r].episodes) ->
         [run[r] EXCEPT !.next = @ + 1, !.draft = None,
            !.phase = IF @ \in {"confirming", "rewriting"} THEN "confirming" ELSE "amending"]
    [] /\ run[r].next = Len(run[r].episodes)
       /\ run[r].phase \in {"amending", "creating", "filling"}
       /\ run[r].tenant ->
         [run[r] EXCEPT !.next = 1, !.draft = None, !.phase = "confirming"]
    [] OTHER -> Idle

\* Refused, unchanged, not stored, or done with.
GoOn(r) == run' = [run EXCEPT ![r] = After(r)]

\* amend: what is proposed is written out for the diff, which throws, and ends the
\* process, where the schema refuses a code; then it is read back, and the version
\* looked for.
Amend(r) ==
  /\ run[r].phase = "amending"
  /\ \E answer \in Answers \union {None} :
       LET amended == proposeAmendment(run[r].artifact, Episode(r), run[r].cut, answer)
           storable == {b \in amended : files[b.version] = Absent /\ Parses(b)}
       IN \/ /\ storable = {} /\ \A b \in amended : WellNamed(b)
             /\ GoOn(r)
          \/ /\ \E b \in amended : ~WellNamed(b)
             /\ run' = [run EXCEPT ![r] = Idle]
          \/ \E b \in storable :
               run' = [run EXCEPT ![r].phase = "creating", ![r].draft = b]
  /\ UNCHANGED <<files, override>>

\* Mutant: the version file is opened for writing, whether it is there or not.
Create_NotExclusive(r) ==
  /\ run[r].phase = "creating"
  /\ \/ /\ files' = [files EXCEPT ![run[r].draft.version] = Torn]
        /\ run' = [run EXCEPT ![r].phase = "filling"]
     \/ WritesFail /\ GoOn(r) /\ UNCHANGED files
  /\ UNCHANGED override

\* writeFileSync with flag "wx": the file is made, or it was there already.
Create(r) ==
  LET version == run[r].draft.version
  IN /\ run[r].phase = "creating"
     /\ \/ /\ files[version] = Absent
           /\ files' = [files EXCEPT ![version] = Torn]
           /\ run' = [run EXCEPT ![r].phase = "filling"]
        \/ /\ files[version] # Absent \/ WritesFail
           /\ GoOn(r)
           /\ UNCHANGED files
     /\ UNCHANGED override

\* ... and then its text written, or not.
Fill(r) ==
  LET version == run[r].draft.version
  IN /\ run[r].phase = "filling"
     /\ GoOn(r)
     /\ \/ files' = [files EXCEPT ![version] = run[r].draft]
        \/ WritesFail /\ UNCHANGED files
     /\ UNCHANGED override

\* confirmOverride, up to the open of writeFileSync, which empties the file.
Confirm(r) ==
  /\ run[r].phase = "confirming"
  /\ LET confirmed == proposeOverride(run[r].carried, run[r].artifact, Episode(r))
     IN \/ /\ confirmed = {} \/ WritesFail
           /\ GoOn(r)
           /\ UNCHANGED override
        \/ \E o \in confirmed :
             /\ override' = Torn
             /\ run' = [run EXCEPT ![r].phase = "rewriting", ![r].draft = o]
  /\ UNCHANGED files

\* ... and the text written over whatever the file holds by then: another
\* process may have written a longer one since, whose tail stays.
Rewrite(r) ==
  /\ run[r].phase = "rewriting"
  /\ \/ /\ override' \in {run[r].draft} \union (IF override = Torn THEN {} ELSE {Torn})
        /\ run' = [run EXCEPT ![r] =
             IF After(r) = Idle THEN Idle ELSE [After(r) EXCEPT !.carried = run[r].draft]]
     \/ /\ WritesFail
        /\ override' \in {override, Torn}
        /\ GoOn(r)
  /\ UNCHANGED files

\* The process dies, or was run with --noAmend.
Crash(r) ==
  /\ run[r].phase # "idle"
  /\ run[r].phase \in {"filling", "rewriting"} => WritesFail
  /\ run' = [run EXCEPT ![r] = Idle]
  /\ UNCHANGED <<files, override>>

Next ==
  \E r \in Runs :
    \/ \E version, cut \in Versions, tenant \in BOOLEAN : Load(r, version, cut, tenant)
    \/ \E n \in 0..MaxEpisodes : \E episodes \in [1..n -> Episodes] : Ends(r, episodes)
    \/ Amend(r) \/ Create(r) \/ Fill(r)
    \/ Confirm(r) \/ Rewrite(r)
    \/ Crash(r)

Spec == Init /\ [][Next]_vars
-----------------------------------------------------------------------------
(* Properties                                                              *)

\* The state is of the declared types.
TypeOK ==
  /\ files \in [Versions -> CapabilityArtifact \union {Absent, Torn}]
  /\ override \in TenantOverride \union {Absent, Torn}
  /\ run \in [Runs -> Run]

Stored(v) == files[v] \notin {Absent, Torn}

\* A version that was stored never changes, whoever writes what at the same
\* time (store.ts: an existing version is never overwritten).
VersionsAreImmutable ==
  [][\A v \in Versions : Stored(v) => files'[v] = files[v]]_vars

\* b is a with one thing more: a step that needs a person, or an outcome.
AddsOneLesson(a, b) ==
  /\ b.names = a.names
  /\ \/ /\ \E h \in b.requiresHuman \ a.requiresHuman :
             b.requiresHuman = a.requiresHuman \union {h}
        /\ b.outcomes = a.outcomes
        /\ b.onNoMatch = a.onNoMatch
        /\ b.orOutcome = a.orOutcome
     \/ /\ \E d \in b.outcomes \ a.outcomes : b.outcomes = a.outcomes \union {d}
        /\ b.requiresHuman = a.requiresHuman
        /\ \A s \in Selections :
             a.onNoMatch[s] = "outcome" => b.onNoMatch[s] = "outcome"
        /\ \A s \in Steps : a.orOutcome[s] \subseteq b.orOutcome[s]

\* However many runs of whichever versions amend at once, the versions stay one
\* line: each says what the one below says, and one thing more.  Two runs that
\* learned at the same version cannot both be stored, and a run of an old one
\* cannot write past it (Amendment.ts: nextMinorVersion; only without --amendTo).
EachVersionAddsOneLesson ==
  \A v \in Versions \ {0} :
    Stored(v) => Stored(v - 1) /\ AddsOneLesson(files[v - 1], files[v])

InForce ==
  CHOOSE v \in Versions : Stored(v) /\ \A w \in (v + 1)..MaxVersion : ~Stored(w)

human == {h.step : h \in files[InForce].requiresHuman}
unmatched == {s \in Selections : files[InForce].onNoMatch[s] = "outcome"}
answers == files[InForce].orOutcome

Promise == INSTANCE Ratchet

\* What the newest stored version says only tightens: a step known to need a
\* person is never given another answer, and nothing known is forgotten
\* (Amendment.ts, the ratchet; only without --amendTo).
ImplementsRatchet == Promise!RatchetSpec

\* What a says beyond the author's words was demonstrated by somebody.
Demonstrated(a) ==
  /\ \A h \in a.requiresHuman \ First.requiresHuman :
       /\ h.from # Authored
       /\ h.from.step = h.step
       /\ h.from.failureCause = "checkpoint_failed"
       /\ h.from.classification \in {"resolved", "unresolved"}
       /\ h.from.nextTime = "always_stop_here"
       /\ h.from.touched /\ ~h.from.quotes
  /\ \A d \in a.outcomes \ First.outcomes :
       /\ d.from # Authored
       /\ d.from.classification \in {"resolved", "unresolved"}
       /\ d.from.nextTime = "automation_handles_it"
       /\ ~d.from.touched /\ ~d.from.quotes

\* Every lesson in a stored version was demonstrated: whoever taught that a
\* step needs a person had acted, whoever taught an answer had not, both had
\* been able to act and were asked, and neither's words quote a value of the
\* run (Learning.ts: classify; Amendment.ts: carriesNothingSensitive).
LessonsAreDemonstrated ==
  \A v \in Versions : Stored(v) => Demonstrated(files[v])

\* Whatever an episode may teach a version that runs, the refusals of Amendment.ts
\* leave nothing for the references of writeArtifact's read-back to find, and
\* nothing for its schema either, unless the code the lesson goes by, the author's
\* word for a selection without a match or what is made of the step's id, is none.
WhatIsLearnedHangsTogether ==
  \A r \in Runs : run[r].phase = "amending" =>
    LET step == Episode(r).step
    IN \A answer \in Answers \union {None} :
         \A b \in proposeAmendment(run[r].artifact, Episode(r), run[r].cut, answer) :
           /\ HangsTogether(b)
           /\ \/ WellNamed(b)
              \/ step \in Selections /\ NoMatchCode[step] \notin OutcomeCodes
              \/ HumanCode[step] \notin OutcomeCodes

\* What a tenant's screens are called applies to every stored version, those
\* cut by runs with that override included: a lesson never carries a tenant's
\* name into the capability (cli/replay.ts: both take the base artifact).
OverridesStillApply ==
  override \notin {Absent, Torn} =>
    \A v \in Versions : Stored(v) => Applies(override, files[v])

\* Each entry of o was said yes to, and each step has one.
Agreed(o) ==
  \A t \in o.targets :
    /\ t.from.confirmProposal = "confirmed"
    /\ t.from.step = t.step /\ t.from.proposal = t.name /\ t.name # t.was
    /\ ~t.from.quotes
    /\ \A u \in o.targets : u.step = t.step => u = t

\* Every entry of an override is one a person said yes to, about the control
\* and the step it names, and each step has one (override.ts, Override.ts).
OverridesAreConfirmed ==
  override \notin {Absent, Torn} => Agreed(override)

=============================================================================
