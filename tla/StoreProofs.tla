---------------------------- MODULE StoreProofs ----------------------------
(***************************************************************************)
(* What runs write, for any number of processes, steps, codes, versions    *)
(* and kinds of episode, and whatever --amendTo is given.                  *)
(*                                                                         *)
(* A document is good if it parses, calls the controls what the author     *)
(* called them, and everything in it was demonstrated; an override, if     *)
(* every entry was agreed to and applies to what the author wrote.  What   *)
(* is proposed is all that, but for the codes its schema may refuse.       *)
(* What a process holds is good because it was loaded from what is stored, *)
(* and what is stored because a process held it: the invariant says both.  *)
(***************************************************************************)
EXTENDS ArtifactStore, TLAPS

Coherent(a) ==
  a \in CapabilityArtifact /\ a.names = First.names /\ HangsTogether(a) /\ Demonstrated(a)

Sound(a) == Coherent(a) /\ WellNamed(a)

Confirmed(o) == o \in TenantOverride /\ Agreed(o) /\ Applies(o, First)

\* What a process may hold, by where it is.
Holds(p) ==
  /\ p \in Run
  /\ p.phase \in {"idle", "running"} => p.next = 1
  /\ p.phase \notin {"idle", "running"} => p.next \in 1..Len(p.episodes)
  /\ p.phase # "idle" => Sound(p.artifact)
  /\ p.phase \in {"creating", "filling"} => Sound(p.draft)
  /\ p.phase = "rewriting" => Confirmed(p.draft)
  /\ p.carried # None => Confirmed(p.carried)

Processes == run \in [Runs -> Run] /\ \A r \in Runs : Holds(run[r])

VersionFiles ==
  /\ files \in [Versions -> CapabilityArtifact \union {Absent, Torn}]
  /\ \A v \in Versions : Stored(v) => Sound(files[v])

OverrideFile == override \notin {Absent, Torn} => Confirmed(override)

\* Who fills a version made its file, and nobody else fills it.
Writers ==
  \A r \in Runs : run[r].phase = "filling" =>
    /\ files[run[r].draft.version] = Torn
    /\ \A s \in Runs \ {r} : run[s].phase = "filling" =>
         run[s].draft.version # run[r].draft.version

SInv == Processes /\ VersionFiles /\ OverrideFile /\ Writers

-----------------------------------------------------------------------------
(* What is learned                                                         *)

LEMMA CodesOfOneMore ==
  ASSUME NEW S, NEW d
  PROVE  {x.code : x \in S \union {d}} = {x.code : x \in S} \union {d.code}
OBVIOUS

LEMMA UnionOfOneMore ==
  ASSUME NEW S, NEW f, NEW g, NEW x \in S, NEW c,
         g[x] = f[x] \union {c}, \A s \in S \ {x} : g[s] = f[s]
  PROVE  UNION {g[s] : s \in S} = (UNION {f[s] : s \in S}) \union {c}
OBVIOUS

LEMMA Reclassified ==
  ASSUME NEW a \in CapabilityArtifact, HangsTogether(a), NEW e \in Episodes,
         e.step \in Selections, NEW version \in Versions,
         NEW b \in declareLearnedNoMatch(a, e, version)
  PROVE  /\ b \in CapabilityArtifact /\ HangsTogether(b)
         /\ WellNamed(a) /\ NoMatchCode[e.step] \in OutcomeCodes => WellNamed(b)
<1> DEFINE N == NoMatchCode[e.step]
           d == [code |-> N, from |-> e]
<1>1. /\ N \in Codes
      /\ d \in [code : Codes, from : Origin] /\ d.code = N
      BY StepsAssumption DEF Origin
<1>2. /\ b = [a EXCEPT !.version = version, !.onNoMatch[e.step] = "outcome",
                !.outcomes = @ \union {d}]
      /\ classificationOf(a, N) = "none"
      BY DEF declareLearnedNoMatch
<1> HIDE DEF d, N
<1>3. /\ b.requiresHuman = a.requiresHuman /\ b.orOutcome = a.orOutcome
      /\ b.outcomes = a.outcomes \union {d}
      /\ b.onNoMatch = [a.onNoMatch EXCEPT ![e.step] = "outcome"]
      BY <1>2 DEF CapabilityArtifact
<1>4. b \in CapabilityArtifact
  <2>1. /\ a.outcomes \union {d} \in SUBSET [code : Codes, from : Origin]
        /\ [a.onNoMatch EXCEPT ![e.step] = "outcome"]
             \in [Selections -> {"escalate", "outcome"}]
        BY <1>1 DEF CapabilityArtifact
  <2> QED
    BY <1>2, <2>1 DEF CapabilityArtifact
<1>5. declared(b) = declared(a) \union {N}
      BY <1>1, <1>3, CodesOfOneMore DEF declared
<1>6. {t \in Selections : b.onNoMatch[t] = "outcome"}
        = {t \in Selections : a.onNoMatch[t] = "outcome"} \union {e.step}
      BY <1>3 DEF CapabilityArtifact
<1>7. reachable(b) = reachable(a) \union {N}
      BY <1>3, <1>6 DEF reachable, N
<1>8. \A h \in a.requiresHuman : h.code # N
      BY <1>2 DEF classificationOf
<1>9. HangsTogether(b)
      BY <1>3, <1>5, <1>7, <1>8 DEF HangsTogether
<1>10. WellNamed(a) /\ N \in OutcomeCodes => WellNamed(b)
      BY <1>3, <1>5, <1>7 DEF WellNamed
<1> QED
  BY <1>4, <1>9, <1>10 DEF N

LEMMA Answered ==
  ASSUME NEW a \in CapabilityArtifact, HangsTogether(a), NEW e \in Episodes,
         NEW version \in Versions, NEW code \in Codes,
         NEW b \in declareCheckpointOutcome(a, e, version, code)
  PROVE  /\ b \in CapabilityArtifact /\ HangsTogether(b)
         /\ WellNamed(a) => WellNamed(b)
<1> DEFINE d == [code |-> code, from |-> e]
<1>1. /\ e.step \in Steps
      /\ d \in [code : Codes, from : Origin] /\ d.code = code
      BY EpisodesAssumption DEF InterventionRecord, Origin
<1>2. /\ b = [a EXCEPT !.version = version, !.orOutcome[e.step] = @ \union {code},
                !.outcomes = @ \union {d}]
      /\ classificationOf(a, code) = "none" /\ code \in OutcomeCodes
      BY DEF declareCheckpointOutcome
<1> HIDE DEF d
<1>3. /\ b.requiresHuman = a.requiresHuman /\ b.onNoMatch = a.onNoMatch
      /\ b.outcomes = a.outcomes \union {d}
      /\ b.orOutcome = [a.orOutcome EXCEPT ![e.step] = @ \union {code}]
      BY <1>2 DEF CapabilityArtifact
<1>4. b \in CapabilityArtifact
  <2>1. /\ a.outcomes \union {d} \in SUBSET [code : Codes, from : Origin]
        /\ [a.orOutcome EXCEPT ![e.step] = @ \union {code}] \in [Steps -> SUBSET Codes]
        BY <1>1 DEF CapabilityArtifact
  <2> QED
    BY <1>2, <2>1 DEF CapabilityArtifact
<1>5. declared(b) = declared(a) \union {code}
      BY <1>1, <1>3, CodesOfOneMore DEF declared
<1>6. UNION {b.orOutcome[s] : s \in Steps} = (UNION {a.orOutcome[s] : s \in Steps}) \union {code}
  <2>1. /\ b.orOutcome[e.step] = a.orOutcome[e.step] \union {code}
        /\ \A s \in Steps \ {e.step} : b.orOutcome[s] = a.orOutcome[s]
        BY <1>1, <1>3 DEF CapabilityArtifact
  <2> QED
    BY <1>1, <2>1, UnionOfOneMore
<1>7. reachable(b) = reachable(a) \union {code}
      BY <1>3, <1>6 DEF reachable
<1>8. \A h \in a.requiresHuman : h.code # code
      BY <1>2 DEF classificationOf
<1>9. HangsTogether(b)
      BY <1>3, <1>5, <1>7, <1>8 DEF HangsTogether
<1>10. WellNamed(a) => WellNamed(b)
      BY <1>2, <1>3, <1>5, <1>7 DEF WellNamed
<1> QED
  BY <1>4, <1>9, <1>10

LEMMA Stopped ==
  ASSUME NEW a \in CapabilityArtifact, HangsTogether(a), NEW e \in Episodes,
         NEW version \in Versions, NEW b \in declareRequiresHuman(a, e, version)
  PROVE  /\ b \in CapabilityArtifact /\ HangsTogether(b)
         /\ WellNamed(a) /\ HumanCode[e.step] \in OutcomeCodes => WellNamed(b)
<1> DEFINE h == [code |-> HumanCode[e.step], step |-> e.step, from |-> e]
<1>1. /\ h \in [code : Codes, step : Steps, from : Origin]
      /\ h.step = e.step /\ h.code = HumanCode[e.step]
      BY EpisodesAssumption, StepsAssumption DEF InterventionRecord, Origin
<1>2. /\ b = [a EXCEPT !.version = version, !.requiresHuman = @ \union {h}]
      /\ classificationOf(a, HumanCode[e.step]) = "none"
      /\ \A i \in a.requiresHuman : i.step # e.step
      BY DEF declareRequiresHuman
<1> HIDE DEF h
<1>3. /\ b.outcomes = a.outcomes /\ b.onNoMatch = a.onNoMatch
      /\ b.orOutcome = a.orOutcome /\ b.requiresHuman = a.requiresHuman \union {h}
      BY <1>2 DEF CapabilityArtifact
<1>4. b \in CapabilityArtifact
      BY <1>1, <1>2 DEF CapabilityArtifact
<1>5. declared(b) = declared(a) /\ reachable(b) = reachable(a)
      BY <1>3 DEF declared, reachable
<1>6. h.code \notin declared(a) /\ \A i \in a.requiresHuman : i.code # h.code
      BY <1>1, <1>2 DEF classificationOf
<1>7. HangsTogether(b)
      BY <1>1, <1>2, <1>3, <1>5, <1>6 DEF HangsTogether
<1>8. {i.code : i \in b.requiresHuman} = {i.code : i \in a.requiresHuman} \union {HumanCode[e.step]}
      BY <1>1, <1>3, CodesOfOneMore
<1>9. WellNamed(a) /\ HumanCode[e.step] \in OutcomeCodes => WellNamed(b)
      BY <1>5, <1>8 DEF WellNamed
<1> QED
  BY <1>4, <1>7, <1>9

\* The codes of what is proposed are codes, unless the one the lesson goes by is none.
LEMMA ProposalIsNamed ==
  ASSUME NEW a, Sound(a), NEW e \in Episodes, NEW version \in Versions,
         NEW answer \in Answers \union {None},
         NEW b \in proposeAmendment(a, e, version, answer)
  PROVE  \/ WellNamed(b)
         \/ e.step \in Selections /\ NoMatchCode[e.step] \notin OutcomeCodes
         \/ HumanCode[e.step] \notin OutcomeCodes
<1>1. a \in CapabilityArtifact /\ HangsTogether(a) /\ WellNamed(a) /\ (answer # None => answer \in Codes)
      BY StepsAssumption DEF Sound, Coherent
<1>2. CASE b \in declareRequiresHuman(a, e, version)
      BY <1>1, <1>2, Stopped
<1>3. CASE answer # None /\ b \in declareCheckpointOutcome(a, e, version, answer)
      BY <1>1, <1>3, Answered
<1>4. CASE e.step \in Selections /\ b \in declareLearnedNoMatch(a, e, version)
      BY <1>1, <1>4, Reclassified
<1> QED
  BY <1>2, <1>3, <1>4 DEF proposeAmendment

\* proposeAmendment proposes only what hangs together, and what somebody demonstrated.
LEMMA ProposalIsCoherent ==
  ASSUME NEW a, Coherent(a), NEW e \in Episodes, NEW version \in Versions,
         NEW answer \in Answers \union {None},
         NEW b \in proposeAmendment(a, e, version, answer)
  PROVE  Coherent(b) /\ b.version = version
<1> USE DEF Coherent
<1>1. e \in InterventionRecord /\ (answer # None => answer \in Codes)
      BY EpisodesAssumption, StepsAssumption
<1>2. CASE /\ classify(e) = "requires_human" /\ e.failureCause = "checkpoint_failed"
           /\ b \in declareRequiresHuman(a, e, version)
  <2> DEFINE h == [code |-> HumanCode[e.step], step |-> e.step, from |-> e]
  <2>1. b \in CapabilityArtifact /\ HangsTogether(b)
        BY <1>2, Stopped
  <2>2. /\ b.version = version
        /\ b.outcomes = a.outcomes /\ b.requiresHuman = a.requiresHuman \union {h}
        /\ b.names = a.names /\ ~e.quotes
        BY <1>2 DEF declareRequiresHuman, CapabilityArtifact, carriesNothingSensitive
  <2>3. /\ e.classification \in {"resolved", "unresolved"}
        /\ e.nextTime = "always_stop_here" /\ e.touched
    <3>1. classify(e) = "requires_human"
          BY <1>2
    <3>2. e.classification \notin {"unattended", "blocked"} /\ e.nextTime # "not_asked"
          BY <3>1 DEF classify, DemonstratesNothing
    <3>3. e.nextTime = "always_stop_here"
          BY <1>1, <3>1, <3>2 DEF classify, DemonstratesNothing, InterventionRecord
    <3>4. e.touched
          BY <3>1, <3>2, <3>3 DEF classify, DemonstratesNothing
    <3> QED
      BY <1>1, <3>2, <3>3, <3>4 DEF InterventionRecord
  <2>4. e # Authored
        BY SentinelAssumption
  <2> QED
    BY <1>2, <2>1, <2>2, <2>3, <2>4 DEF Demonstrated
<1>3. CASE /\ classify(e) = "business_outcome"
           /\ \/ answer # None /\ b \in declareCheckpointOutcome(a, e, version, answer)
              \/ e.step \in Selections /\ b \in declareLearnedNoMatch(a, e, version)
  <2>1. b \in CapabilityArtifact /\ HangsTogether(b)
        BY <1>1, <1>3, Answered, Reclassified
  <2>2. /\ b.version = version /\ b.requiresHuman = a.requiresHuman
        /\ \E c : b.outcomes = a.outcomes \union {[code |-> c, from |-> e]}
        /\ ~e.quotes
    <3>1. CASE answer # None /\ b \in declareCheckpointOutcome(a, e, version, answer)
      <4>1. /\ b.version = version /\ b.requiresHuman = a.requiresHuman
            /\ b.outcomes = a.outcomes \union {[code |-> answer, from |-> e]}
            BY <3>1 DEF declareCheckpointOutcome, CapabilityArtifact
      <4>2. ~e.quotes
            BY <3>1 DEF declareCheckpointOutcome, carriesNothingSensitive
      <4> QED
        BY <4>1, <4>2
    <3>2. CASE b \in declareLearnedNoMatch(a, e, version)
          BY <3>2 DEF declareLearnedNoMatch, CapabilityArtifact, carriesNothingSensitive
    <3> QED
      BY <1>3, <3>1, <3>2
  <2>3. /\ e.classification \in {"resolved", "unresolved"}
        /\ e.nextTime = "automation_handles_it" /\ ~e.touched
        BY <1>1, <1>3 DEF classify, DemonstratesNothing, InterventionRecord
  <2>4. e # Authored
        BY SentinelAssumption
  <2>5. b.names = a.names
    <3>1. CASE answer # None /\ b \in declareCheckpointOutcome(a, e, version, answer)
          BY <3>1 DEF declareCheckpointOutcome, CapabilityArtifact
    <3>2. CASE b \in declareLearnedNoMatch(a, e, version)
          BY <3>2 DEF declareLearnedNoMatch, CapabilityArtifact
    <3> QED
      BY <1>3, <3>1, <3>2
  <2> QED
    BY <2>1, <2>2, <2>3, <2>4, <2>5 DEF Demonstrated
<1> QED
  BY <1>2, <1>3 DEF proposeAmendment

\* declareTargetOverride adds one entry, and only one that was said yes to.
LEMMA OverrideIsConfirmed ==
  ASSUME NEW existing, existing # None => Confirmed(existing),
         NEW a, Sound(a), NEW e \in Episodes,
         NEW o \in proposeOverride(existing, a, e)
  PROVE  Confirmed(o)
<1> DEFINE kept == IF existing = None THEN {} ELSE existing.targets
           entry == [step |-> e.step, was |-> a.names[e.step],
                     name |-> e.proposal, from |-> e]
<1>1. e \in InterventionRecord /\ a \in CapabilityArtifact /\ a.names = First.names
      BY EpisodesAssumption DEF Sound, Coherent
<1>2. /\ e.proposal # None /\ e.confirmProposal = "confirmed" /\ e.step \in Named
      /\ o \in declareTargetOverride(existing, a, e)
      BY DEF proposeOverride
<1>3. /\ o = [targets |-> kept \union {entry}]
      /\ e.proposal # a.names[e.step] /\ ~e.quotes
      /\ \A t \in kept : t.step # e.step
      BY <1>2 DEF declareTargetOverride, carriesNothingSensitive
<1>4. entry \in OverrideTarget
      BY <1>1, <1>2 DEF InterventionRecord, OverrideTarget, CapabilityArtifact
<1>5. kept \subseteq OverrideTarget /\ (\A t \in kept : t # entry) /\ Agreed([targets |-> kept])
      /\ Applies([targets |-> kept], First)
      BY <1>3 DEF Confirmed, TenantOverride, Agreed, Applies
<1> QED
  BY <1>1, <1>2, <1>3, <1>4, <1>5 DEF Confirmed, TenantOverride, Agreed, Applies

-----------------------------------------------------------------------------
(* The processes                                                           *)

LEMMA InitHolds == Init => SInv
<1> SUFFICES ASSUME Init PROVE SInv
    OBVIOUS
<1>1. Sound(First)
      BY FirstAssumption DEF Sound, Coherent, Parses, Demonstrated
<1>2. Idle \in Run /\ Holds(Idle)
      BY BoundsAssumption DEF Idle, Run, Holds, Phases, Versions
<1>3. Processes
      BY <1>2 DEF Init, Processes
<1>4. VersionFiles
      BY <1>1 DEF Init, VersionFiles, Stored, Sound, Coherent
<1>5. OverrideFile /\ Writers
      BY DEF Init, OverrideFile, Writers, Idle
<1> QED
  BY <1>3, <1>4, <1>5 DEF SInv

LEMMA IdleHolds == Holds(Idle)
BY BoundsAssumption DEF Idle, Run, Holds, Phases, Versions

\* A step of one process leaves the others what they hold.
LEMMA OneMoves ==
  ASSUME Processes, NEW r \in Runs, NEW p, Holds(p), run' = [run EXCEPT ![r] = p]
  PROVE  Processes'
BY DEF Processes, Holds

\* What a process does after an episode.
LEMMA NextEpisodeHolds ==
  ASSUME NEW p, Holds(p), p.phase \notin {"idle", "running"},
         NEW n \in 1..Len(p.episodes), NEW phase \in {"amending", "confirming"},
         NEW o, o # None => Confirmed(o), NEW q,
         q = [p EXCEPT !.next = n, !.draft = None, !.phase = phase, !.carried = o]
  PROVE  Holds(q)
<1>1. p \in Run /\ Sound(p.artifact) /\ n \in Nat
      BY DEF Holds
<1>2. o \in TenantOverride \union {None}
      BY DEF Confirmed
<1>3. /\ q.phase = phase /\ q.next = n /\ q.episodes = p.episodes
      /\ q.artifact = p.artifact /\ q.draft = None /\ q.carried = o
      BY <1>1 DEF Run
<1>4. q \in Run
      BY <1>1, <1>2 DEF Run, Phases
<1> QED
  BY <1>1, <1>3, <1>4 DEF Holds

LEMMA AfterHolds ==
  ASSUME Processes, NEW r \in Runs, run[r].phase \notin {"idle", "running"}
  PROVE  /\ Holds(After(r)) /\ After(r).phase \in {"idle", "amending", "confirming"}
         /\ After(r) # Idle => \A o : Confirmed(o) => Holds([After(r) EXCEPT !.carried = o])
<1> DEFINE p == run[r]
           Moved(n, phase, o) ==
             [p EXCEPT !.next = n, !.draft = None, !.phase = phase, !.carried = o]
<1>1. /\ p \in Run /\ Holds(p) /\ p.next \in 1..Len(p.episodes)
      /\ p.carried # None => Confirmed(p.carried)
      BY DEF Processes, Holds
<1>2. Len(p.episodes) \in Nat /\ p.next \in Nat
      BY <1>1 DEF Run
<1>3. CASE After(r) = Idle
      BY <1>3, IdleHolds DEF Idle
<1>4. CASE After(r) # Idle
  <2>1. PICK n \in 1..Len(p.episodes), phase \in {"amending", "confirming"} :
          After(r) = [p EXCEPT !.next = n, !.draft = None, !.phase = phase]
    <3>1. CASE p.next < Len(p.episodes)
      <4> DEFINE phase == IF p.phase \in {"confirming", "rewriting"}
                          THEN "confirming" ELSE "amending"
      <4>1. After(r) = [p EXCEPT !.next = p.next + 1, !.draft = None, !.phase = phase]
            BY <1>1, <1>2, <3>1 DEF After, Run
      <4>2. p.next + 1 \in 1..Len(p.episodes) /\ phase \in {"amending", "confirming"}
            BY <1>2, <3>1
      <4> QED
        BY <4>1, <4>2
    <3>2. CASE /\ p.next = Len(p.episodes) /\ p.tenant
               /\ p.phase \in {"amending", "creating", "filling"}
      <4>1. After(r) = [p EXCEPT !.next = 1, !.draft = None, !.phase = "confirming"]
            BY <1>2, <3>2 DEF After
      <4>2. 1 \in 1..Len(p.episodes) /\ "confirming" \in {"amending", "confirming"}
            BY <1>1, <1>2
      <4> HIDE DEF p
      <4> QED
        BY <4>1, <4>2, Zenon
    <3>3. \/ p.next < Len(p.episodes)
          \/ p.next = Len(p.episodes) /\ p.tenant /\ p.phase \in {"amending", "creating", "filling"}
          BY <1>4, Zenon DEF After
    <3> QED
      BY <3>1, <3>2, <3>3, Zenon
  <2>2. After(r) = Moved(n, phase, p.carried) /\ After(r).phase = phase
        BY <1>1, <2>1 DEF Run
  <2>3. \A o : [After(r) EXCEPT !.carried = o] = Moved(n, phase, o)
        BY <1>1, <2>1 DEF Run
  <2> HIDE DEF p, Moved
  <2>4. \A o : (o # None => Confirmed(o)) => Holds(Moved(n, phase, o))
        BY <1>1, NextEpisodeHolds DEF p, Moved
  <2>5. \A o : Confirmed(o) => Holds(Moved(n, phase, o))
        BY <2>4
  <2> QED
    BY <1>1, <2>2, <2>3, <2>4, <2>5
<1> QED
  BY <1>3, <1>4

-----------------------------------------------------------------------------
(* The actions                                                             *)

\* Who neither starts nor stops filling a version disturbs no writer.
LEMMA WritersStay ==
  ASSUME Processes, Writers, NEW r \in Runs, NEW p,
         run' = [run EXCEPT ![r] = p], p.phase # "filling",
         \A v \in Versions : files[v] = Torn =>
           files'[v] = Torn \/ (run[r].phase = "filling" /\ run[r].draft.version = v)
  PROVE  Writers'
<1> SUFFICES ASSUME NEW s \in Runs, run'[s].phase = "filling"
             PROVE  /\ files'[run'[s].draft.version] = Torn
                    /\ \A t \in Runs \ {s} : run'[t].phase = "filling" =>
                         run'[t].draft.version # run'[s].draft.version
    BY DEF Writers
<1>1. s # r /\ run'[s] = run[s] /\ \A t \in Runs : run'[t].phase = "filling" => t # r /\ run'[t] = run[t]
      BY DEF Processes
<1>2. run[s].draft.version \in Versions
      BY <1>1 DEF Processes, Holds, Sound, Coherent, CapabilityArtifact
<1>3. files[run[s].draft.version] = Torn
      BY <1>1 DEF Writers
<1>4. \A t \in Runs \ {s} : run[t].phase = "filling" =>
        run[t].draft.version # run[s].draft.version
      BY <1>1 DEF Writers
<1> QED
  BY <1>1, <1>2, <1>3, <1>4

LEMMA LoadHolds ==
  ASSUME SInv, NEW r \in Runs, NEW version \in Versions, NEW cut \in Versions,
         NEW tenant \in BOOLEAN, Load(r, version, cut, tenant)
  PROVE  SInv'
<1> DEFINE carried == IF tenant /\ override # Absent THEN override ELSE None
           p == [Idle EXCEPT !.phase = "running", !.artifact = files[version],
                  !.cut = cut, !.tenant = tenant, !.carried = carried]
<1> USE DEF SInv
<1>1. /\ run' = [run EXCEPT ![r] = p] /\ UNCHANGED <<files, override>>
      /\ Stored(version) /\ (tenant => override # Torn)
      BY DEF Load, Stored
<1>2. Sound(files[version])
      BY <1>1 DEF VersionFiles
<1>3. carried # None => Confirmed(carried)
      BY <1>1 DEF OverrideFile
<1>4. Idle \in Run /\ Idle.next = 1
      BY IdleHolds DEF Holds, Idle
<1> HIDE DEF carried
<1>5. Holds(p) /\ p.phase # "filling"
  <2>1. files[version] \in CapabilityArtifact /\ carried \in TenantOverride \union {None}
        BY <1>2, <1>3 DEF Sound, Coherent, Confirmed
  <2>2. /\ p.phase = "running" /\ p.artifact = files[version] /\ p.carried = carried
        /\ p.next = 1
        BY <1>4 DEF Run
  <2>3. p \in Run
        BY <1>4, <2>1 DEF Run, Phases
  <2> HIDE DEF p
  <2> QED
    BY <1>2, <1>3, <2>2, <2>3 DEF Holds
<1> HIDE DEF p
<1>6. Processes'
      BY <1>1, <1>5, OneMoves
<1>7. Writers'
      BY <1>1, <1>5, WritersStay
<1> QED
  BY <1>1, <1>6, <1>7 DEF VersionFiles, OverrideFile, Stored

LEMMA EndsHolds ==
  ASSUME SInv, NEW r \in Runs, NEW n \in 0..MaxEpisodes,
         NEW episodes \in [1..n -> Episodes], Ends(r, episodes)
  PROVE  SInv'
<1> DEFINE p == IF episodes = <<>> THEN Idle
                ELSE [run[r] EXCEPT !.phase = "amending", !.episodes = episodes]
<1> USE DEF SInv
<1>1. /\ run' = [run EXCEPT ![r] = p] /\ UNCHANGED <<files, override>>
      /\ run[r].phase = "running"
      BY DEF Ends, Processes
<1>2. n \in Nat /\ episodes \in Seq(Episodes) /\ Len(episodes) = n
      BY BoundsAssumption
<1>3. Holds(run[r]) /\ run[r] \in Run
      BY DEF Processes, Holds
<1>4. Holds(p) /\ p.phase # "filling"
  <2>1. CASE episodes = <<>>
        BY <2>1, IdleHolds DEF Idle
  <2>2. CASE episodes # <<>>
    <3>1. n >= 1
          BY <1>2, <2>2
    <3>2. p = [run[r] EXCEPT !.phase = "amending", !.episodes = episodes]
          BY <2>2
    <3>3. /\ p.phase = "amending" /\ p.episodes = episodes /\ p.artifact = run[r].artifact
          /\ p.carried = run[r].carried /\ p.next = run[r].next
          BY <1>3, <3>2 DEF Run
    <3>4. p \in Run
          BY <1>2, <1>3, <3>2 DEF Run, Phases
    <3> HIDE DEF p
    <3> QED
      BY <1>1, <1>2, <1>3, <3>1, <3>3, <3>4 DEF Holds
  <2> QED
    BY <2>1, <2>2
<1> HIDE DEF p
<1>5. Processes'
      BY <1>1, <1>4, OneMoves
<1>6. Writers'
      BY <1>1, <1>4, WritersStay
<1> QED
  BY <1>1, <1>5, <1>6 DEF VersionFiles, OverrideFile, Stored

LEMMA EpisodeInHand ==
  ASSUME Processes, NEW r \in Runs, run[r].phase \notin {"idle", "running"}
  PROVE  Episode(r) \in Episodes
<1>1. run[r].episodes \in Seq(Episodes) /\ run[r].next \in 1..Len(run[r].episodes)
      BY DEF Processes, Holds, Run
<1> QED
  BY <1>1 DEF Episode

LEMMA GoOnHolds ==
  ASSUME SInv, NEW r \in Runs, run[r].phase \notin {"idle", "running"}, GoOn(r),
         \A v \in Versions : files[v] = Torn =>
           files'[v] = Torn \/ (run[r].phase = "filling" /\ run[r].draft.version = v)
  PROVE  Processes' /\ Writers'
<1>1. Processes /\ Writers
      BY DEF SInv
<1>2. Holds(After(r)) /\ After(r).phase # "filling"
      BY <1>1, AfterHolds
<1>3. run' = [run EXCEPT ![r] = After(r)]
      BY DEF GoOn
<1> QED
  BY <1>1, <1>2, <1>3, OneMoves, WritersStay

\* A process that is no more leaves what is stored as it was.
LEMMA DiesHolds ==
  ASSUME SInv, NEW r \in Runs, run' = [run EXCEPT ![r] = Idle], UNCHANGED <<files, override>>
  PROVE  SInv'
<1> USE DEF SInv
<1>1. Idle.phase # "filling"
      BY DEF Idle
<1>2. Processes'
      BY IdleHolds, OneMoves
<1>3. Writers'
      BY <1>1, WritersStay
<1> QED
  BY <1>2, <1>3 DEF VersionFiles, OverrideFile, Stored

LEMMA AmendHolds ==
  ASSUME SInv, NEW r \in Runs, Amend(r)
  PROVE  SInv'
<1> USE DEF SInv
<1>1. run[r].phase = "amending" /\ UNCHANGED <<files, override>>
      BY DEF Amend
<1>2. CASE GoOn(r)
      BY <1>1, <1>2, GoOnHolds DEF VersionFiles, OverrideFile, Stored
<1>3. CASE run' = [run EXCEPT ![r] = Idle]
      BY <1>1, <1>3, DiesHolds
<1>4. CASE ~GoOn(r) /\ run' # [run EXCEPT ![r] = Idle]
  <2>0. PICK answer \in Answers \union {None} :
          \E b \in proposeAmendment(run[r].artifact, Episode(r), run[r].cut, answer) :
            Parses(b) /\ run' = [run EXCEPT ![r].phase = "creating", ![r].draft = b]
        BY <1>4 DEF Amend
  <2>1. PICK b \in proposeAmendment(run[r].artifact, Episode(r), run[r].cut, answer) :
          Parses(b) /\ run' = [run EXCEPT ![r].phase = "creating", ![r].draft = b]
        BY <2>0
  <2> DEFINE p == [run[r] EXCEPT !.phase = "creating", !.draft = b]
  <2>2. run[r] \in Run /\ Holds(run[r]) /\ Sound(run[r].artifact) /\ run[r].cut \in Versions
        BY <1>1 DEF Processes, Holds, Run
  <2>3. run' = [run EXCEPT ![r] = p]
        BY <2>1 DEF Processes
  <2>4. Sound(b)
        BY <1>1, <2>1, <2>2, EpisodeInHand, ProposalIsCoherent DEF Sound, Parses
  <2>5. Holds(p) /\ p.phase # "filling"
    <3>1. /\ p.phase = "creating" /\ p.draft = b /\ p.episodes = run[r].episodes
          /\ p.artifact = run[r].artifact /\ p.carried = run[r].carried
          /\ p.next = run[r].next
          BY <2>2 DEF Run
    <3>2. p \in Run
          BY <2>2, <2>4 DEF Run, Phases, Sound, Coherent
    <3> HIDE DEF p
    <3> QED
      BY <1>1, <2>2, <2>4, <3>1, <3>2 DEF Holds
  <2> HIDE DEF p
  <2>6. Processes'
        BY <2>3, <2>5, OneMoves
  <2>7. Writers'
        BY <1>1, <2>3, <2>5, WritersStay
  <2> QED
    BY <1>1, <2>6, <2>7 DEF VersionFiles, OverrideFile, Stored
<1> QED
  BY <1>2, <1>3, <1>4

LEMMA CreateHolds ==
  ASSUME SInv, NEW r \in Runs, Create(r)
  PROVE  SInv'
<1> USE DEF SInv
<1> DEFINE version == run[r].draft.version
           p == [run[r] EXCEPT !.phase = "filling"]
<1>1. run[r].phase = "creating" /\ UNCHANGED override
      BY DEF Create
<1>2. /\ run[r] \in Run /\ Holds(run[r]) /\ Sound(run[r].draft) /\ version \in Versions
      BY <1>1 DEF Processes, Holds, Sound, Coherent, CapabilityArtifact
<1>3. CASE GoOn(r) /\ UNCHANGED files
      BY <1>1, <1>3, GoOnHolds DEF VersionFiles, OverrideFile, Stored
<1>4. CASE /\ files[version] = Absent /\ files' = [files EXCEPT ![version] = Torn]
           /\ run' = [run EXCEPT ![r].phase = "filling"]
  <2>1. run' = [run EXCEPT ![r] = p]
        BY <1>4 DEF Processes
  <2>2. p.phase = "filling" /\ p.draft = run[r].draft /\ Holds(p)
    <3>1. /\ p.phase = "filling" /\ p.draft = run[r].draft /\ p.episodes = run[r].episodes
          /\ p.artifact = run[r].artifact /\ p.carried = run[r].carried
          /\ p.next = run[r].next
          BY <1>2 DEF Run
    <3>2. p \in Run
          BY <1>2 DEF Run, Phases
    <3> HIDE DEF p
    <3> QED
      BY <1>1, <1>2, <3>1, <3>2 DEF Holds
  <2> HIDE DEF p
  <2>3. Processes'
        BY <2>1, <2>2, OneMoves
  <2>4. VersionFiles'
        BY <1>2, <1>4 DEF VersionFiles, Stored
  <2>5. Writers'
    <3>1. \A s \in Runs \ {r} : run'[s] = run[s]
          BY <2>1 DEF Processes
    <3>2. run'[r] = p
          BY <2>1 DEF Processes
    <3>3. \A s \in Runs \ {r} : run[s].phase = "filling" =>
            /\ run[s].draft.version \in Versions
            /\ files[run[s].draft.version] = Torn /\ run[s].draft.version # version
          BY <1>4, SentinelAssumption DEF Writers, Processes, Holds, Sound, Coherent, CapabilityArtifact
    <3>4. files'[version] = Torn
          /\ \A v \in Versions : files[v] = Torn => files'[v] = Torn
          BY <1>2, <1>4 DEF VersionFiles
    <3> QED
      BY <2>2, <3>1, <3>2, <3>3, <3>4 DEF Writers
  <2> QED
    BY <1>1, <2>3, <2>4, <2>5 DEF OverrideFile
<1> QED
  BY <1>3, <1>4 DEF Create

LEMMA FillHolds ==
  ASSUME SInv, NEW r \in Runs, Fill(r)
  PROVE  SInv'
<1> USE DEF SInv
<1> DEFINE version == run[r].draft.version
<1>1. /\ run[r].phase = "filling" /\ GoOn(r) /\ UNCHANGED override
      /\ files' = [files EXCEPT ![version] = run[r].draft] \/ files' = files
      BY DEF Fill
<1>2. Sound(run[r].draft) /\ version \in Versions
      BY <1>1 DEF Processes, Holds, Sound, Coherent, CapabilityArtifact
<1>3. \A v \in Versions : v # version => files'[v] = files[v]
      BY <1>1 DEF VersionFiles
<1>4. VersionFiles'
      BY <1>1, <1>2 DEF VersionFiles, Stored, Sound, Coherent
<1>5. Processes' /\ Writers'
      BY <1>1, <1>3, GoOnHolds
<1> QED
  BY <1>1, <1>4, <1>5 DEF OverrideFile

LEMMA ConfirmHolds ==
  ASSUME SInv, NEW r \in Runs, Confirm(r)
  PROVE  SInv'
<1> USE DEF SInv
<1>1. run[r].phase = "confirming" /\ UNCHANGED files
      BY DEF Confirm
<1>2. VersionFiles'
      BY <1>1 DEF VersionFiles, Stored
<1>3. CASE GoOn(r) /\ UNCHANGED override
      BY <1>1, <1>2, <1>3, GoOnHolds DEF OverrideFile
<1>4. CASE ~(GoOn(r) /\ UNCHANGED override)
  <2>1. PICK o \in proposeOverride(run[r].carried, run[r].artifact, Episode(r)) :
          /\ override' = Torn
          /\ run' = [run EXCEPT ![r].phase = "rewriting", ![r].draft = o]
        BY <1>4 DEF Confirm
  <2> DEFINE p == [run[r] EXCEPT !.phase = "rewriting", !.draft = o]
  <2>2. /\ run[r] \in Run /\ Holds(run[r]) /\ Sound(run[r].artifact)
        /\ run[r].carried # None => Confirmed(run[r].carried)
        BY <1>1 DEF Processes, Holds
  <2>3. run' = [run EXCEPT ![r] = p]
        BY <2>1 DEF Processes
  <2>4. Confirmed(o)
        BY <1>1, <2>1, <2>2, EpisodeInHand, OverrideIsConfirmed
  <2>5. Holds(p) /\ p.phase # "filling"
    <3>1. /\ p.phase = "rewriting" /\ p.draft = o /\ p.episodes = run[r].episodes
          /\ p.artifact = run[r].artifact /\ p.carried = run[r].carried
          /\ p.next = run[r].next
          BY <2>2 DEF Run
    <3>2. p \in Run
          BY <2>2, <2>4 DEF Run, Phases, Confirmed
    <3> HIDE DEF p
    <3> QED
      BY <1>1, <2>2, <2>4, <3>1, <3>2 DEF Holds
  <2> HIDE DEF p
  <2>6. Processes'
        BY <2>3, <2>5, OneMoves
  <2>7. Writers'
        BY <1>1, <2>3, <2>5, WritersStay
  <2> QED
    BY <1>2, <2>1, <2>6, <2>7 DEF OverrideFile
<1> QED
  BY <1>3, <1>4

LEMMA RewriteHolds ==
  ASSUME SInv, NEW r \in Runs, Rewrite(r)
  PROVE  SInv'
<1> USE DEF SInv
<1>1. /\ run[r].phase = "rewriting" /\ UNCHANGED files
      /\ override' \in {run[r].draft, override, Torn}
      BY DEF Rewrite
<1>2. VersionFiles'
      BY <1>1 DEF VersionFiles, Stored
<1>3. Confirmed(run[r].draft)
      BY <1>1 DEF Processes, Holds
<1>4. OverrideFile'
      BY <1>1, <1>3 DEF OverrideFile
<1>5. CASE GoOn(r)
      BY <1>1, <1>2, <1>4, <1>5, GoOnHolds
<1>6. CASE ~GoOn(r)
  <2> DEFINE p == IF After(r) = Idle THEN Idle ELSE [After(r) EXCEPT !.carried = run[r].draft]
  <2>1. run' = [run EXCEPT ![r] = p]
        BY <1>6 DEF Rewrite
  <2>2. Holds(p) /\ p.phase # "filling"
    <3>1. CASE After(r) = Idle
          BY <3>1, IdleHolds DEF Idle
    <3>2. CASE After(r) # Idle
      <4>1. /\ Holds([After(r) EXCEPT !.carried = run[r].draft]) /\ After(r) \in Run
            /\ After(r).phase \in {"idle", "amending", "confirming"}
            BY <1>1, <1>3, <3>2, AfterHolds DEF Holds
      <4>2. [After(r) EXCEPT !.carried = run[r].draft].phase = After(r).phase
            BY <4>1 DEF Run
      <4> QED
        BY <3>2, <4>1, <4>2
    <3> QED
      BY <3>1, <3>2
  <2> HIDE DEF p
  <2>3. Processes'
        BY <2>1, <2>2, OneMoves
  <2>4. Writers'
        BY <1>1, <2>1, <2>2, WritersStay
  <2> QED
    BY <1>2, <1>4, <2>3, <2>4
<1> QED
  BY <1>5, <1>6

LEMMA CrashHolds ==
  ASSUME SInv, NEW r \in Runs, Crash(r)
  PROVE  SInv'
BY DiesHolds DEF Crash

-----------------------------------------------------------------------------
(* Theorems                                                                *)

\* Every state the processes and the files can be in satisfies the invariant.
THEOREM StoreInvariant == Spec => []SInv
<1>1. Init => SInv
      BY InitHolds
<1>2. SInv /\ [Next]_vars => SInv'
  <2> SUFFICES ASSUME SInv, [Next]_vars PROVE SInv'
      OBVIOUS
  <2>1. CASE UNCHANGED vars
        BY <2>1 DEF vars, SInv, Processes, VersionFiles, OverrideFile, Writers, Stored
  <2>2. CASE Next
    <3>1. PICK r \in Runs :
            \/ \E version, cut \in Versions, tenant \in BOOLEAN : Load(r, version, cut, tenant)
            \/ \E n \in 0..MaxEpisodes : \E episodes \in [1..n -> Episodes] : Ends(r, episodes)
            \/ Amend(r) \/ Create(r) \/ Fill(r) \/ Confirm(r) \/ Rewrite(r) \/ Crash(r)
          BY <2>2 DEF Next
    <3>2. CASE \E version, cut \in Versions, tenant \in BOOLEAN : Load(r, version, cut, tenant)
          BY <3>2, LoadHolds
    <3>3. CASE \E n \in 0..MaxEpisodes : \E episodes \in [1..n -> Episodes] : Ends(r, episodes)
          BY <3>3, EndsHolds
    <3> QED
      BY <3>1, <3>2, <3>3, AmendHolds, CreateHolds, FillHolds, ConfirmHolds, RewriteHolds,
         CrashHolds
  <2> QED
    BY <2>1, <2>2
<1> QED
  BY <1>1, <1>2, PTL DEF Spec

\* Every variable keeps its type, whatever fails half way.
THEOREM StoreTypeCorrect == Spec => []TypeOK
<1>1. SInv => TypeOK
      BY DEF SInv, Processes, VersionFiles, OverrideFile, TypeOK, Confirmed
<1> QED
  BY <1>1, StoreInvariant, PTL

\* No step touches a stored version.
LEMMA StoredStays ==
  ASSUME SInv, Next, NEW v \in Versions, Stored(v)
  PROVE  files'[v] = files[v] /\ Stored(v)'
<1>1. files \in [Versions -> CapabilityArtifact \union {Absent, Torn}]
      BY DEF SInv, VersionFiles
<1>2. PICK r \in Runs : files' = files \/ Create(r) \/ Fill(r)
      BY DEF Next, Load, Ends, Amend, Confirm, Rewrite, Crash
<1>3. CASE Create(r)
      BY <1>1, <1>3 DEF Create, Stored
<1>4. CASE Fill(r)
  <2>1. files[run[r].draft.version] = Torn
        BY <1>4 DEF SInv, Writers, Fill
  <2> QED
    BY <1>1, <1>4, <2>1 DEF Fill, Stored
<1>5. CASE files' = files
      BY <1>5 DEF Stored
<1> QED
  BY <1>2, <1>3, <1>4, <1>5

\* A stored version never changes (store.ts: writeArtifact).
THEOREM StoreIsImmutable == Spec => VersionsAreImmutable
<1>1. SInv /\ [Next]_vars => [\A v \in Versions : Stored(v) => files'[v] = files[v]]_vars
      BY StoredStays
<1> QED
  BY <1>1, StoreInvariant, PTL DEF Spec, VersionsAreImmutable

\* Every lesson in a stored version was demonstrated (Learning.ts, Amendment.ts).
THEOREM StoreLessonsDemonstrated == Spec => []LessonsAreDemonstrated
<1>1. SInv => LessonsAreDemonstrated
      BY DEF SInv, VersionFiles, Sound, Coherent, LessonsAreDemonstrated
<1> QED
  BY <1>1, StoreInvariant, PTL

\* The refusals of Amendment.ts keep the references of a document: whatever is
\* learned, also when two steps read the same once they are codes, hangs together,
\* and parses where the code it goes by is one.
THEOREM StoreLearnedHangsTogether == Spec => []WhatIsLearnedHangsTogether
<1>1. SInv => WhatIsLearnedHangsTogether
  <2> DEFINE step(r) == Episode(r).step
  <2> SUFFICES ASSUME SInv, NEW r \in Runs, run[r].phase = "amending",
                      NEW answer \in Answers \union {None},
                      NEW b \in proposeAmendment(run[r].artifact, Episode(r), run[r].cut, answer)
               PROVE  /\ HangsTogether(b)
                      /\ \/ WellNamed(b)
                         \/ step(r) \in Selections /\ NoMatchCode[step(r)] \notin OutcomeCodes
                         \/ HumanCode[step(r)] \notin OutcomeCodes
      BY DEF WhatIsLearnedHangsTogether
  <2>1. Processes /\ Sound(run[r].artifact) /\ run[r].cut \in Versions
        BY DEF SInv, Processes, Holds, Run
  <2>2. Episode(r) \in Episodes
        BY <2>1, EpisodeInHand
  <2>3. Coherent(b)
        BY <2>1, <2>2, ProposalIsCoherent DEF Sound
  <2>4. \/ WellNamed(b)
        \/ step(r) \in Selections /\ NoMatchCode[step(r)] \notin OutcomeCodes
        \/ HumanCode[step(r)] \notin OutcomeCodes
        BY <2>1, <2>2, ProposalIsNamed
  <2> QED
    BY <2>3, <2>4 DEF Coherent
<1> QED
  BY <1>1, StoreInvariant, PTL

\* Every entry of an override was said yes to, and each step has one.
THEOREM StoreOverridesConfirmed == Spec => []OverridesAreConfirmed
<1>1. SInv => OverridesAreConfirmed
      BY DEF SInv, OverrideFile, Confirmed, OverridesAreConfirmed
<1> QED
  BY <1>1, StoreInvariant, PTL

\* An override applies to every stored version, for lessons leave the names alone.
THEOREM StoreOverridesApply == Spec => []OverridesStillApply
<1>1. SInv => OverridesStillApply
      BY DEF SInv, OverrideFile, VersionFiles, Sound, Coherent, Confirmed, Applies, OverridesStillApply
<1> QED
  BY <1>1, StoreInvariant, PTL

-----------------------------------------------------------------------------
(***************************************************************************)
(* The versions of a capability are one line, each with one lesson more    *)
(* than the one below, and what the newest says only tightens.  Both need  *)
(* that nobody chooses where to cut (AmendTo = {}): a run then writes just *)
(* above the version it loaded, and that version is still what it was.     *)
(*                                                                         *)
(* That there is a newest version is part of the invariant, not a fact     *)
(* about finite sets: the stored versions are closed downwards.            *)
(***************************************************************************)

Stops(a) == {h.step : h \in a.requiresHuman}

Unmatched(a) == {s \in Selections : a.onNoMatch[s] = "outcome"}

\* b is a with one lesson more, seen as Ratchet sees it: a stop, an answer to
\* "nothing matched", or an answer where none needs a person.
Tightens(a, b) ==
  \/ /\ \E s \in Steps \ Stops(a) : Stops(b) = Stops(a) \union {s}
     /\ Unmatched(b) = Unmatched(a) /\ b.orOutcome = a.orOutcome
  \/ /\ \E s \in Selections \ Unmatched(a) : Unmatched(b) = Unmatched(a) \union {s}
     /\ Stops(b) = Stops(a) /\ b.orOutcome = a.orOutcome
  \/ /\ \E s \in Steps \ Stops(a) : \E c \in Codes \ a.orOutcome[s] :
          b.orOutcome = [a.orOutcome EXCEPT ![s] = @ \union {c}]
     /\ Stops(b) = Stops(a) /\ Unmatched(b) = Unmatched(a)

OneLesson(a, b) == AddsOneLesson(a, b) /\ Tightens(a, b)

\* v is the version in force.
Newest(v) == Stored(v) /\ \A w \in (v + 1)..MaxVersion : ~Stored(w)

Line ==
  /\ Stored(0)
  /\ \E v \in Versions : Newest(v)
  /\ \A v \in Versions : Stored(v) =>
       /\ files[v].version = v
       /\ \A w \in 0..v : Stored(w)
       /\ v # 0 => AddsOneLesson(files[v - 1], files[v])

\* A process that runs will cut just above what it loaded, which is in files fs.
Above(p, fs) ==
  /\ p.artifact \in CapabilityArtifact /\ fs[p.artifact.version] = p.artifact
  /\ p.cut = p.artifact.version + 1
  /\ p.phase \in {"creating", "filling"} =>
       p.draft.version = p.cut /\ OneLesson(p.artifact, p.draft)

Writing == \A r \in Runs : run[r].phase # "idle" => Above(run[r], files)

LInv == Line /\ Writing

-----------------------------------------------------------------------------
(* One lesson                                                              *)

LEMMA StopsOfOneMore ==
  ASSUME NEW a, NEW b, NEW h, b.requiresHuman = a.requiresHuman \union {h}
  PROVE  Stops(b) = Stops(a) \union {h.step}
BY DEF Stops

LEMMA StopIsALesson ==
  ASSUME NEW a, Sound(a), NEW e \in Episodes, NEW version \in Versions,
         NEW b \in declareRequiresHuman(a, e, version)
  PROVE  OneLesson(a, b)
<1> DEFINE h == [code |-> HumanCode[e.step], step |-> e.step, from |-> e]
<1>1. e.step \in Steps /\ h.step = e.step /\ a \in CapabilityArtifact
      BY EpisodesAssumption DEF InterventionRecord, Sound, Coherent
<1>2. /\ b = [a EXCEPT !.version = version, !.requiresHuman = @ \union {h}]
      /\ \A i \in a.requiresHuman : i.step # e.step
      BY DEF declareRequiresHuman
<1> HIDE DEF h
<1>3. /\ b.names = a.names /\ b.outcomes = a.outcomes /\ b.onNoMatch = a.onNoMatch
      /\ b.orOutcome = a.orOutcome /\ b.requiresHuman = a.requiresHuman \union {h}
      BY <1>1, <1>2 DEF CapabilityArtifact
<1>4. h \notin a.requiresHuman /\ e.step \notin Stops(a)
      BY <1>1, <1>2 DEF Stops
<1>5. AddsOneLesson(a, b)
      BY <1>3, <1>4 DEF AddsOneLesson
<1>6. Stops(b) = Stops(a) \union {e.step} /\ Unmatched(b) = Unmatched(a)
      BY <1>1, <1>3, StopsOfOneMore DEF Unmatched
<1> QED
  BY <1>1, <1>3, <1>4, <1>5, <1>6 DEF OneLesson, Tightens

LEMMA NoMatchIsALesson ==
  ASSUME NEW a, Sound(a), NEW e \in Episodes, NEW version \in Versions,
         e.step \in Selections, NEW b \in declareLearnedNoMatch(a, e, version)
  PROVE  OneLesson(a, b)
<1> DEFINE d == [code |-> NoMatchCode[e.step], from |-> e]
<1>1. a \in CapabilityArtifact /\ d.code = NoMatchCode[e.step]
      BY DEF Sound, Coherent
<1>2. /\ b = [a EXCEPT !.version = version, !.onNoMatch[e.step] = "outcome",
                !.outcomes = @ \union {d}]
      /\ a.onNoMatch[e.step] = "escalate"
      /\ NoMatchCode[e.step] \notin declared(a)
      BY DEF declareLearnedNoMatch, classificationOf
<1> HIDE DEF d
<1>3. /\ b.names = a.names /\ b.requiresHuman = a.requiresHuman
      /\ b.orOutcome = a.orOutcome /\ b.outcomes = a.outcomes \union {d}
      /\ b.onNoMatch = [a.onNoMatch EXCEPT ![e.step] = "outcome"]
      BY <1>1, <1>2 DEF CapabilityArtifact
<1>4. d \notin a.outcomes
      BY <1>1, <1>2 DEF declared
<1>5. /\ b.onNoMatch[e.step] = "outcome"
      /\ \A s \in Selections \ {e.step} : b.onNoMatch[s] = a.onNoMatch[s]
      BY <1>1, <1>3 DEF CapabilityArtifact
<1>6. AddsOneLesson(a, b)
      BY <1>3, <1>4, <1>5 DEF AddsOneLesson
<1>7. /\ e.step \notin Unmatched(a)
      /\ Unmatched(b) = Unmatched(a) \union {e.step}
      /\ Stops(b) = Stops(a)
      BY <1>2, <1>3, <1>5 DEF Unmatched, Stops
<1> QED
  BY <1>3, <1>6, <1>7 DEF OneLesson, Tightens

LEMMA AnswerIsALesson ==
  ASSUME NEW a, Sound(a), NEW e \in Episodes, NEW version \in Versions,
         NEW code \in Codes, NEW b \in declareCheckpointOutcome(a, e, version, code)
  PROVE  OneLesson(a, b)
<1> DEFINE d == [code |-> code, from |-> e]
<1>1. /\ e.step \in Steps /\ d.code = code
      /\ a \in CapabilityArtifact /\ declared(a) = reachable(a)
      BY EpisodesAssumption DEF InterventionRecord, Sound, Coherent, HangsTogether
<1>2. /\ b = [a EXCEPT !.version = version, !.orOutcome[e.step] = @ \union {code},
                !.outcomes = @ \union {d}]
      /\ code \notin declared(a)
      /\ \A h \in a.requiresHuman : h.step # e.step
      BY DEF declareCheckpointOutcome, classificationOf
<1> HIDE DEF d
<1>3. /\ b.names = a.names /\ b.requiresHuman = a.requiresHuman
      /\ b.onNoMatch = a.onNoMatch /\ b.outcomes = a.outcomes \union {d}
      /\ b.orOutcome = [a.orOutcome EXCEPT ![e.step] = @ \union {code}]
      BY <1>1, <1>2 DEF CapabilityArtifact
<1>4. d \notin a.outcomes
      BY <1>1, <1>2 DEF declared
<1>5. \A s \in Steps : a.orOutcome[s] \subseteq b.orOutcome[s]
      BY <1>1, <1>3 DEF CapabilityArtifact
<1>6. AddsOneLesson(a, b)
      BY <1>3, <1>4, <1>5 DEF AddsOneLesson
<1>7. code \notin a.orOutcome[e.step]
      BY <1>1, <1>2 DEF reachable
<1>8. e.step \notin Stops(a) /\ Stops(b) = Stops(a) /\ Unmatched(b) = Unmatched(a)
      BY <1>2, <1>3 DEF Stops, Unmatched
<1> QED
  BY <1>1, <1>3, <1>6, <1>7, <1>8 DEF OneLesson, Tightens

LEMMA ProposalIsOneLesson ==
  ASSUME NEW a, Sound(a), NEW e \in Episodes, NEW version \in Versions,
         NEW answer \in Answers \union {None},
         NEW b \in proposeAmendment(a, e, version, answer)
  PROVE  OneLesson(a, b)
<1>1. \/ b \in declareRequiresHuman(a, e, version)
      \/ answer # None /\ b \in declareCheckpointOutcome(a, e, version, answer)
      \/ e.step \in Selections /\ b \in declareLearnedNoMatch(a, e, version)
      BY DEF proposeAmendment
<1>2. answer # None => answer \in Codes
      BY StepsAssumption
<1> QED
  BY <1>1, <1>2, StopIsALesson, NoMatchIsALesson, AnswerIsALesson

-----------------------------------------------------------------------------
(* The line of versions                                                    *)

\* What a process stands on stays, for no stored version is touched.
LEMMA AboveStays ==
  ASSUME SInv, Next, NEW p, Above(p, files)
  PROVE  Above(p, files')
<1>1. p.artifact.version \in Versions /\ files[p.artifact.version] = p.artifact
      BY DEF Above, CapabilityArtifact
<1>2. Stored(p.artifact.version)
      BY <1>1, SentinelAssumption DEF Above, Stored
<1>3. files'[p.artifact.version] = files[p.artifact.version]
      BY <1>1, <1>2, StoredStays
<1> QED
  BY <1>3 DEF Above

LEMMA OneWrites ==
  ASSUME SInv, Next, Writing, NEW r \in Runs, NEW p, run' = [run EXCEPT ![r] = p],
         p.phase # "idle" => Above(p, files)
  PROVE  Writing'
<1>1. \A s \in Runs : run'[s] = IF s = r THEN p ELSE run[s]
      BY DEF SInv, Processes
<1>2. \A s \in Runs : run'[s].phase # "idle" => Above(run'[s], files)
      BY <1>1 DEF Writing
<1>3. \A s \in Runs : run'[s].phase # "idle" => Above(run'[s], files')
      BY <1>2, AboveStays
<1> QED
  BY <1>3 DEF Writing

\* A process that goes on with the version it loaded, and no other draft.
LEMMA StaysAbove ==
  ASSUME SInv, Next, Writing, NEW r \in Runs, run[r].phase # "idle",
         NEW p, run' = [run EXCEPT ![r] = p],
         p.phase # "idle" =>
           /\ p.artifact = run[r].artifact /\ p.cut = run[r].cut
           /\ p.phase \in {"creating", "filling"} =>
                p.draft = run[r].draft /\ run[r].phase \in {"creating", "filling"}
  PROVE  Writing'
<1>1. p.phase # "idle" => Above(p, files)
      BY DEF Writing, Above
<1> QED
  BY <1>1, OneWrites

\* After an episode a process keeps what it loaded and where it would cut.
LEMMA AfterStands ==
  ASSUME Processes, NEW r \in Runs, After(r) # Idle
  PROVE  /\ After(r) \in Run /\ After(r).artifact = run[r].artifact
         /\ After(r).cut = run[r].cut /\ After(r).phase \in {"amending", "confirming"}
<1>1. run[r] \in Run
      BY DEF Processes
<1>2. PICK n \in Nat, phase \in {"amending", "confirming"} :
        After(r) = [run[r] EXCEPT !.next = n, !.draft = None, !.phase = phase]
  <2>1. CASE run[r].next < Len(run[r].episodes)
    <3> DEFINE phase == IF run[r].phase \in {"confirming", "rewriting"}
                        THEN "confirming" ELSE "amending"
    <3>1. After(r) = [run[r] EXCEPT !.next = run[r].next + 1, !.draft = None, !.phase = phase]
          BY <1>1, <2>1 DEF After, Run
    <3>2. run[r].next + 1 \in Nat
          BY <1>1 DEF Run
    <3> QED
      BY <3>1, <3>2
  <2>2. CASE ~(run[r].next < Len(run[r].episodes))
    <3>1. 1 \in Nat
          OBVIOUS
    <3> QED
      BY <2>2, <3>1, Zenon DEF After
  <2> QED
    BY <2>1, <2>2
<1> QED
  BY <1>1, <1>2 DEF Run, Phases

LEMMA GoOnStands ==
  ASSUME SInv, Next, Writing, NEW r \in Runs, run[r].phase # "idle", GoOn(r)
  PROVE  Writing'
<1>1. run' = [run EXCEPT ![r] = After(r)]
      BY DEF GoOn
<1>2. Processes /\ Idle.phase = "idle"
      BY DEF SInv, Idle
<1>3. After(r).phase # "idle" =>
        /\ After(r).artifact = run[r].artifact /\ After(r).cut = run[r].cut
        /\ After(r).phase \in {"amending", "confirming"}
      BY <1>2, AfterStands
<1> QED
  BY <1>1, <1>3, StaysAbove

-----------------------------------------------------------------------------
(* The processes                                                           *)

LEMMA LoadStands ==
  ASSUME AmendTo = {}, SInv, LInv, Next, NEW r \in Runs, NEW version \in Versions,
         NEW cut \in Versions, NEW tenant \in BOOLEAN, Load(r, version, cut, tenant)
  PROVE  Writing'
<1> DEFINE p == [Idle EXCEPT !.phase = "running", !.artifact = files[version],
                   !.cut = cut, !.tenant = tenant,
                   !.carried = IF tenant /\ override # Absent THEN override ELSE None]
<1>1. run' = [run EXCEPT ![r] = p] /\ Stored(version) /\ cut = version + 1
      BY DEF Load, Stored
<1>2. files[version] \in CapabilityArtifact /\ files[version].version = version
      BY <1>1 DEF SInv, VersionFiles, Sound, Coherent, LInv, Line
<1>3. p.phase = "running" /\ p.artifact = files[version] /\ p.cut = cut
      BY IdleHolds DEF Idle
<1> HIDE DEF p
<1>4. Above(p, files)
      BY <1>1, <1>2, <1>3 DEF Above
<1> QED
  BY <1>1, <1>4, OneWrites DEF LInv

LEMMA EndsStands ==
  ASSUME SInv, LInv, Next, NEW r \in Runs, NEW n \in 0..MaxEpisodes,
         NEW episodes \in [1..n -> Episodes], Ends(r, episodes)
  PROVE  Writing'
<1> DEFINE p == IF episodes = <<>> THEN Idle
                ELSE [run[r] EXCEPT !.phase = "amending", !.episodes = episodes]
<1>1. run' = [run EXCEPT ![r] = p] /\ run[r].phase = "running" /\ run[r] \in Run
      BY DEF Ends, SInv, Processes
<1>2. p.phase # "idle" =>
        /\ p.artifact = run[r].artifact /\ p.cut = run[r].cut
        /\ p.phase \notin {"creating", "filling"}
      BY <1>1 DEF Run, Idle
<1> HIDE DEF p
<1> QED
  BY <1>1, <1>2, StaysAbove DEF LInv

LEMMA AmendStands ==
  ASSUME SInv, LInv, Next, NEW r \in Runs, Amend(r)
  PROVE  Writing'
<1>1. run[r].phase = "amending" /\ Processes /\ Writing
      BY DEF Amend, SInv, LInv
<1>2. CASE GoOn(r)
      BY <1>1, <1>2, GoOnStands
<1>3. CASE run' = [run EXCEPT ![r] = Idle]
  <2>1. Idle.phase = "idle"
        BY DEF Idle
  <2> QED
    BY <1>3, <2>1, OneWrites DEF LInv
<1>4. CASE ~GoOn(r) /\ run' # [run EXCEPT ![r] = Idle]
  <2>1. PICK answer \in Answers \union {None} :
          \E b \in proposeAmendment(run[r].artifact, Episode(r), run[r].cut, answer) :
            run' = [run EXCEPT ![r].phase = "creating", ![r].draft = b]
        BY <1>4 DEF Amend
  <2>2. PICK b \in proposeAmendment(run[r].artifact, Episode(r), run[r].cut, answer) :
          run' = [run EXCEPT ![r].phase = "creating", ![r].draft = b]
        BY <2>1
  <2> DEFINE p == [run[r] EXCEPT !.phase = "creating", !.draft = b]
  <2>3. run[r] \in Run /\ Sound(run[r].artifact) /\ run[r].cut \in Versions
        BY <1>1 DEF Processes, Holds, Run
  <2>4. run' = [run EXCEPT ![r] = p]
        BY <1>1, <2>2 DEF Processes
  <2>5. b.version = run[r].cut /\ OneLesson(run[r].artifact, b)
        BY <1>1, <2>3, EpisodeInHand, ProposalIsCoherent, ProposalIsOneLesson DEF Sound
  <2>6. p.artifact = run[r].artifact /\ p.cut = run[r].cut /\ p.draft = b
        BY <2>3 DEF Run
  <2> HIDE DEF p
  <2>7. Above(p, files)
        BY <1>1, <2>5, <2>6 DEF Writing, Above
  <2> QED
    BY <1>1, <2>4, <2>7, OneWrites
<1> QED
  BY <1>2, <1>3, <1>4

LEMMA CreateStands ==
  ASSUME SInv, LInv, Next, NEW r \in Runs, Create(r)
  PROVE  Writing'
<1>1. run[r].phase = "creating" /\ run[r] \in Run /\ Processes /\ Writing
      BY DEF Create, SInv, Processes, LInv
<1>2. CASE GoOn(r)
      BY <1>1, <1>2, GoOnStands
<1>3. CASE ~GoOn(r)
  <2> DEFINE p == [run[r] EXCEPT !.phase = "filling"]
  <2>1. run' = [run EXCEPT ![r] = p]
        BY <1>1, <1>3 DEF Create, Processes
  <2>2. p.artifact = run[r].artifact /\ p.cut = run[r].cut /\ p.draft = run[r].draft
        BY <1>1 DEF Run
  <2> HIDE DEF p
  <2> QED
    BY <1>1, <2>1, <2>2, StaysAbove
<1> QED
  BY <1>2, <1>3

LEMMA ConfirmStands ==
  ASSUME SInv, LInv, Next, NEW r \in Runs, Confirm(r)
  PROVE  Writing'
<1>1. run[r].phase = "confirming" /\ run[r] \in Run /\ Processes /\ Writing
      BY DEF Confirm, SInv, Processes, LInv
<1>2. CASE GoOn(r)
      BY <1>1, <1>2, GoOnStands
<1>3. CASE ~GoOn(r)
  <2>1. PICK o : run' = [run EXCEPT ![r].phase = "rewriting", ![r].draft = o]
        BY <1>3 DEF Confirm
  <2> DEFINE p == [run[r] EXCEPT !.phase = "rewriting", !.draft = o]
  <2>2. run' = [run EXCEPT ![r] = p]
        BY <1>1, <2>1 DEF Processes
  <2>3. p.artifact = run[r].artifact /\ p.cut = run[r].cut /\ p.phase = "rewriting"
        BY <1>1 DEF Run
  <2> HIDE DEF p
  <2> QED
    BY <1>1, <2>2, <2>3, StaysAbove
<1> QED
  BY <1>2, <1>3

LEMMA RewriteStands ==
  ASSUME SInv, LInv, Next, NEW r \in Runs, Rewrite(r)
  PROVE  Writing'
<1>1. run[r].phase = "rewriting" /\ Processes /\ Writing
      BY DEF Rewrite, SInv, LInv
<1>2. CASE GoOn(r)
      BY <1>1, <1>2, GoOnStands
<1>3. CASE ~GoOn(r)
  <2> DEFINE p == IF After(r) = Idle THEN Idle ELSE [After(r) EXCEPT !.carried = run[r].draft]
  <2>1. run' = [run EXCEPT ![r] = p]
        BY <1>3 DEF Rewrite
  <2>2. CASE After(r) = Idle
    <3>1. p.phase = "idle"
          BY <2>2 DEF Idle
    <3> HIDE DEF p
    <3> QED
      BY <1>1, <2>1, <3>1, StaysAbove
  <2>3. CASE After(r) # Idle
    <3>1. /\ After(r) \in Run /\ After(r).artifact = run[r].artifact
          /\ After(r).cut = run[r].cut /\ After(r).phase \in {"amending", "confirming"}
          BY <1>1, <2>3, AfterStands
    <3>2. /\ p.artifact = run[r].artifact /\ p.cut = run[r].cut
          /\ p.phase \in {"amending", "confirming"}
          BY <2>3, <3>1 DEF Run
    <3> HIDE DEF p
    <3> QED
      BY <1>1, <2>1, <3>2, StaysAbove
  <2> QED
    BY <2>2, <2>3
<1> QED
  BY <1>2, <1>3

LEMMA CrashStands ==
  ASSUME SInv, LInv, Next, NEW r \in Runs, Crash(r)
  PROVE  Writing'
<1>1. run' = [run EXCEPT ![r] = Idle] /\ Idle.phase = "idle"
      BY DEF Crash, Idle
<1> QED
  BY <1>1, OneWrites DEF LInv

LEMMA StepStands ==
  ASSUME AmendTo = {}, SInv, LInv, Next
  PROVE  Writing'
<1>1. PICK r \in Runs :
        \/ \E version, cut \in Versions, tenant \in BOOLEAN : Load(r, version, cut, tenant)
        \/ \E n \in 0..MaxEpisodes : \E episodes \in [1..n -> Episodes] : Ends(r, episodes)
        \/ Amend(r) \/ Create(r) \/ Fill(r) \/ Confirm(r) \/ Rewrite(r) \/ Crash(r)
      BY DEF Next
<1>2. CASE \E version, cut \in Versions, tenant \in BOOLEAN : Load(r, version, cut, tenant)
      BY <1>2, LoadStands
<1>3. CASE \E n \in 0..MaxEpisodes : \E episodes \in [1..n -> Episodes] : Ends(r, episodes)
      BY <1>3, EndsStands
<1>4. CASE Fill(r)
      BY <1>4, GoOnStands DEF Fill, LInv
<1> QED
  BY <1>1, <1>2, <1>3, <1>4, AmendStands, CreateStands, ConfirmStands, RewriteStands,
     CrashStands

-----------------------------------------------------------------------------
(* The line of versions                                                    *)

\* A step stores nothing new ...
StoresNothing == \A v \in Versions : Stored(v)' <=> Stored(v)

\* ... or one version, just above a stored one, with one lesson more.
Stores(c) ==
  /\ c \in Versions /\ c - 1 \in Versions
  /\ Stored(c - 1) /\ ~Stored(c) /\ Stored(c)'
  /\ files'[c].version = c /\ OneLesson(files[c - 1], files'[c])
  /\ \A v \in Versions \ {c} : Stored(v)' <=> Stored(v)

LEMMA StepStores ==
  ASSUME SInv, LInv, Next
  PROVE  StoresNothing \/ \E c : Stores(c)
<1>1. files \in [Versions -> CapabilityArtifact \union {Absent, Torn}]
      BY DEF SInv, VersionFiles
<1>2. PICK r \in Runs : files' = files \/ Create(r) \/ Fill(r)
      BY DEF Next, Load, Ends, Amend, Confirm, Rewrite, Crash
<1>3. CASE files' = files
      BY <1>3 DEF StoresNothing, Stored
<1>4. CASE Create(r) /\ files' # files
      BY <1>1, <1>4 DEF Create, StoresNothing, Stored
<1>5. CASE Fill(r) /\ files' # files
  <2>0. PICK b, c : b = run[r].draft /\ c = b.version
        OBVIOUS
  <2>1. run[r].phase = "filling" /\ files' = [files EXCEPT ![c] = b]
        BY <1>5, <2>0 DEF Fill
  <2>2. b \in CapabilityArtifact /\ c \in Versions /\ files[c] = Torn
        BY <2>0, <2>1 DEF SInv, Processes, Holds, Sound, Coherent, CapabilityArtifact, Writers
  <2>3. Above(run[r], files)
        BY <2>1 DEF LInv, Writing
  <2>4. /\ run[r].artifact.version \in Versions /\ run[r].artifact.version = c - 1
        /\ files[c - 1] = run[r].artifact /\ OneLesson(run[r].artifact, b)
        BY <2>0, <2>1, <2>3 DEF Above, CapabilityArtifact, Versions
  <2>5. Stored(c - 1)
        BY <2>3, <2>4, SentinelAssumption DEF Above, Stored
  <2>6. ~Stored(c) /\ files'[c] = b /\ Stored(c)'
        BY <1>1, <2>1, <2>2, SentinelAssumption DEF Stored
  <2>7. \A v \in Versions \ {c} : files'[v] = files[v]
        BY <1>1, <2>1
  <2>8. \A v \in Versions \ {c} : Stored(v)' <=> Stored(v)
        BY <2>7 DEF Stored
  <2>9. Stores(c)
        BY <2>0, <2>2, <2>4, <2>5, <2>6, <2>8 DEF Stores
  <2> QED
    BY <2>9
<1> QED
  BY <1>2, <1>3, <1>4, <1>5

\* What is stored just above a stored version is stored above all of them.
LEMMA StoresOnTop ==
  ASSUME LInv, NEW c, Stores(c)
  PROVE  Newest(c - 1) /\ Newest(c)'
<1>1. \A w \in Versions : Stored(w) => w < c
  <2> SUFFICES ASSUME NEW w \in Versions, Stored(w), ~(w < c) PROVE FALSE
      OBVIOUS
  <2>1. c \in 0..w
        BY BoundsAssumption DEF Stores, Versions
  <2> QED
    BY <2>1 DEF Stores, LInv, Line
<1>2. c \in Versions /\ c - 1 \in Versions /\ Stored(c - 1) /\ Stored(c)'
      BY DEF Stores
<1>3. \A w \in c..MaxVersion : w \in Versions /\ ~(w < c)
      BY <1>2, BoundsAssumption DEF Versions
<1>4. \A w \in (c + 1)..MaxVersion : w \in Versions \ {c} /\ ~(w < c)
      BY <1>2, BoundsAssumption DEF Versions
<1>5. (c - 1) + 1 = c
      BY <1>2 DEF Versions
<1>6. Newest(c - 1)
      BY <1>1, <1>2, <1>3, <1>5 DEF Newest
<1>7. \A w \in (c + 1)..MaxVersion : ~Stored(w)'
      BY <1>1, <1>4 DEF Stores
<1> QED
  BY <1>2, <1>6, <1>7 DEF Newest

LEMMA LineGrows ==
  ASSUME SInv, LInv, Next
  PROVE  Line'
<1>1. CASE StoresNothing
  <2>1. \A v \in Versions : Stored(v) => files'[v] = files[v]
        BY StoredStays
  <2>2. PICK v \in Versions : Newest(v)
        BY DEF LInv, Line
  <2>3. Newest(v)'
        BY <1>1, <2>2, BoundsAssumption DEF Newest, StoresNothing, Versions
  <2>4. Stored(0)'
        BY <1>1, BoundsAssumption DEF LInv, Line, StoresNothing, Versions
  <2>5. ASSUME NEW u \in Versions, Stored(u)'
        PROVE  /\ files'[u].version = u /\ \A w \in 0..u : Stored(w)'
               /\ u # 0 => AddsOneLesson(files'[u - 1], files'[u])
    <3>1. /\ Stored(u) /\ files[u].version = u /\ \A w \in 0..u : Stored(w)
          /\ u # 0 => AddsOneLesson(files[u - 1], files[u])
          BY <1>1, <2>5 DEF LInv, Line, StoresNothing
    <3>2. /\ \A w \in 0..u : w \in Versions
          /\ u # 0 => u - 1 \in 0..u
          BY BoundsAssumption DEF Versions
    <3> QED
      BY <1>1, <2>1, <3>1, <3>2 DEF StoresNothing
  <2> QED
    BY <2>3, <2>4, <2>5 DEF Line
<1>2. CASE \E c : Stores(c)
  <2>1. PICK c : Stores(c)
        BY <1>2
  <2>2. c \in Versions /\ c - 1 \in Versions /\ Stored(c - 1) /\ c # 0
        BY <2>1 DEF Stores, Versions
  <2>3. \A v \in Versions : Stored(v) => files'[v] = files[v] /\ Stored(v)'
        BY StoredStays
  <2>4. Newest(c)'
        BY <2>1, StoresOnTop
  <2>5. Stored(0)'
        BY <2>3, BoundsAssumption DEF LInv, Line, Versions
  <2>6. ASSUME NEW u \in Versions, Stored(u)'
        PROVE  /\ files'[u].version = u /\ \A w \in 0..u : Stored(w)'
               /\ u # 0 => AddsOneLesson(files'[u - 1], files'[u])
    <3>1. CASE u = c
      <4>1. \A w \in 0..(c - 1) : w \in Versions /\ Stored(w)
            BY <2>2, BoundsAssumption DEF LInv, Line, Versions
      <4>2. \A w \in 0..u : w = c \/ w \in 0..(c - 1)
            BY <2>2, <3>1 DEF Versions
      <4>3. \A w \in 0..u : Stored(w)'
            BY <2>3, <2>6, <3>1, <4>1, <4>2
      <4> QED
        BY <2>1, <2>2, <2>3, <3>1, <4>3 DEF Stores, OneLesson
    <3>2. CASE u # c
      <4>1. /\ Stored(u) /\ files[u].version = u /\ \A w \in 0..u : Stored(w)
            /\ u # 0 => AddsOneLesson(files[u - 1], files[u])
            BY <2>1, <2>6, <3>2 DEF LInv, Line, Stores
      <4>2. /\ \A w \in 0..u : w \in Versions
            /\ u # 0 => u - 1 \in 0..u
            BY BoundsAssumption DEF Versions
      <4> QED
        BY <2>3, <4>1, <4>2
    <3> QED
      BY <3>1, <3>2
  <2> QED
    BY <2>2, <2>4, <2>5, <2>6 DEF Line
<1> QED
  BY <1>1, <1>2, StepStores

LEMMA InitLines == Init => LInv
<1> SUFFICES ASSUME Init PROVE LInv
    OBVIOUS
<1>1. 0 \in Versions /\ \A v \in Versions : files[v] = IF v = 0 THEN First ELSE Absent
      BY BoundsAssumption DEF Init, Versions
<1>2. \A v \in Versions : Stored(v) <=> v = 0
      BY <1>1, FirstAssumption, SentinelAssumption DEF Stored
<1>3. Newest(0)
      BY <1>1, <1>2, BoundsAssumption DEF Newest, Versions
<1>4. Line
      BY <1>1, <1>2, <1>3, FirstAssumption DEF Line
<1>5. Writing
      BY DEF Init, Idle, Writing
<1> QED
  BY <1>4, <1>5 DEF LInv

-----------------------------------------------------------------------------
(* The version in force                                                    *)

LEMMA InForceIsNewest ==
  ASSUME NEW v \in Versions, Newest(v)
  PROVE  InForce = v
<1>1. \A w \in Versions : Newest(w) => w = v
      BY BoundsAssumption DEF Newest, Versions
<1>2. InForce = CHOOSE w \in Versions : Newest(w)
      BY DEF InForce, Newest
<1> QED
  BY <1>1, <1>2

LEMMA InForceIsNewestNext ==
  ASSUME NEW v \in Versions, Newest(v)'
  PROVE  InForce' = v
<1>1. \A w \in Versions : Newest(w)' => w = v
      BY BoundsAssumption DEF Newest, Versions
<1>2. InForce' = CHOOSE w \in Versions : Newest(w)'
      BY DEF InForce, Newest
<1> QED
  BY <1>1, <1>2

LEMMA InitImplements == Init => Promise!RatchetInit
<1> SUFFICES ASSUME Init PROVE Promise!RatchetInit
    OBVIOUS
<1>1. 0 \in Versions /\ files[0] = First /\ Stored(0)
      BY BoundsAssumption, FirstAssumption, SentinelAssumption DEF Init, Versions, Stored
<1>2. Newest(0)
      BY <1>1, BoundsAssumption DEF Newest, Stored, Init, Versions
<1>3. files[InForce] = First /\ First \in CapabilityArtifact
      BY <1>1, <1>2, InForceIsNewest, FirstAssumption
<1>4. human \subseteq Steps /\ unmatched \subseteq Steps /\ answers \in [Steps -> SUBSET Codes]
      BY <1>3, StepsAssumption DEF human, unmatched, answers, CapabilityArtifact
<1> QED
  BY <1>4 DEF Promise!RatchetInit

\* A version that is stored is a step of Ratchet; nothing else moves it.
LEMMA StepImplements ==
  ASSUME SInv, LInv, Next
  PROVE  [Promise!RatchetNext]_(Promise!ratchetVars)
<1>1. CASE StoresNothing
  <2>1. PICK v \in Versions : Newest(v)
        BY DEF LInv, Line
  <2>2. Newest(v)'
        BY <1>1, <2>1, BoundsAssumption DEF Newest, StoresNothing, Versions
  <2>3. files'[v] = files[v]
        BY <2>1, StoredStays DEF Newest
  <2>4. files'[InForce'] = files[InForce]
        BY <2>1, <2>2, <2>3, InForceIsNewest, InForceIsNewestNext
  <2> QED
    BY <2>4 DEF human, unmatched, answers, Promise!ratchetVars
<1>2. CASE \E c : Stores(c)
  <2>1. PICK c : Stores(c)
        BY <1>2
  <2> DEFINE a == files[c - 1]
             b == files'[c]
  <2>2. InForce = c - 1 /\ InForce' = c
        BY <2>1, StoresOnTop, InForceIsNewest, InForceIsNewestNext DEF Stores
  <2>3. Tightens(a, b) /\ a \in CapabilityArtifact
        BY <2>1 DEF Stores, OneLesson, SInv, VersionFiles, Sound, Coherent
  <2>4. /\ human = Stops(a) /\ unmatched = Unmatched(a) /\ answers = a.orOutcome
        /\ human' = Stops(b) /\ unmatched' = Unmatched(b) /\ answers' = b.orOutcome
        BY <2>2 DEF human, unmatched, answers, Stops, Unmatched
  <2>5. answers \in [Steps -> SUBSET Codes] /\ unmatched \subseteq Steps
        BY <2>3, <2>4, StepsAssumption DEF CapabilityArtifact, Unmatched
  <2> HIDE DEF a, b
  <2>6. CASE /\ \E s \in Steps \ human : human' = human \union {s}
             /\ unmatched' = unmatched /\ answers' = answers
        BY <2>6 DEF Promise!RatchetNext, Promise!StopHere, Promise!ratchetVars
  <2>7. CASE /\ \E s \in Selections \ unmatched : unmatched' = unmatched \union {s}
             /\ human' = human /\ answers' = answers
        BY <2>7, StepsAssumption
           DEF Promise!RatchetNext, Promise!NothingMatches, Promise!ratchetVars
  <2>8. CASE /\ \E s \in Steps \ human : \E k \in Codes \ answers[s] :
                  answers' = [answers EXCEPT ![s] = @ \union {k}]
             /\ human' = human /\ unmatched' = unmatched
        BY <2>5, <2>8 DEF Promise!RatchetNext, Promise!Answer, Promise!ratchetVars
  <2> QED
    BY <2>3, <2>4, <2>6, <2>7, <2>8 DEF Tightens
<1> QED
  BY <1>1, <1>2, StepStores

-----------------------------------------------------------------------------
(* Theorems                                                                *)

\* The versions stay a line, and every process that runs stands on it.
THEOREM LineInvariant ==
  ASSUME AmendTo = {}
  PROVE  Spec => [](SInv /\ LInv)
<1>1. SInv /\ LInv /\ [Next]_vars => LInv'
  <2> SUFFICES ASSUME SInv, LInv, [Next]_vars PROVE LInv'
      OBVIOUS
  <2>1. CASE UNCHANGED vars
        BY <2>1 DEF vars, LInv, Line, Writing, Above, Newest, Stored
  <2>2. CASE Next
        BY <2>2, LineGrows, StepStands DEF LInv
  <2> QED
    BY <2>1, <2>2
<1> QED
  BY <1>1, InitLines, StoreInvariant, PTL DEF Spec

\* However many runs amend at once, each version is the one below it and one
\* lesson more: two that learned at the same version are not both stored.
THEOREM LineOfVersions ==
  ASSUME AmendTo = {}
  PROVE  Spec => []EachVersionAddsOneLesson
<1>1. LInv => EachVersionAddsOneLesson
  <2> SUFFICES ASSUME LInv, NEW v \in Versions \ {0}, Stored(v)
               PROVE  Stored(v - 1) /\ AddsOneLesson(files[v - 1], files[v])
      BY DEF EachVersionAddsOneLesson
  <2>1. v - 1 \in 0..v
        BY BoundsAssumption DEF Versions
  <2> QED
    BY <2>1 DEF LInv, Line
<1> QED
  BY <1>1, LineInvariant, PTL

\* What the newest version says only tightens: the versions on disk implement
\* Ratchet, whoever teaches and in whatever order (Amendment.ts).
THEOREM StoreImplementsRatchet ==
  ASSUME AmendTo = {}
  PROVE  Spec => ImplementsRatchet
<1>1. SInv /\ LInv /\ [Next]_vars => [Promise!RatchetNext]_(Promise!ratchetVars)
  <2> SUFFICES ASSUME SInv, LInv, UNCHANGED vars
               PROVE  [Promise!RatchetNext]_(Promise!ratchetVars)
      BY StepImplements
  <2> QED
    BY DEF vars, Promise!ratchetVars, human, unmatched, answers, InForce, Stored
<1> QED
  BY <1>1, InitImplements, LineInvariant, PTL
     DEF Spec, ImplementsRatchet, Promise!RatchetSpec
=============================================================================
