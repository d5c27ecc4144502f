------------------------------ MODULE Ratchet ------------------------------
(***************************************************************************)
(* What a Capability promises about the lessons it takes on, whoever       *)
(* teaches it and in whatever order: the abstract specification that       *)
(* ArtifactStore implements.  Of the version in force it keeps only what   *)
(* decides whether a run may end without a person: the steps it is known   *)
(* to stop on, the steps at which "nothing matched" is an answer, and the  *)
(* answers a step's checkpoint may give.  Amendment.ts calls the rule the  *)
(* ratchet: it only tightens.                                              *)
(***************************************************************************)
CONSTANTS Steps, Codes

VARIABLES
  human,     \* the steps whose checkpoint is known to need a person
  unmatched, \* the steps at which "nothing matched" is an answer
  answers    \* the answers the checkpoint of each step may give

ratchetVars == <<human, unmatched, answers>>

RatchetInit ==
  /\ human \subseteq Steps
  /\ unmatched \subseteq Steps
  /\ answers \in [Steps -> SUBSET Codes]

\* declareRequiresHuman: once, and for good.
StopHere(s) ==
  /\ s \notin human
  /\ human' = human \union {s}
  /\ UNCHANGED <<unmatched, answers>>

\* declareCheckpointOutcome: never at a step that needs a person.
Answer(s, c) ==
  /\ s \notin human
  /\ c \notin answers[s]
  /\ answers' = [answers EXCEPT ![s] = @ \union {c}]
  /\ UNCHANGED <<human, unmatched>>

\* declareLearnedNoMatch.
NothingMatches(s) ==
  /\ s \notin unmatched
  /\ unmatched' = unmatched \union {s}
  /\ UNCHANGED <<human, answers>>

\* A lesson changes something: said first, it is all there is to look at in a
\* step that teaches nothing.
RatchetNext ==
  /\ ratchetVars' # ratchetVars
  /\ \E s \in Steps :
       \/ StopHere(s)
       \/ NothingMatches(s)
       \/ \E c \in Codes : Answer(s, c)

RatchetSpec == RatchetInit /\ [][RatchetNext]_ratchetVars
=============================================================================
