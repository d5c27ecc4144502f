-------------------------- MODULE ControlOwnership ---------------------------
(***************************************************************************)
(* What a Session promises about who may act on it: the four Control Owner  *)
(* states of packages/session/src/Session.ts, the arrows between them, and  *)
(* what the run is told when it has the session back.  No screen, no        *)
(* evidence, no requests: Handoff is shown to implement this.               *)
(***************************************************************************)
EXTENDS Naturals

CONSTANT MaxEpisodes   \* bound: interventions one session may raise

VARIABLES
  owner,    \* who may act
  episode,  \* interventions raised so far
  answer,   \* what the person in the open episode answered, or "open"
  told      \* the last answer of pause

ownershipVars == <<owner, episode, answer, told>>

OwnershipInit ==
  /\ owner = "automation" /\ episode = 0 /\ answer = "open"
  /\ told = [episode |-> 0, result |-> "nothing"]

\* AUTOMATION -> PAUSED
Pause ==
  /\ owner = "automation" /\ episode < MaxEpisodes
  /\ owner' = "paused" /\ episode' = episode + 1
  /\ UNCHANGED <<answer, told>>

\* A pause that could not be recorded leaves the session where it was.
PauseUnwritable ==
  /\ owner = "automation"
  /\ told' = [episode |-> 0, result |-> "unwritable"]
  /\ UNCHANGED <<owner, episode, answer>>

\* PAUSED -> HUMAN
Take ==
  /\ owner = "paused" /\ owner' = "operator"
  /\ UNCHANGED <<episode, answer, told>>

\* HUMAN -> RESUME_REQUESTED
Return ==
  /\ owner = "operator" /\ owner' = "resume_requested"
  /\ answer' \in {"resolved", "unresolved"}
  /\ UNCHANGED <<episode, told>>

\* RESUME_REQUESTED -> AUTOMATION: the only way to go on past the pause, and
\* only on an answer that says so.
TakeBack ==
  /\ owner = "resume_requested" /\ owner' = "automation" /\ answer' = "open"
  /\ told' = [episode |-> episode,
              result |-> IF answer = "resolved" THEN "resumed" ELSE "stopped"]
  /\ UNCHANGED episode

\* The wait is over before anybody has returned control.
GiveUp ==
  /\ owner \in {"paused", "operator"} /\ owner' = "automation" /\ answer' = "open"
  /\ \E result \in {"stopped", "unwritable"} :
       told' = [episode |-> episode, result |-> result]
  /\ UNCHANGED episode

OwnershipNext == Pause \/ PauseUnwritable \/ Take \/ Return \/ TakeBack \/ GiveUp

OwnershipSpec == OwnershipInit /\ [][OwnershipNext]_ownershipVars
=============================================================================
