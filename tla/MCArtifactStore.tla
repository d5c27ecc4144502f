-------------------------- MODULE MCArtifactStore --------------------------
EXTENDS ArtifactStore, TLC

CONSTANTS Pick, Find, Open, Search, Lookup, OpenIt, N, H, P, Q, Ann, Bob

MCRuns == {Ann, Bob}

\* Processes are alike, and no property is about liveness.
Alike == Permutations(MCRuns)

MCSteps == {Pick, Find, Open}
MCSelections == {Pick}
MCNamed == {Find, Open}
MCNames == {Search, Lookup, OpenIt}
MCCodes == {N, H, P, Q}
MCOutcomeCodes == {N, H, P}
MCNoMatchCode == [s \in MCSelections |-> N]

\* The answer a caller may give is called like the state in which "find" stops; the
\* id of "pick" begins with a digit.
MCHumanCode == [s \in MCSteps |-> CASE s = Open -> P [] s = Find -> H [] OTHER -> Q]

MCFirst ==
  [version |-> 0,
   names |-> [s \in MCNamed |-> IF s = Find THEN Search ELSE OpenIt],
   onNoMatch |-> [s \in MCSelections |-> "escalate"],
   orOutcome |-> [s \in MCSteps |-> {}],
   outcomes |-> {},
   requiresHuman |-> {}]

\* The next-time question as answered, and a proposed control to confirm or not.
Closed(step, cause, classification, nextTime, touched, control, answer) ==
  [step |-> step, failureCause |-> cause, classification |-> classification,
   nextTime |-> nextTime, touched |-> touched, proposal |-> control,
   confirmProposal |-> answer, quotes |-> FALSE]

NothingMatched ==
  Closed(Pick, "no_matching_item", "unresolved", "automation_handles_it", FALSE,
         None, "not_asked")
Observed ==
  Closed(Open, "checkpoint_failed", "unresolved", "automation_handles_it", FALSE,
         Lookup, "not_asked")
Acted(s) ==
  Closed(s, "checkpoint_failed", "resolved", "always_stop_here", TRUE,
         Lookup, "confirmed")

MCEpisodes ==
  {NothingMatched, Observed, Acted(Find), Acted(Open), Acted(Pick),
   [Acted(Open) EXCEPT !.quotes = TRUE],
   [Acted(Find) EXCEPT !.classification = "blocked", !.confirmProposal = "rejected"]}
=============================================================================
