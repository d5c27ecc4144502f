CONSTANTS
  Pick = Pick
  Find = Find
  Open = Open
  Search = Search
  Lookup = Lookup
  OpenIt = OpenIt
  N = N
  H = H
  P = P
  Q = Q
  Ann = Ann
  Bob = Bob
  Authored = Authored
  Absent = Absent
  Torn = Torn
  None = None
  Runs <- MCRuns
  Steps <- MCSteps
  Selections <- MCSelections
  Named <- MCNamed
  Names <- MCNames
  Codes <- MCCodes
  OutcomeCodes <- MCOutcomeCodes
  NoMatchCode <- MCNoMatchCode
  HumanCode <- MCHumanCode
  First <- MCFirst
  Episodes <- MCEpisodes
  MaxVersion = 2
  MaxEpisodes = 1
  AmendTo = {}
  Answers = {H}
  WritesFail = TRUE
SPECIFICATION Spec
SYMMETRY Alike
INVARIANTS
  EachVersionAddsOneLesson
  WhatIsLearnedHangsTogether
  OverridesStillApply
PROPERTIES
  VersionsAreImmutable
  ImplementsRatchet
