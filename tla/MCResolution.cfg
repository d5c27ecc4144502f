CONSTANTS
  A = A
  B = B
  V = V
  Absent = Absent
  Words <- MCWords
  MaxTurns = 3
  Screens <- MCScreens
  Targets <- MCTargets
  Requests <- MCRequests
SPECIFICATION Spec
CHECK_DEADLOCK FALSE
INVARIANTS
  NothingIsGuessed
PROPERTIES
  PositionIsTheCandidate
  AdviceGetsFurther
  PressLandsOnTheItem
