CONSTANTS
  Core = Core
  Else = Else
  Member = Member
  None = None
  Unwritten = Unwritten
  AnyPort = AnyPort
  Blank <- MCBlank
  Data <- MCData
  StartUrl <- MCStart
  Addresses <- MCAddresses
  Patterns <- MCPatterns
  ActionTimeout = 1
  Deadlines = {2}
  Rounds = 2
  MaxCalls = 2
  MaxMoves = 1
SPECIFICATION Spec
CHECK_DEADLOCK FALSE
INVARIANTS
  NothingStillArriving
PROPERTIES
  InputsLandOnListedPages
  RefusalIsFinal
  NothingAnswersLate
  EveryCallAnswers
