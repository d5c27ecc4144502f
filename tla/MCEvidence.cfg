CONSTANTS
  Writers = {w1, w2}
  RunIds = {r1}
  Absent = Absent
  Kinds = {"observe"}
  OtherKinds = {"shout"}
  Texts <- MCTexts
  Values <- MCValues
  GoalWords <- MCGoalWords
  MaxRecords = 2
  MaxValues = 2
SYMMETRY MCWriters
SPECIFICATION Spec
CHECK_DEADLOCK FALSE
INVARIANTS
  OneSessionInOrder
  LogAgreesWithAnswers
PROPERTIES
  NothingKnownIsQuoted
