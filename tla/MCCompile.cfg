CONSTANTS
  Goal <- MCGoal
  PublicTerms <- MCPublicTerms
  Lower <- MCLower
  Entry <- MCEntry
  Proposals <- MCProposals
  Endings <- MCEndings
  Labels <- MCLabels
  Reads <- MCReads
  TypedByHand <- MCTypedByHand
  Absent = Absent
  Refused = Refused
  MaxTurns = 3
SPECIFICATION CompileSpec
CHECK_DEADLOCK FALSE
INVARIANTS
  NothingOfTheRunIsStored
  CheckpointsSpeakOfWhatFollows
  PlainStepsAreWhatTheRunDid
