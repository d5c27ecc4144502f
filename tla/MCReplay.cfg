CONSTANTS
  Filed = Filed
  NoAccount = NoAccount
  Approval = Approval
  Today = Today
  Yesterday = Yesterday
  Nothing = Nothing
  MaxEpisodes = 5
  Capabilities <- MCCapabilities
  Codes <- MCCodes
  Values <- MCValues
SPECIFICATION FairSpec
INVARIANTS
  SuccessIsEarned
  StepsInOrder
  BudgetsHold
  RiskyStepsLandOnce
PROPERTIES
  RunsEnd
