CONSTANTS
  NoScreen = NoScreen
  MaxEpisodes = 2
  Screens = {Search, Detail}
  Names = {Balance, Holder}
  Controls = {Cell, Heading}
  Bounds <- MCBounds
SPECIFICATION FairSpec
INVARIANTS
  StopsForItsReason
  NothingGoesUnnoticed
  ClaimIsBacked
PROPERTIES
  NothingAfterTheDeadline
  DiscoveryEnds
