SPECIFICATION FairSpec
CONSTANTS
  k1 = k1
  k2 = k2
  h1 = h1
  h2 = h2
  None = None
  Game = Game
  Other = Other
  Upcoming = Upcoming
  GameIds <- ThreeGames
  Keys <- TwoKeys
  Routes <- TwoRoutes
  MaxRequests = 1
  MaxRevision = 9
  MaxCrashes = 1
CHECK_DEADLOCK FALSE
PROPERTIES
  PaidAnswersAttached
