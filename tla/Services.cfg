SPECIFICATION MCSpec
CONSTANTS
  k1 = k1
  k2 = k2
  h1 = h1
  h2 = h2
  None = None
  Charlotte = Charlotte
  Elsewhere = Elsewhere
  Empty = Empty
  f1 = f1
  f2 = f2
  Game = Game
  Other = Other
  Upcoming = Upcoming
  GameIds <- ThreeGames
  Keys <- TwoKeys
  Routes <- TwoRoutes
  MaxRequests = 2
  MaxRevision = 9
  MaxCrashes = 1
  Suggestions = {Charlotte}
  Intents <- WilburIntents
  RowLimit = 5
  TextLimit = 2
  UserLimit = 2
  IpLimit = 1
SYMMETRY Symmetry
CHECK_DEADLOCK FALSE
INVARIANTS
  AnswersAreSound
  LedgerIsExact
  TurnsAreSpentOnce
  ResearchIsSettledOnce
  LaunchesAreClean
  SearchIsAttested
PROPERTIES
  NoCallAfterSuccess
