SPECIFICATION MCSpec
CONSTANTS
  g1 = g1
  g2 = g2
  g3 = g3
  k1 = k1
  k2 = k2
  h1 = h1
  h2 = h2
  a1 = a1
  None = None
  Pass = Pass
  GameIds <- ThreeGames
  MoveKeys <- TwoKeys
  Handlers <- TwoHandlers
  Answers <- OneAnswer
  Results <- FinalPass
  DailyGames = 1
  MaxRevision = 4
CONSTRAINT Bounded
SYMMETRY Symmetry
CHECK_DEADLOCK FALSE
INVARIANTS
  GamesAreConsistent
  CountedOnce
  MovesAreSound
  PositionIsExact
  GameReplays
  SearchIsExact
PROPERTIES
  RetiredGamesFrozen
