SPECIFICATION Spec
CONSTANTS
  h1 = h1
  h2 = h2
  k1 = k1
  k2 = k2
  s1 = s1
  None = None
  Handlers <- TwoHandlers
  Keys <- TwoKeys
  Suggestions <- OneSuggestion
  Intents <- OneOfEach
  RowLimit = 5
  TextLimit = 2
  UserLimit = 2
  IpLimit = 1
  MaxCrashes = 1
SYMMETRY Symmetry
CHECK_DEADLOCK FALSE
INVARIANTS
  EnvelopeHolds
