SPECIFICATION Spec
CONSTANTS
  None = None
  Root = Root
  k1 = k1
  k2 = k2
  k3 = k3
  k4 = k4
  h1 = h1
  h2 = h2
  f1 = f1
  f2 = f2
  f3 = f3
  Handlers <- TwoHandlers
  Keys <- FourKeys
  Fingerprints <- ThreeEcologies
  Reviews <- OnlyReplay
  MaxCrashes = 0
SYMMETRY Symmetry
INVARIANTS
  AtMostFourGames
CHECK_DEADLOCK FALSE
