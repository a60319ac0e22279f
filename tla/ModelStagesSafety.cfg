SPECIFICATION Spec
CONSTANTS
  None = None
  r1 = r1
  r2 = r2
  r3 = r3
  r4 = r4
  h1 = h1
  h2 = h2
  Handlers <- TwoHandlers
  Requests <- FourRequests
  Survivors = 2
  FailureLimit = 2
  Replays = 0
  Regenerations = 1
  Reviews <- AnyReview
  MaxCrashes = 1
SYMMETRY Symmetry
CHECK_DEADLOCK FALSE
INVARIANTS
  AttemptsAreCounted
  ResultsAreSound
PROPERTIES
  DraftsOnlyGrow
