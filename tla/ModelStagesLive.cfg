SPECIFICATION FairSpec
CONSTANTS
  None = None
  r1 = r1
  r2 = r2
  r3 = r3
  r4 = r4
  h1 = h1
  h2 = h2
  Handlers <- TwoHandlers
  Requests <- TwoRequests
  Survivors = 1
  FailureLimit = 2
  Replays = 0
  Regenerations = 1
  Reviews <- AnyReview
  MaxCrashes = 1
CHECK_DEADLOCK FALSE
PROPERTIES
  StagesEnd
