SPECIFICATION MCSpec
CONSTANTS
  None = None
  Origin = Origin
  Retrier = Retrier
  d1 = d1
  c1 = c1
  c2 = c2
  v1 = v1
  k1 = k1
  k2 = k2
  k3 = k3
  k4 = k4
  f1 = f1
  f2 = f2
  f3 = f3
  KeyOrder <- FourKeys
  EcologyOrder <- ThreeEcologies
  MaxAsks = 3
  Workers = {w1, w2}
  MaxKeys = 4
  MaxLosses = 2
  MaxPlies = 1
  MaxReads = 1
  Callers = {r1, r2}
  Turns = {t1}
  Kinds = {"status", "model", "search"}
  Drifting = {"account"}
  MaxSlots = 2
  MaxRecords = 1
  q1 = q1
  q2 = q2
  q3 = q3
  CaseOrder <- ThreeRequests
  LastPly = 2
  FailureLimit = 2
  SourceLimit = 2
  FetchLimit = 1
  MaxAnswers = 1
  MaxNotes = 1
  Divisions <- OneDivision
  Remembering <- OneDivision
  Divides <- TwoDivides
  Polls <- OnePoll
  MaxFaults = 1
CHECK_DEADLOCK FALSE
INVARIANTS
  DivisionsAreAccounted
  LineageIsSound
  EngineAnswersOnce
  ClientIsCareful
  BridgeAccounts
  CasesVerify
PROPERTIES
  OnlyDuplicatesAbandon
  DividingEnds
  StopsOnlyExhausted
  NoTurnOverlapsCancelled
