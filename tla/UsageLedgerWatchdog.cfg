SPECIFICATION FairSpec
CONSTANTS
  Users = {u1}
  Requests = {r1, r2}
  Keys = {k1, k2}
  Operations = {"division", "answer"}
  None = None
  SlotLimit = 1
  ModelLimit = 2
  GlobalLimit = 2
  GameLimit = 1
  LeaseTicks = 3
  AnswerTicks = 2
  Headroom = 1
  DayTicks = 3
  MaxWait = 1
  MaxTurns = 2
  MaxTime = 8
  LastReserve = 1
INVARIANTS
  AnswerFenceFixed
PROPERTIES
  TerminalIsFinal
  AnswerSucceedsInTime
  EveryRequestEnds
