SPECIFICATION Spec
CONSTANTS
  Users = {u1, u2}
  Requests = {r1, r2}
  Keys = {k1, k2}
  Operations = {"division", "portia"}
  None = None
  SlotLimit = 2
  ModelLimit = 2
  GlobalLimit = 2
  GameLimit = 1
  LeaseTicks = 2
  AnswerTicks = 1
  Headroom = 1
  DayTicks = 2
  MaxWait = 1
  MaxTurns = 1
  MaxTime = 3
  LastReserve = 3
SYMMETRY Symmetry
INVARIANTS
  TypeOK
  SlotsMatchWork
  DeletionLeavesNothing
  BooksBalance
  NothingPaidTwice
PROPERTIES
  ImplementsModelCalls
