SPECIFICATION Spec
CONSTANTS
  None = None
  d1 = d1
  c1 = c1
  c2 = c2
  v1 = v1
  Divisions <- OneDivision
  Remembering <- OneDivision
  Divides <- TwoDivides
  Polls <- OnePoll
  MaxFaults = 0
CHECK_DEADLOCK FALSE
INVARIANTS
  PaidDivisionSurvives
