SPECIFICATION InteractionsSpec
CONSTANTS
  q1 = q1
  q2 = q2
  a1 = a1
  a2 = a2
  None = None
  Question <- MCQuestion
  Answer <- MCAnswer
  MaxCrashes = 2
INVARIANTS
  InteractionsInv
  EveryoneIsToldTheOutcome
PROPERTIES
  AskEnds
CHECK_DEADLOCK FALSE
