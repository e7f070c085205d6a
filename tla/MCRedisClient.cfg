SPECIFICATION FairSpec
CONSTANTS
  c1 = c1
  c2 = c2
  Callers = {c1, c2}
  Limit = 1
  MaxCalls = 3
  MaxFaults = 1
INVARIANTS
  CountedOnce
  FlushIsHarmless
  NeverGivenAgain
PROPERTIES
  EveryCallAnswered
CHECK_DEADLOCK FALSE
