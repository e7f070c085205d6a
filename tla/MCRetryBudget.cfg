SPECIFICATION FairSpec
CONSTANTS
  r1 = r1
  r2 = r2
  r3 = r3
  i1 = i1
  i2 = i2
  Instances = {i1}
  Requests = {r1, r2}
  Of <- OneInstance
  Abandonable = {r2}
  MaxRetries <- MixedBudgets
  BackoffBase = 1
  MaxBackoff = 3
  Jitter = FALSE
  CheckText = TRUE
  StateTTL = 5
  EvictInterval = 2
  MaxToolTime = 2
INVARIANTS
  RetryBudget
PROPERTIES
  BackoffFollowsRetries
  AbandonedStateExpires
