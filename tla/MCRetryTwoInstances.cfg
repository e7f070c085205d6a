SPECIFICATION FairSpec
CONSTANTS
  r1 = r1
  r2 = r2
  r3 = r3
  i1 = i1
  i2 = i2
  Instances = {i1, i2}
  Requests = {r1, r2, r3}
  Of <- TwoInstances
  Abandonable = {r2}
  MaxRetries <- OneRetry
  BackoffBase = 1
  MaxBackoff = 1
  Jitter = FALSE
  CheckText = TRUE
  StateTTL = 2
  EvictInterval = 2
  MaxToolTime = 1
PROPERTIES
  AbandonedStateExpires
