SPECIFICATION Spec
CONSTANTS
  Deployments <- AllDeployments
  UnitSecs <- Seconds
  Normal <- Spellings
  MaxRateCount = 5
  NanosPerSec = 2
  Milli = 4
  WordMod = 1024
  StaleNanos = 8
  StartTime = 10
INVARIANTS
  QuotaPerScope
  RefusedOnlyInScope
  RemainingHonest
  TlsInForce
CHECK_DEADLOCK FALSE
