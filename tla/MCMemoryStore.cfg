SPECIFICATION Spec
CONSTANTS
  c1 = c1
  c2 = c2
  Callers = {c1, c2}
  Keys <- FourKeys
  Limit <- Limits
  Window <- Windows
  Limiters <- FiveLimiters
  MaxTime <- Horizons
  NanosPerSec = 2
  Milli = 2
  WordMod = 1024
  StaleNanos = 7
  SweepInterval = 1
  StartTime = 10
SYMMETRY CallerSymmetry
INVARIANTS
  TypeOK
  StoreWindows
  TokenRate
PROPERTIES
  EvictionTransparent
  RetryHonest
  ImplementsPromise
