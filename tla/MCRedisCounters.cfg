SPECIFICATION Spec
CONSTANTS
  r1 = r1
  r2 = r2
  Replicas = {r1, r2}
  Deployments <- FourDeployments
  TicksPerSec = 2
  Limit = 2
  Window = 3
  StartTime = 10
  MaxCalls <- CallBounds
  MaxTime <- Horizons
INVARIANTS
  ClusterWindows
  ClusterTokenRate
PROPERTIES
  RetryWorks
  ImplementsPromise
CHECK_DEADLOCK FALSE
