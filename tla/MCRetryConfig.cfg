SPECIFICATION Spec
CONSTANTS
  Absent = Absent
  Retries <- RetryValues
  Bases <- BaseValues
  Backoffs <- BackoffValues
  Ceilings <- CeilingValues
  MaxPlugins = 2
INVARIANTS
  StatedBudgetClamped
CHECK_DEADLOCK FALSE
