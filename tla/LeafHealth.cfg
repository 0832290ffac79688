SPECIFICATION FairSpec
CONSTANTS
  Leaves = {s1, s2, d1}
  Startup = {s1, s2}
  Enabled = {s1, d1}
  FailureThreshold = 2
  Base = 1
  Multiplier = 2
  MAX_BACKOFF = 3
  MaxFailures = 5
INVARIANTS IInv OutIffDown
PROPERTIES ImplementsBreaker BackoffOnlyWhenOut HealthConverges RecoveryRefreshes
