CONSTANTS
  None = None
  MaxTasks = 2
  DefaultMaxAttempts = 1
  Profiles <- Everything
  Observations <- Calm
  StoreFaults = TRUE
  CycleFaults = TRUE
  Crashes = TRUE
  MaxConsecutiveFailures = 2
  MaxTime = 1
  MaxEpochs = 2
SPECIFICATION Spec
CHECK_DEADLOCK FALSE
INVARIANTS
  ReexecutionBounded
  VerdictIsBacked
  CompletedDidSucceed
PROPERTY
  ShutdownCompletes
