CONSTANTS
  None = None
  MaxTasks = 2
  DefaultMaxAttempts = 1
  Profiles <- UrgentOnly
  Observations <- AnyObservation
  StoreFaults = FALSE
  CycleFaults = TRUE
  Crashes = TRUE
  MaxConsecutiveFailures = 2
  MaxTime = 1
  MaxEpochs = 2
SPECIFICATION Spec
CHECK_DEADLOCK FALSE
INVARIANT
  PendingRowsAreQueued
