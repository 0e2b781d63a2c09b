CONSTANTS
  None = None
  MaxTasks = 1
  DefaultMaxAttempts = 1
  Profiles <- PlainOnly
  Observations <- Calm
  StoreFaults = FALSE
  CycleFaults = FALSE
  Crashes = TRUE
  MaxConsecutiveFailures = 2
  MaxTime = 0
  MaxEpochs = 2
SPECIFICATION Spec
CHECK_DEADLOCK FALSE
PROPERTY
  CrashIsRecovered
