CONSTANTS
  None = None
  MaxTasks = 3
  DefaultMaxAttempts = 1
  Profiles <- UrgentOnly
  Observations <- Calm
  StoreFaults = FALSE
  CycleFaults = FALSE
  Crashes = FALSE
  MaxConsecutiveFailures = 2
  MaxTime = 1
  MaxEpochs = 1
SPECIFICATION Spec
CHECK_DEADLOCK FALSE
PROPERTY
  PlanningLeavesWork
