CONSTANTS
  None = None
  MaxTasks = 3
  DefaultMaxAttempts = 1
  Profiles <- DelayedOrUrgent
  Observations <- Calm
  StoreFaults = FALSE
  CycleFaults = TRUE
  Crashes = FALSE
  MaxConsecutiveFailures = 2
  MaxTime = 1
  MaxEpochs = 2
SPECIFICATION Spec
CHECK_DEADLOCK FALSE
INVARIANTS
  TypeOK
  ExecutionsWithinBudget
  TermsAreKept
  RecurrenceContinues
  StopLeavesAgreement
  DependenciesRespected
PROPERTIES
  LifecycleImplemented
  
