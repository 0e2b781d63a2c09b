CONSTANTS
  Conditions <- AnyCondition
  ReconnectBackoff = 2
  MaxBackoff = 3
  StoreFaults = TRUE
  PluginFaults = TRUE
  MaxBacklog = 2
SPECIFICATION Spec
CHECK_DEADLOCK FALSE
INVARIANTS
  TypeOK
  AvailabilityWasAnnounced
  NewsArriveInOrder
  ConfirmedStopIsComplete
PROPERTIES
  EveryJobIsRun
  NodeComesBack
