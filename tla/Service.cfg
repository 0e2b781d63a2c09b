CONSTANTS
  None = None
  Kinds <- TaskKinds
  Files <- PluginFiles
  Devices = 2
  Units = 1
  HostFaults = TRUE
  StoreFaults = TRUE
  PluginFaults = TRUE
  MaxBacklog = 4
SPECIFICATION Spec
INVARIANTS
  TypeOK
  SavesFindTheStore
  EventsReachSubscribers
PROPERTIES
  ContractKept
  CleanEndIsComplete
  StopComesCloser
  NewsIsHeard
  SignalEndsProcess
  LoopGoesOn
