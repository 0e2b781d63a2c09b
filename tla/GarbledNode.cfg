CONSTANTS
  Conditions <- UpOrGarbled
  ReconnectBackoff = 2
  MaxBackoff = 3
  StoreFaults = FALSE
  PluginFaults = FALSE
  MaxBacklog = 1
SPECIFICATION Spec
CHECK_DEADLOCK FALSE
PROPERTY
  WorkGoesOnWithoutNode
