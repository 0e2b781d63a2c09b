CONSTANTS
  None = None
  Layouts <- AsDocumented
  CommandFaults = FALSE
  Crashes = FALSE
  Requirements <- Some
  MaxRevisions = 2
SPECIFICATION Spec
INVARIANT
  FailureKeepsVersion
