CONSTANTS
  None = None
  Layouts <- AnyLayout
  CommandFaults = TRUE
  Crashes = TRUE
  Requirements <- Some
  MaxRevisions = 3
SPECIFICATION Spec
INVARIANTS
  TypeOK
  FailureRestoresLink
PROPERTIES
  ProgramStaysStartable
  SwitchIsEarned
  LiveImplemented
  SoundRevisionGoesLive
