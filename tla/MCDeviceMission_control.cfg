SPECIFICATION Spec
CONSTANTS
  Uses <- TwoCommands
  Safe = {1}
  PausesOnFailure = {1}
  MaxRetries = 1
  Assets = {}
  MaxControls = 2
  MaxDead = 1
  MaxUnrecorded = 1
CHECK_DEADLOCK FALSE
INVARIANTS
  OperatorSawRun
  WorkIsKept
PROPERTIES
  RevokedStaysSilent
  UnsafeNotRepeated
