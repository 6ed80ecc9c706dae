SPECIFICATION FairSpec
CONSTANTS
  Uses <- TwoCommands
  Safe = {}
  PausesOnFailure = {}
  MaxRetries = 0
  Assets = {}
  MaxControls = 0
  MaxDead = 0
  MaxUnrecorded = 0
CHECK_DEADLOCK FALSE
PROPERTIES
  AckContinues
