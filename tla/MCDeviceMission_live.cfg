SPECIFICATION FairSpec
CONSTANTS
  Uses <- CollectCommand
  Safe = {2}
  PausesOnFailure = {2}
  MaxRetries = 1
  Assets = {a1}
  MaxControls = 1
  MaxDead = 0
  MaxUnrecorded = 0
CHECK_DEADLOCK FALSE
INVARIANTS
  CompletedByDevice
PROPERTIES
  SentSettles
  TimeoutReachesRun
  StopIsDispatched
