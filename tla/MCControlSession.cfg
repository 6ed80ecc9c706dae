SPECIFICATION FairSpec
CONSTANTS
  s1 = s1
  s2 = s2
  Sessions = {s1, s2}
  None = None
  MaxFailures = 1
CHECK_DEADLOCK FALSE
INVARIANTS
  NeverUnattended
  OrphansOnlyByHaste
  ActiveIsHeld
PROPERTIES
  ImplementsDeviceControl
  SessionSettles
