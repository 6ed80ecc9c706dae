SPECIFICATION FairSpec
CONSTANTS
  i1 = i1
  i2 = i2
  e1 = e1
  e2 = e2
  e3 = e3
  Instances = {i1, i2}
  Epochs = {e1, e2, e3}
  None = None
  MaxStops = 1
INVARIANTS
  LeaseOutlivesSession
PROPERTIES
  StaleStops
  ClaimedAgain
