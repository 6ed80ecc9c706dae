SPECIFICATION FairSpec
CONSTANTS
  e1 = e1
  e2 = e2
  w1 = w1
  w2 = w2
  w3 = w3
  Events = {e1, e2}
  Workers = {w1, w2}
  Null = Null
  MaxAttempts = 3
  Batch = 2
  Handled <- OldAndNew
CHECK_DEADLOCK FALSE
INVARIANTS
  ExactlyOnce
  AttemptsAreSpent
  DeadHasNoEffect
PROPERTIES
  ImplementsDelivery
  Settles
