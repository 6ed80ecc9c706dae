SPECIFICATION FairSpec
CONSTANTS
  Uses <- Pipeline
  Children = {a1, a2}
  Policy <- Mixed
  Deferred = {}
  Disputed = FALSE
  Operations = {"pause", "cancel"}
  MaxControls = 1
  MaxFaults = 2
CHECK_DEADLOCK FALSE
INVARIANTS
  NothingForgotten
PROPERTIES
  RunSettles
  CancelEnds
