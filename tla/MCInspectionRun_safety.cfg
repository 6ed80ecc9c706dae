SPECIFICATION Spec
CONSTANTS
  Uses <- Pipeline
  Children = {a1, a2}
  Policy <- Mixed
  Deferred = {"waiting_callback"}
  Disputed = TRUE
  Operations = {"pause", "resume", "cancel", "emergency_stop"}
  MaxControls = 2
  MaxFaults = 1
CHECK_DEADLOCK FALSE
SYMMETRY Symmetric
INVARIANTS
  EvidenceIsComplete
  IssuesAreDecided
  ReviewBlocks
  LastCallCounts
PROPERTIES
  LateResultsAreIdle
