SPECIFICATION Spec
CONSTANTS
  user = user
  upstream = upstream
  k1 = k1
  k2 = k2
  None = None
  Schedulers = {s1, s2}
  Callers = {user, upstream}
  Source <- SourceOf
  Key <- KeyOf
  LastVersion = 3
  Kind <- Replanned
  Typed <- TypedOnes
  Cron <- Crons
  Limit <- Limits
  Minute = 2
  MaxClock = 5
  MaxChanges = 2
  MaxAborts = 1
SYMMETRY Symmetric
CHECK_DEADLOCK FALSE
INVARIANTS
  OneRunPerKey
  AuditIsTrue
PROPERTIES
  LimitHeld
  Accounted
  OnlyCurrentStarts
