SPECIFICATION Spec
CONSTANTS
  c1 = c1
  c2 = c2
  p1 = p1
  p2 = p2
  Commands = {c1, c2}
  Pollers = {p1, p2}
  Created <- Creation
  Deadline <- Deadlines
  MaxTime = 3
  MaxLost = 1
SYMMETRY Loops
CONSTRAINT Races
CHECK_DEADLOCK FALSE
INVARIANTS
  OneVerdict
  RepeatedOnlyAfterLoss
PROPERTIES
  BindingStays
