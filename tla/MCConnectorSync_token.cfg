SPECIFICATION FairSpec
CONSTANTS
  c1 = c1
  c2 = c2
  p1 = p1
  p2 = p2
  h1 = h1
  h2 = h2
  Connectors = {c1}
  Pollers = {p1}
  Handlers = {h1}
  None = None
  BatchSize = 2
  MaxToken = 2
  MaxVersion = 0
  MaxFaults = 1
  MaxCalls = 1
CHECK_DEADLOCK FALSE
PROPERTIES
  GoodTokenRecovers
