SPECIFICATION FairSpec
CONSTANTS
  o1 = o1
  o2 = o2
  w1 = w1
  w2 = w2
  c1 = c1
  r1 = r1
  OpenIDs = {o1}
  Workers = {w1}
  Clients = {c1}
  Routes = {r1}
  None = None
  KeepsMarker = TRUE
  KeptAlive = TRUE
  MaxScan = 2
  MaxSeq = 2
  MaxClicks = 1
PROPERTIES
  DeadTokenIsNoticed
CHECK_DEADLOCK FALSE
