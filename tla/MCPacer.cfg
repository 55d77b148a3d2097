SPECIFICATION Spec
CONSTANTS
  a1 = a1
  a2 = a2
  p1 = p1
  p2 = p2
  p3 = p3
  Accounts = {a1, a2}
  Callers = {p1, p2, p3}
  None = None
  Settings <- Tuned
  MaxPaced = 1
  SummaryEvery = 1
  MaxLag = 1
  MaxTime = 5
SYMMETRY PacerSymmetry
INVARIANTS
  TypeOK
  QueueShort
PROPERTIES
  SlotsSpaced
  TrackedSlotsExact
