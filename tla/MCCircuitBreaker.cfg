SPECIFICATION Spec
CONSTANTS
  x = x
  y = y
  m1 = m1
  m2 = m2
  r1 = r1
  r2 = r2
  Keys <- CodeKeys
  Requests = {r1, r2}
  None = None
  TargetAppRejects = 2
  TargetEmptyCodes = 1
  TargetCooldown = 2
  TargetWindow = 2
  SessionDistinct = 2
  SessionWindow = 3
  SessionCooldown = 3
  MaxTargets = 1
  IdleAge = 3
  MaxLag = 1
  MaxTime = 6
SYMMETRY RequestSymmetry
INVARIANTS
  TypeOK
PROPERTIES
  SessionHolds
  LockoutJustified
  LockoutNotMissed
