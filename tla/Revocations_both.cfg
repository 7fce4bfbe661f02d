CONSTANTS
  Targets = {x1, x2}
  NoTarget = none
  MaxTime = 4
SPECIFICATION Spec
CHECK_DEADLOCK FALSE
INVARIANTS RevocationSeen
