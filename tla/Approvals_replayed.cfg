CONSTANTS
  Sessions = {s1, s2}
  Intents = {i1}
  MaxItems = 1
SPECIFICATION ApprovalSpec
CHECK_DEADLOCK FALSE
INVARIANT SingleUse
