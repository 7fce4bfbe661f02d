CONSTANTS
  Refs = {1, 2}
  Unknown = 9
  MaxCalls = 4
SPECIFICATION Spec
CHECK_DEADLOCK FALSE
INVARIANT CardOpens
