CONSTANTS
  Baskets = {1, 2}
  MaxSandboxes = 1
  MaxProbes = 2
SPECIFICATION HeldSpec
CHECK_DEADLOCK FALSE
INVARIANTS
  ReleasedIsThisOne
