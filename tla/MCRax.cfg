SPECIFICATION Spec
CONSTANTS
  MaxPid = 2
  Calls = {"getpid"}
  Faults = {}
INVARIANTS RaxKept
CHECK_DEADLOCK FALSE
