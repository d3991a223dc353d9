SPECIFICATION LiveSpec
CONSTANTS
  MaxProcs = 4
  MaxDeferred = 2
  Quantum = 2
  NStacks = 5
  MaxSleep = 1
  BootTests = 1
  Regression = 1
  Sigs = {2}
  Workload = {"exit", "waitpid", "fork", "sleep", "yield"}
CHECK_DEADLOCK FALSE
PROPERTIES NoStarvation WaitEnds InitReaps
