SPECIFICATION MCSpec
CONSTANTS
  MaxProcs = 5
  MaxDeferred = 2
  Quantum = 2
  NStacks = 5
  MaxSleep = 1
  BootTests = 1
  Regression = 1
  Sigs = {2, 20}
  Workload = {"exit", "yield", "waitpid", "sleep", "read", "fork", "kill", "sigaction", "setpgid", "fault", "enter", "ctrl"}
CHECK_DEADLOCK FALSE
INVARIANTS StackOwnership Rsp0IsCurrentStack CpuOwner StrippedStaysDead NoLostConsoleWake NoOrphansUnsignalled
