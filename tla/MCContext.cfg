SPECIFICATION Spec
CONSTANTS
  MaxPid = 2
  Calls = {"getpid", "copyout", "yield", "block", "exit", "reap", "fork", "kill"}
  Faults = {"cow", "bad", "gp", "breakpoint", "fatal"}
INVARIANTS ContextKept FpuKept EntryReady
CHECK_DEADLOCK FALSE
