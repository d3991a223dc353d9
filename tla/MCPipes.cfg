SPECIFICATION Spec
CONSTANTS
  Procs = {p1, p2}
  Root = p1
  MAX_FDS = 2
  MAX_PIPES = 1
  MAX_PIPES_PER_PROCESS = 2
  PIPE_SIZE = 2
  U32_MAX = 5
  U16_MAX = 15
  Values = {0, 1}
  MaxWrite = 2
  DupWhenFull = FALSE
CHECK_DEADLOCK FALSE
INVARIANTS RefcountIsExact BlockedForAReason LastCloseIsSeen
PROPERTIES PipesAreQueues
