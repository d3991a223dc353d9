SPECIFICATION Spec
CONSTANTS
  Procs = {1, 2, 3, 4}
  Root = 1
  MAX_FDS = 7
  MAX_PIPES = 2
  MAX_PIPES_PER_PROCESS = 4
  PIPE_SIZE = 1
  U32_MAX = 15
  U16_MAX = 31
  Values = {0}
  MaxWrite = 1
  DupWhenFull = FALSE
  MaxOut = 2
  MAX_TOKENS = 6
  MAX_CMDS = 3
  MAX_ARGS = 2
  MAX_PATH = 8
  Sessions <- MCSessions
  Lines <- MCLines
  Paths <- MCPaths
INVARIANTS ParseMatches Wired
PROPERTIES ChildrenEnd
CHECK_DEADLOCK FALSE
