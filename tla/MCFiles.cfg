SPECIFICATION Spec
CONSTANTS
  Procs = {1, 2}
  Root = 1
  MAX_FDS = 2
  MAX_FILE_HANDLES = 2
  NameOrder <- MCNameOrder
  Paths <- MCPaths
  MountPath <- MCMountPath
  DiskFiles <- MCDiskFiles
  DiskDirs <- MCDiskDirs
  NameBytes <- MCNameBytes
  CwdBytes = 4
  CutName <- MCCutName
  TMP = 4
  Programs <- MCPrograms
  MaxLen = 2
  Inos = {0, 1, 2, 3}
  Handles = {0, 1}
INVARIANTS FdHasHandle
PROPERTIES SharedDescriptions
CHECK_DEADLOCK FALSE
