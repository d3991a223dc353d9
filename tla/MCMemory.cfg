SPECIFICATION Spec
CONSTANTS
  MAX_PROCESSES = 2
  NFrames = 7
  RC_MAX = 255
  NPages = 3
  TableOf <- MCTableOf
  Image <- MCImage
  ReadOnly = {1}
  HeapPages = {2}
  MmapPages = {3}
  MaxRegions = 1
  MaxPages = 1
  MaxLost = 1
  Values = {0, 1}
  Workload = {"exit", "fork", "exec", "brk", "mmap", "munmap"}
  CR0_WP = TRUE
CHECK_DEADLOCK FALSE
INVARIANTS RefcountIsExact NoWritableSharing
PROPERTIES MemoryIsPrivate
