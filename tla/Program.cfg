SPECIFICATION ProgSpec
CONSTANTS
  PAGE_SIZE = 1
  RADIX = 2
  KMALLOC_MAX = 36
  SIZEOF <- MCSizeof
  Files <- MCFiles
  MAX_ERRORS = 1
INVARIANTS SwapFileRemoved ReturnReleasesAll HandlerSafe TraceReplayed
PROPERTY ProgramEnds
