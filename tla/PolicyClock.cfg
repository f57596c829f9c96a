SPECIFICATION ClockSpec
CONSTANTS
  Pages = {p1, p2, p3, p4}
  NULL = NULL
  AccessTypes = {"L"}
  MEMSIZE = 3
  SWAPSIZE = 4
  FRAME_SIZE = 1
  MAX_OFFSET = 0
  Values = {0}
  Transfers = {1}
  COUNTER_MOD = 1
INVARIANTS ClockTypeOK RingWellFormed
PROPERTIES ImplementsSecondChance EvictTerminates
