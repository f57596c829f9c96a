SPECIFICATION Spec
CONSTANTS
  Pages = {p1, p2, p3}
  NULL = NULL
  AccessTypes = {"S", "M", "L", "I"}
  MEMSIZE = 2
  SWAPSIZE = 3
  FRAME_SIZE = 2
  MAX_OFFSET = 2
  Values = {0, 1}
  Transfers = {2}
  COUNTER_MOD = 1
INVARIANTS ResidentHoldsData
