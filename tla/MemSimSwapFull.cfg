SPECIFICATION Spec
CONSTANTS
  Pages = {p1, p2, p3}
  NULL = NULL
  AccessTypes = {"S", "M", "L", "I"}
  MEMSIZE = 2
  SWAPSIZE = 1
  FRAME_SIZE = 1
  MAX_OFFSET = 0
  Values = {0, 1}
  Transfers = {1}
  COUNTER_MOD = 1
INVARIANTS ExitsWhenSwapFull
