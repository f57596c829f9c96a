SPECIFICATION RRSpec
CONSTANTS
  Pages = {p1, p2, p3, p4}
  NULL = NULL
  AccessTypes = {"S", "M", "L", "I"}
  MEMSIZE = 3
  SWAPSIZE = 3
  FRAME_SIZE = 2
  MAX_OFFSET = 1
  Values = {0}
  Transfers = {0, 1, 2}
  COUNTER_MOD = 3
INVARIANTS RRTypeOK CoremapConsistent SlotsExclusive StatsBalance
PROPERTY ImplementsFIFO
