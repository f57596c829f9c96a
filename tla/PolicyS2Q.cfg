SPECIFICATION S2QSpec
CONSTANTS
  Pages = {p1, p2, p3, p4}
  NULL = NULL
  A1 = A1
  Am = Am
  S2Q_DIVISOR = 2
  AccessTypes = {"S", "L"}
  MEMSIZE = 3
  SWAPSIZE = 4
  FRAME_SIZE = 1
  MAX_OFFSET = 0
  Values = {0}
  Transfers = {1}
  COUNTER_MOD = 1
SYMMETRY PageSymmetry
INVARIANTS VictimIsFrame BitTellsQueue
PROPERTIES ImplementsTwoQueue
