SPECIFICATION KHSpec
CONSTANTS
  k1 = k1
  k2 = k2
  k3 = k3
  k4 = k4
  Keys <- MCKeys
  Hash <- MCHash
INVARIANTS ProbesEnd KeysUnique
PROPERTY ImplementsPointerMap
