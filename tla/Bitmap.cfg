SPECIFICATION BitmapSpec
CONSTANTS
  bits_per_word = 5
  SIZE_MOD = 32
INVARIANTS LeftoverUsed BitmapAssertions
PROPERTY ImplementsSlotAllocator
