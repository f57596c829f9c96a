SPECIFICATION PTSpec
CONSTANTS
  PAGE_SIZE = 2
  RADIX = 2
  KMALLOC_MAX = 66
  SIZEOF <- MCSizeof
INVARIANTS EntryPerPage LazyLevels DestroyFreesAll AccountingExact
