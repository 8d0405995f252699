CONSTANTS
  MemTop = 35
  Page = 4
  Puddle = 16
  MaxSli = 4
  Sizes = {1, 3, 9}
  Aligns = {1, 4}
  Places = {8, 12}
  MaxBlocks = 3
  KnownFaults = FALSE
SPECIFICATION Spec
INVARIANTS Tiled CallersOwnBlocks FreeListsExact
PROPERTIES FindsMemory MemoryStays
CHECK_DEADLOCK FALSE
