CONSTANTS
  MemTop = 19
  Page = 4
  Puddle = 16
  MaxSli = 4
  Sizes = {1, 2, 3}
  Aligns = {}
  Places = {}
  MaxBlocks = 2
  KnownFaults = TRUE
SPECIFICATION Spec
INVARIANT Tiled
CHECK_DEADLOCK FALSE
