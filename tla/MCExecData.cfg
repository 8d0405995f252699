CONSTANTS
  n1 = n1
  n2 = n2
  n3 = n3
  Nodes = {n1, n2, n3}
  Lists = {l1, l2}
  NULL = NULL
  Pri <- SomePri
  Name <- SomeName
  Keys <- TwelveKeys
  MemoryEnd = 13
  InitialTags <- SomeTags
  List = 1
  Changes = 6
  CloneAt = 9
  TagArrays <- OneTagEach
  ByteBits = 2
  StructSize = 16
  Tables <- SomeTables
  Values <- SomeData
  Fillings = {0, 3}
  Second = 4
  Spans <- SomeSpans
  ClockEnd = 6
SPECIFICATION Spec
INVARIANTS
  ListTypeOK
  Linked
  LookupsAgree
  SafeLoopIsComplete
  Balanced
  SearchesAgree
  WalksAgree
  PackedComesBack
  SleepsLongEnough
PROPERTIES
  CallsAsDocumented
  IsASet
  FilterTagChangesAsDocumented
  RefreshRestores
CHECK_DEADLOCK FALSE
