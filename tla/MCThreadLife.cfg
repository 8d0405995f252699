CONSTANTS
  Threads = {main, c1, c2}
  Main = main
  Builds = {"aarch64", "other"}
SPECIFICATION FairSpec
INVARIANTS
  TypeOK
  LockOnlyWhileInUseAarch64
  StackOutlivesUse
PROPERTIES
  EndedThreadsDisappear
  CreateReturns
CHECK_DEADLOCK FALSE
