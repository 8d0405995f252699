CONSTANTS
  Threads = {main, c1, c2}
  Main = main
  Builds = {"other"}
SPECIFICATION Spec
INVARIANT LockOnlyWhileInUse
CHECK_DEADLOCK FALSE
