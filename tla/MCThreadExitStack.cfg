CONSTANTS
  Threads = {main, c1, c2}
  Main = main
  Builds = {"aarch64"}
SPECIFICATION ObtainedSpec
INVARIANT ExitStackIsPrivate
CHECK_DEADLOCK FALSE
