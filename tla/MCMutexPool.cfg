CONSTANTS
  Threads = {t1, t2, t3, t4}
  ResultChecked = TRUE
SPECIFICATION FairSpec
INVARIANTS
  TypeOK
  MutualExclusion
  WordTellsHolder
  NoLostWakeup
PROPERTIES
  FreeLockIsTaken
  ImplementsContract
