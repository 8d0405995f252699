CONSTANTS
  Threads = {t1, t2, t3}
  ResultChecked = FALSE
SPECIFICATION Spec
INVARIANT MutualExclusion
SYMMETRY Symmetry
