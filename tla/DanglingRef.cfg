SPECIFICATION Spec
CONSTANTS
  Threads = {t1, t2}
  NoThread = NoThread
  NPAGES = 3
  NPROC = 3
SYMMETRY ThreadSymmetry
INVARIANT NoDanglingRef
CHECK_DEADLOCK FALSE
