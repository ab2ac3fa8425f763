SPECIFICATION Spec
CONSTANTS
  Threads = {t1, t2}
  NoThread = NoThread
  NPAGES = 3
  NPROC = 3
SYMMETRY ThreadSymmetry
INVARIANTS
  TypeOK
  ListOK
  OneUser
  CountsExact
CHECK_DEADLOCK FALSE
