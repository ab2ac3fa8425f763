SPECIFICATION Spec
CONSTANTS
  NPROC = 3
  Cpus = {c0, c1}
  NoCpu = NoCpu
  KillPids = {0, 1, 2}
  MaxPid = 3
  TimerLabels = {"forkParent", "wait", "panic"}
SYMMETRY CpuSymmetry
INVARIANTS
  NoLostWakeup
  SchedChecks
  StackInUse
  ParentAlive
  IInv
PROPERTIES
  LockOrder
  TreeSpec
