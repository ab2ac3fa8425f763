SPECIFICATION Spec
CONSTANTS
  NPROC = 3
  Cpus = {c0, c1}
  NoCpu = NoCpu
  KillPids = {0, 2}
  MaxPid = 3
  TimerLabels = {}
SYMMETRY CpuSymmetry
PROPERTY BornUnkilled
