SPECIFICATION Spec
CONSTANTS
  NPROC = 3
  Cpus = {c0, c1}
  NoCpu = NoCpu
  KillPids = {2}
  MaxPid = 3
  TimerLabels = {}
SYMMETRY CpuSymmetry
INVARIANT KilledAwake
