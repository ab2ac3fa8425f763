SPECIFICATION FairSpec
CONSTANTS
  NPROC = 3
  Cpus = {c0}
  NoCpu = NoCpu
  KillPids = {2}
  MaxPid = 3
  TimerLabels = {"wait", "exit"}
PROPERTIES
  RunnableRuns
  ExitEnds
  WaitReturns
  KilledExits
