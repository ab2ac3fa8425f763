SPECIFICATION Spec
CONSTANTS
  Inner = 1
  PGSIZE = 2
  MaxSz = 12
  Builds <- ScarceBuilds
  Steps <- Bytes
INVARIANT OneOwner
