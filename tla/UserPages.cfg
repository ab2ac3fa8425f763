SPECIFICATION Spec
CONSTANTS
  Inner = 1
  PGSIZE = 2
  MaxSz = 5
  Builds <- SafeBuilds
  Steps <- Bytes
INVARIANTS
  TypeOK
  OneOwner
  NoPanic
  MemoryWhole
