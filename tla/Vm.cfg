SPECIFICATION Spec
CONSTANTS
  Slots = {0, 1}
  NPages = 20
  PGSIZE = 3
  IntBits = 3
  LongBits = 4
  MaxSz = 4
  MaxPid = 2
  MaxChanges = 4
  Spans = {2, 3}
  Addrs <- SomeAddrs
  Counts = {1, 3}
  Data <- SomeData
INVARIANTS TypeOK PagesApart
PROPERTIES OwnCallsOnly FlatSpec
CHECK_DEADLOCK FALSE
