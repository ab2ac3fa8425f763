SPECIFICATION Spec
CONSTANTS
  END = 12
  MAX = 12
  Makeable = {3, 13}
  PipeBytes = 512
  Kind <- Kinds
  Contents <- Tree
  Root = "root"
  Ref <- X
  MaxOpen = 4
  Volatile <- ComeAndGo
INVARIANTS
  PrimesOnly
  GarbageLast
  EachPrime
  Found
PROPERTY Ends
CHECK_DEADLOCK FALSE
