SPECIFICATION FairSpec
CONSTANTS
  NPROC = 2
  TickValues = 4
  Durations <- TwoTicks
  OtherCalls = {"trace", "unknown"}
  Masks <- SomeMasks
  Panickers = {0}
  LineLength = 2
INVARIANTS
  TypeOK
  LinesWhole
  PanicNotBlocked
PROPERTIES
  SleptEnough
  TickWakes
  TracedExactly
  SleepEnds
