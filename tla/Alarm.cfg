SPECIFICATION FairSpec
CONSTANTS
  Slots = {s1, s2}
  Intervals <- AlarmIntervals
  IntMax = 1
INVARIANTS
  TypeOK
  HandlerOnce
PROPERTIES
  Transparent
  NotUnasked
  AlarmRings
