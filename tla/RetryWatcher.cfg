CONSTANTS
  Names = {k1, k2}
  Elsewhere = Elsewhere
  MaxRV = 4
SPECIFICATION FairSpec
INVARIANTS
  EveryEventInOrder
PROPERTIES
  StopEnds
  SeesAll
CHECK_DEADLOCK FALSE
