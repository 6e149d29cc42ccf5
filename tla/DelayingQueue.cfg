CONSTANTS
  Items = {i1, i2}
  Workers = {}
  Drainers = {d1}
  NoItem = NoItem
  Callers = {c1}
  Stoppers = {s1}
  Delays = {1, 2}
  ChanCap = 1
  MaxTime = 2
SPECIFICATION DelayingFairSpec
INVARIANTS
  NoRequestLost
  TimerArmed
PROPERTIES
  NeverEarly
  DelayedItemAdded
  AddAfterReturns
  LoopExits
CHECK_DEADLOCK FALSE
