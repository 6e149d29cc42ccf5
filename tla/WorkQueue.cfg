CONSTANTS
  Items = {i1, i2, i3}
  Workers = {w1, w2, w3}
  Drainers = {d1}
  NoItem = NoItem
SPECIFICATION FairSpec
INVARIANTS
  QueueIsDirtyNotProcessing
  Stingy
  NoLostWakeup
  DrainerHasCause
PROPERTIES
  WorkersExit
  EveryDrainReturns
  ImplementsWorkSet
