CONSTANTS
  Keys = {k1, k2}
  Objs = {o1, o2}
  NoObj = NoObj
  Failures = {"requeue", "retry", "drop"}
  MaxDeltas = 3
SPECIFICATION FairSpec
INVARIANTS
  QueueMatchesItems
  DeltasReplayable
  TombstoneIsLatest
  SyncCount
  ConsumerAwake
  Faithful
PROPERTY EveryDeltaPopped
