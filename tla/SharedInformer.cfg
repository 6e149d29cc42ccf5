CONSTANTS
  h1 = h1
  h2 = h2
  Handlers <- MCHandlers
  Keys = {k1}
  Objs = {1, 2}
  None = None
  Scenarios <- MCScenarios
  ResyncBeforeStart = FALSE
SPECIFICATION FairSpec
INVARIANTS
  Coherent
  NoSendOnClosed
  SyncedMeansDelivered
PROPERTIES
  CallsReturn
  HandlersCatchUp
CHECK_DEADLOCK FALSE
