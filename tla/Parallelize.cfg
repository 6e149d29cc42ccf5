CONSTANTS
  MaxWorkers = 3
  MaxPieces = 4
  MaxChunkSize = 3
SPECIFICATION Spec
INVARIANTS
  AllDoneOnReturn
  AtMostOnce
PROPERTY Returns
CHECK_DEADLOCK FALSE
