CONSTANTS
  Clients = {c1, c2}
  NoOne = NoOne
  LeaseDuration = 7
  RenewDeadline = 2
  RetryPeriod = 1
  ReleaseOnCancel = TRUE
  Second = 2
  MaxTry = 1
  MaxLate = 1
  MaxTime = 9
SPECIFICATION Spec
INVARIANTS
  AtMostOneLeader
PROPERTIES
  NoEarlyTakeover
  ReleaseIsSafe
CHECK_DEADLOCK FALSE
