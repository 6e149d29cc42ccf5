CONSTANTS
  Items = {i1, i2}
  Callers = {c1, c2}
  BaseDelay = 3
  MaxDelay = 20
  MaxFastAttempts = 2
  FastDelay = 1
  SlowDelay = 9
  BucketDelays = {0, 15}
  MaxWait = 12
  Width = 6
  MaxFailures = 5
SPECIFICATION LimiterSpec
INVARIANT BackoffCapped
PROPERTY BackoffGrows
