CONSTANTS
  Keys = {k1, k2}
  Elsewhere = Elsewhere
  MaxRV = 2
  Objs = {1, 2}
  NoObj = 0
  Failures = {}
  MaxDeltas = 2
SPECIFICATION ReflectorFairSpec
INVARIANTS
  StoreIsSnapshot
PROPERTIES
  NeverOlder
  CatchesUp
