CONSTANTS
  Keys = {k1}
  Objs = {o1, o2}
  NoObj = NoObj
  Failures = {"retry"}
  MaxDeltas = 2
SPECIFICATION Spec
INVARIANT RetryIsSafe
