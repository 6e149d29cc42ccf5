CONSTANTS
  k1 = k1
  k2 = k2
  o1 = o1
  o2 = o2
  o3 = o3
  single = single
  many = many
  a = a
  b = b
  Keys = {k1, k2}
  Objects = {o1, o2, o3}
  IndexNames = {single, many}
  Values = {a, b}
  NoObject = NoObject
  IndexFunc <- MCIndexFunc
SPECIFICATION Spec
INVARIANT IndexExact
