SPECIFICATION Spec
CONSTANTS
  k1 = k1
  k2 = k2
  k3 = k3
  Keys = {k1, k2, k3}
  Vals = {v1, v2}
  NoVal = NoVal
  Capacity = 2
  Hash <- MCHash
  Nil = Nil
PROPERTIES
  ImplementsMap
  WalkComplete
