CONSTANTS
  k1 = k1
  k2 = k2
  k3 = k3
  k4 = k4
  NULL = NULL
  AtEnd = AtEnd
  NoIter = NoIter
  Keys <- MCKeys
  Values = {NULL, v1}
  HASH_SIZE = 4
  Hash <- MCHash
SPECIFICATION Spec
PROPERTIES
  ImplementsMap
