CONSTANTS
  c1 = c1
  c2 = c2
  c3 = c3
  Clients <- MCClients
  Hash <- MCHash
  HASH_SIZE = 2
  MAX_CLIENTS = 2
  MaxLines <- MCMaxLines
  NULL = NULL
  AtEnd = AtEnd
  NoIter = NoIter

SPECIFICATION Spec

INVARIANTS
  OneSocketEach
  SameLinesSameOrder

PROPERTIES
  LineRepeated
