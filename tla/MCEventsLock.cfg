CONSTANTS
  Capacity = 2
  MaxTyped = 4
  PipeHolds = 2
  MaxKeyed = 3
  Names = {m1, m2, n}
  Matching = {m1, m2}
  MaxQueued = 2
  MaxActs = 3
  Programs = {"crypt"}
  QueueLimit = 2
  MaxKeys = 3
  MaxTimes = 3
  MaxInts = 3
  MaxEntered = 4

SPECIFICATION MCSpec

INVARIANTS
  LockCures
