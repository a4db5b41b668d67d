CONSTANTS
  p1 = p1
  p2 = p2
  Programs = {"rpc"}
  N <- MCN
  Mortal <- MCMortal
  Volume = 3
  PipeSize = 2
  Pids <- MCPids
  MaxRuns = 3
  MaxKills = 1
  MaxCrashes = 1

SPECIFICATION MCSpec

INVARIANTS
  NeverEOF
