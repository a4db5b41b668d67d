CONSTANTS
  MaxConns = 3
  MaxFds = 2
  MaxSaid = 1
  MaxLines = 2
  Callers = 3
  Room = 3
  MaxWrites = 1
  MaxTyped = 2
SPECIFICATION MCSpec

INVARIANTS
  NoRaceNoMixup
  OrphansExplained
  EndsOnlyWithAll

PROPERTIES
  SpeakerPrompted
