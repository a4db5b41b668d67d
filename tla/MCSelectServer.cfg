CONSTANTS
  MaxConns = 3
  MaxFds = 3
  MaxMsgs = 2

SPECIFICATION Spec

INVARIANTS
  BlindSpotIsLast
  EveryConnectionTracked
  SendsAccountedFor

PROPERTIES
  LeaverReleased
