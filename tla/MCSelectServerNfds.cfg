CONSTANTS
  MaxConns = 2
  MaxFds = 2
  MaxMsgs = 1
SPECIFICATION Spec
INVARIANTS
  NfdsCoversAll
