CONSTANTS
  MaxConns = 3
  MaxFds = 3
  MaxPieces <- MCPieces
  Chars <- MCChars
  Alphabets <- MCAlphabets
  Files <- NoFiles

SPECIFICATION MCSpec

INVARIANTS
  StrayResponse
  ResponsesConserved
  StringsFaithful
  ParsedFaithfully

PROPERTIES
  SenderAnswered
