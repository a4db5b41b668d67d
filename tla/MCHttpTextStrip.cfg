CONSTANTS
  Chars <- MCChars
  Alphabets <- ShortAlphabets
  Files <- NoFiles

SPECIFICATION TextSpec

\* Texts end at the length of their alphabet.
CHECK_DEADLOCK FALSE

INVARIANTS
  StripTrims
