\* Every short text, and delimiters of each kind.
CONSTANTS
  a = a
  b = b
  Character = {a, b}
  NewLine = a
  Texts <- AllTexts
  Delims <- AllDelims
  OldLine <- OldText
SPECIFICATION FairSpec
INVARIANTS TypeOK NothingLost SplitsAtDelimiter
PROPERTIES CallReturns
CHECK_DEADLOCK FALSE
