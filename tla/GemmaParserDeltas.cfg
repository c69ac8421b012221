SPECIFICATION ParserSpec
CONSTANTS
  Letter <- MCLetter
  Start = "S"
  End = "E"
  Label <- MCLabel
  Deltas <- AnyDeltas
  MaxLength = 7
  None = none
  none = none
CHECK_DEADLOCK FALSE
INVARIANTS ParserInv StreamedAsWhole
