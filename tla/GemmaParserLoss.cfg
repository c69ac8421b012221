SPECIFICATION ParserSpec
CONSTANTS
  Letter <- MCLetter
  Start = "S"
  End = "E"
  Label <- MCLabel
  Deltas <- EndWithText
  MaxLength = 7
  None = none
  none = none
CHECK_DEADLOCK FALSE
INVARIANT NoDataLoss
