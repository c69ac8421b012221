SPECIFICATION Spec
CONSTANTS
  Char <- MCChar
  OpenTag <- MCOpenTag
  CloseTag <- MCCloseTag
  Space <- MCSpace
  Braces <- MCBraces
  Answer <- MCAnswer
  MaxPiece = 2
  MaxNoise = 1
CHECK_DEADLOCK FALSE
INVARIANTS LogInv BothLogsAgree CaptureInv
