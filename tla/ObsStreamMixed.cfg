SPECIFICATION Spec
CONSTANTS
  Char <- MCChar
  OpenTag <- MCOpenTag
  CloseTag <- MCCloseTag
  Space <- MCSpace
  Format = "anthropic"
  Upstream <- MixedEvents
  MaxEvents = 5
CHECK_DEADLOCK FALSE
INVARIANTS TypeOK NoTextLost CutAtTag OnlyHeldTextIsLate NoTagReachesClient
PROPERTY StripSpec
