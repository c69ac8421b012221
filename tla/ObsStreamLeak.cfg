SPECIFICATION Spec
CONSTANTS
  Char <- MCChar
  OpenTag <- MCOpenTag
  CloseTag <- MCCloseTag
  Space <- MCSpace
  Format = "openai"
  Upstream <- AnyDeltas
  MaxEvents = 4
CHECK_DEADLOCK FALSE
INVARIANT NoTagReachesClient
