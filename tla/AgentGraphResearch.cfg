SPECIFICATION FairSpec
CONSTANTS
  b1 = b1
  b2 = b2
  nil = nil
  Branches <- TwoBranches
  MainGraph <- Research
  SubGraph <- Worker
  Contents <- MCContents
  Upper <- MCUpper
  MaxCalls = 2
  MaxTurns = 1
  None = nil
CHECK_DEADLOCK FALSE
INVARIANTS InputWellFormed ThinkingInv HistoryClean RunInv ReportedErrorIsCause MergedAllOrNothing
PROPERTY RunReturns
