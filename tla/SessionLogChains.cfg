SPECIFICATION FairSpec
CONSTANTS
  r1 = r1
  r2 = r2
  tools1 = tools1
  obs1 = obs1
  none = none
  Requests <- MCRequests
  Messages <- MCMessages
  Conversation <- Short
  ToolSets <- MCToolSets
  ToolsOf <- MCToolsOf
  Observations <- MCObservations
  Replies <- TwoReplies
  None = none
  MaxFaults = 2
  MaxCrashes = 1
CHECK_DEADLOCK FALSE
INVARIANTS TypeOK ChainContiguous ChainInOrder HashesResolve CompleteUnlessFailed MemoryFollowsLog
PROPERTY AlwaysForwarded
