SPECIFICATION Spec
CONSTANTS
  Configs <- MCConfigs
  Lists <- MCLists
  Requests <- MCRequests
  Counts = {5, 10, 25}
  FractionTenths = 9
CHECK_DEADLOCK FALSE
INVARIANTS ListInv ListedIsServed BodyInv
PROPERTIES EventuallyListed
