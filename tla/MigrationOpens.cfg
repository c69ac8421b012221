SPECIFICATION Spec
CONSTANTS
  InitialVersions <- AllVersions
  MaxFaults = 3
  MaxCrashes = 3
  MaxStarts = 6
CHECK_DEADLOCK FALSE
INVARIANTS SchemaInv RefusedOnlyIncoherent
PROPERTY KeepsRows
