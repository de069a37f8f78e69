SPECIFICATION FairSpec
CONSTANTS
  Ticket = {1, 2, 3}
  MaxPositions = 2
  MaxSameSide = 2
  MaxTotal = 3
  MaxDirectional = 3
  MaxSize = 2
  Parts = {2}
  MaxReductions = 1
  MaxHeld = 4
  MaxCrashes = 1
INVARIANTS
  InventoryInv
  ReductionsBudgeted
PROPERTIES
  
  HardStopIsClosed
