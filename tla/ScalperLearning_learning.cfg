SPECIFICATION Spec
CONSTANTS
  MaxTick = 7
  FirstLive = 1
  Stride = 1
  MinFuture = 1
  MaxLook = 5
  MaxCost = 0
  Block = 2
  Purge = 1
  MinTrain = 1
  MaxCrashes = 1
  MaxRebuilds = 0
INVARIANTS
  FreshValidation
  PromotedBlockConsumed
  BoundaryRespected
  EvidenceOfOneModel
\* The market ends at MaxTick.
CHECK_DEADLOCK FALSE
