SPECIFICATION Spec
CONSTANTS
  MaxTick = 4
  FirstLive = 2
  Stride = 1
  MinFuture = 1
  MaxLook = 3
  MaxCost = 1
  Block = 1
  Purge = 1
  MinTrain = 1
  MaxCrashes = 1
  MaxRebuilds = 1
INVARIANTS
  LearningInv
  ServingIsDurable
\* The market ends at MaxTick.
CHECK_DEADLOCK FALSE
