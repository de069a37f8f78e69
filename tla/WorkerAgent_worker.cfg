SPECIFICATION WFairSpec
CONSTANTS
  Decision = {1, 2}
  Flat = {1, 2}
  Lot = 1
  MaxCrashes = 1
  NoDecision = 0
INVARIANTS
  WorkerInv
  PostedAtMostOnce
  WorkerIsRight
  OnePosition
PROPERTIES
  SignalIsOneShotOrder
  OutcomesLearnt
