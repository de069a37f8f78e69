SPECIFICATION FairSpec
CONSTANTS
  Decision = {d1, d2}
  Flat = {d1}
  Lot = 2
  MaxCrashes = 2
  NoDecision = NoDecision
INVARIANTS
  EngineInv
  FinalIsTrue
  EntersWithEyesOpen
  NoEntryWhileDistrusted
PROPERTIES
  FlatSentAlone
  DisturbanceNoticed
  ImplementsOneShotOrder
