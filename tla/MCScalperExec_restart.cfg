SPECIFICATION Spec
CONSTANTS
  MaxTick = 2
  MaxIntents = 1
  Carried <- OneCarried
  Lot = 2
  MaxStop = 2
  MaxCrashes = 2
  AmbiguousZeroTicket = FALSE
  NoPosition = NoPosition
INVARIANTS
  JournalTellsTheTruth
  SentAtMostOnce
  NoOverlappingWrites
  RejectedNeverExecutes
PROPERTIES
  StopsOnlyTighten
  ImplementsOneShotOrder
