SPECIFICATION Spec
CONSTANTS
  MaxTick = 1
  MaxIntents = 1
  Carried <- OneCarried
  Lot = 1
  MaxStop = 1
  MaxCrashes = 1
  AmbiguousZeroTicket = FALSE
  NoPosition = NoPosition
PROPERTY
  HarvestSurvives
