SPECIFICATION FairSpec
CONSTANTS
  MaxTick = 1
  MaxIntents = 2
  Carried <- TwoCarried
  Lot = 1
  MaxStop = 0
  MaxCrashes = 1
  AmbiguousZeroTicket = FALSE
  NoPosition = NoPosition
INVARIANTS
  NeverReprocessed
  PositionsAccountedFor

  
  
