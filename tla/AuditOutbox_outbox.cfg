SPECIFICATION FairSpec
CONSTANTS
  served = served
  once = once
  Worker = {served, once}
  Served = {served}
  Collectors = {served}
  MaxRetries = 1
  TopN = 2
  BatchSize = 2
  MaxShadow = 1
  MaxTurns = 1
INVARIANTS
  AuditTrailKept
PROPERTIES
  EventsArrive
