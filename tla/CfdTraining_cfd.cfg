SPECIFICATION FairSpec
CONSTANTS
  MaxBars = 5
  MinBars = 2
  MinNew = 1
  Gap = 1
  MaxDeaths = 1
  MaxMishaps = 2
INVARIANTS
  CfdInv
  EvidenceKept
PROPERTIES
  ReplacesWhatItBeat
  HoldoutsUntouched
  DueIsReserved
