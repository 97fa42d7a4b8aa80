SPECIFICATION FairSpec

CONSTANTS
  Urls = 2
  MaxTurns = 1
  HasCurve = TRUE
  Retries = 1
  Wordy = FALSE

INVARIANTS
  NoneSkipped
  PricedWhenReachable
  MarkedMeansGone

PROPERTIES
  GoneIsMarked
