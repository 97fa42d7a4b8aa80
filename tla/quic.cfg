SPECIFICATION FairSpec

CONSTANTS
  Calls = {c1, c2}
  Regions = {r1, r2}
  Single = r1
  Silent = {}
  Lossy = {r1}

PROPERTIES
  InUseNotReplaced
  WorkersEnd
  FirstSuccessEnds

CHECK_DEADLOCK FALSE
