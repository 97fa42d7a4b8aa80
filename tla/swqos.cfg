SPECIFICATION FairSpec

CONSTANTS
  Calls = {c1, c2}
  Providers = {p1, p2}
  Threshold = 1
  Cooldown = 1
  MaxConcurrent = 2
  SkipsLeader = TRUE
  DirectFallback = TRUE
  Closed = Closed
  MaxTime = 2

INVARIANTS
  OpenIffFailing
  PermitsKept
PROPERTIES
  CallsEnd

CHECK_DEADLOCK FALSE
