SPECIFICATION FairSpec

CONSTANTS
  Sigs = {s1, s2}
  BuyCap = 1
  MirrorCap = 1
  MirrorAtStart = TRUE
  Ttl = 1
  CleanupAfter = 1
  Never = Never
  MaxTime = 0
  MaxReloads = 1
  Stream <- Twice
  Trades = {s1, s2}
  WsCap = 1
  MaxRpc = 1
  MaxRetries = 1
  s1 = s1
  s2 = s2

PROPERTIES
  NotificationsEnd
  FetchedBuyDispatched

CHECK_DEADLOCK FALSE
