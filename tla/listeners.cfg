SPECIFICATION FairShredSpec

CONSTANTS
  Sigs = {s1, s2, s3}
  BuyCap = 1
  MirrorCap = 1
  MirrorAtStart = TRUE
  Ttl = 2
  CleanupAfter = 1
  Never = Never
  MaxTime = 2
  MaxReloads = 1
  Stream <- ThreeBuys
  Buys = {s1, s2, s3}
  Sells = {s2}
  Exchange <- EveryExchange
  Tables = {t1}
  MaxLength = 2
  Lookups <- GrowingTable
  MintInTable = {s2}
  Accounts <- MiddleInTable
  MinAccounts = 1
  NoKeys = NoKeys
  s1 = s1
  t1 = t1
  s2 = s2
  s3 = s3

INVARIANTS
  KeysRight

PROPERTIES
  ListenersProceed
  BuysDispatched
  BoughtOnce

CHECK_DEADLOCK FALSE
