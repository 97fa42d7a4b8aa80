SPECIFICATION Spec

CONSTANTS
  Mints = {m1}
  NoHolding = NoHolding
  FileFaults = FALSE
  NoMint = NoMint
  NoOrder = NoOrder
  TpLevels = {1}
  SlLevels = {}
  TpPercent <- TakeHalf
  SlPercent <- NoLevels
  Tasks = {t1}
  MintOf <- OneMint
  AmmTasks = {}
  BuyAmount = 2
  MaxHoldedCoins = 1
  AllowAccumulate = FALSE
  ReadsBalance = FALSE
  SellCap = 1
  SellShares = {}
  MaxTargetSells = 0
  RemoteFaults = FALSE
  MaxCrashes = 0
  m1 = m1
  m2 = m2
  t1 = t1
  t2 = t2
  t3 = t3

INVARIANTS
  PendingMeansInFlight
