SPECIFICATION Spec

CONSTANTS
  Mints = {m1}
  NoHolding = NoHolding
  FileFaults = TRUE
  NoMint = NoMint
  NoOrder = NoOrder
  TpLevels = {1}
  SlLevels = {1}
  TpPercent <- TakeHalf
  SlPercent <- StopAll
  Tasks = {t1, t2}
  MintOf <- OneMint
  AmmTasks = {}
  BuyAmount = 2
  MaxHoldedCoins = 1
  AllowAccumulate = TRUE
  ReadsBalance = FALSE
  SellCap = 1
  SellShares = {}
  MaxTargetSells = 0
  RemoteFaults = FALSE
  MaxCrashes = 1
  m1 = m1
  m2 = m2
  t1 = t1
  t2 = t2
  t3 = t3

SYMMETRY TaskSymmetry

INVARIANTS
  OneOrder
  NoStaleLevel
  OrderCovered
  Saved
PROPERTIES
  NeverRearmed
