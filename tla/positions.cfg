SPECIFICATION Spec

CONSTANTS
  Mints = {m1}
  NoHolding = NoHolding
  FileFaults = FALSE
  NoMint = NoMint
  NoOrder = NoOrder
  TpLevels = {}
  SlLevels = {}
  TpPercent <- NoLevels
  SlPercent <- NoLevels
  Tasks = {t1, t2}
  MintOf <- OneMint
  AmmTasks = {t1}
  BuyAmount = 2
  MaxHoldedCoins = 1
  AllowAccumulate = TRUE
  ReadsBalance = FALSE
  SellCap = 1
  SellShares = {100}
  MaxTargetSells = 1
  RemoteFaults = TRUE
  MaxCrashes = 1
  m1 = m1
  m2 = m2
  t1 = t1
  t2 = t2
  t3 = t3

INVARIANTS
  AbandonHarmless
  BuyExclusion
  NeverOverwritten
PROPERTIES
  SlotRefined
