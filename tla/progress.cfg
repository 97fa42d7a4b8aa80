SPECIFICATION FairSpec

CONSTANTS
  Mints = {m1}
  NoHolding = NoHolding
  FileFaults = FALSE
  NoMint = NoMint
  NoOrder = NoOrder
  TpLevels = {}
  SlLevels = {}
  TpPercent <- NoLevels
  SlPercent <- NoLevels
  Tasks = {t1}
  MintOf <- OneMint
  AmmTasks = {}
  BuyAmount = 2
  MaxHoldedCoins = 1
  AllowAccumulate = FALSE
  ReadsBalance = FALSE
  SellCap = 1
  SellShares = {50, 100}
  MaxTargetSells = 2
  RemoteFaults = FALSE
  MaxCrashes = 0
  m1 = m1
  m2 = m2
  t1 = t1
  t2 = t2
  t3 = t3

INVARIANTS
  TypeOK
  Backed
PROPERTIES
  SlotFreed
  SendersProceed
