SPECIFICATION Spec
CONSTANTS
  Files <- MCFiles
  Trades <- MCTrades
  Coins <- MCCoins
  Liquidities <- MCLiquidities
  Unreadable = Unreadable
  Unknown = Unknown
  Torn = Torn
  Nothing = Nothing
  MaxEdits = 2
  MaxChanges = 2
  MaxCrashes = 1
INVARIANTS FileInForce Latest NeverLax
CHECK_DEADLOCK FALSE
