SPECIFICATION FairSpec

CONSTANTS
  PanelToken = FALSE
  Validity = 2
  Empty = Empty
  MaxHeight = 4
  Tips = {t1, t2}
  MaxRetries = 3
  Margin = 1
  RpcFaults = TRUE
  Unknown = Unknown


  
PROPERTIES
  BotStarts

CHECK_DEADLOCK FALSE
