SPECIFICATION RestartSpec
CONSTANTS
  s1 = s1
  Symbols = {s1}
  MaxGen = 1
  HandSizes = {1}
  FullHands = 2
  Env = {"losttrade", "switch"}
  MaxOrders = 1
  MaxHold = 2
  MaxUnits = 1
  MaxQueue = 1
  NoTrade = NoTrade
INVARIANT StoreTypeOK
INVARIANT SwitchIsSaved
INVARIANT LedgerAfterRestart
