SPECIFICATION DaySpec
CONSTANTS
  s1 = s1
  s2 = s2
  Symbols = {s1, s2}
  MaxGen = 0
  HandSizes = {1}
  FullHands = 1
  Env = {"vanish", "race"}
  MaxOrders = 1
  MaxHold = 2
  MaxUnits = 1
  MaxQueue = 1
  NoTrade = NoTrade
PROPERTY OutstandingCleared
PROPERTY UnwatchedRestored
