SPECIFICATION Spec
CONSTANTS
  s1 = s1
  s2 = s2
  Symbols = {s1, s2}
  MaxGen = 0
  HandSizes = {1}
  FullHands = 1
  Env = {"reject"}
  MaxOrders = 2
  MaxHold = 2
  MaxUnits = 2
  MaxQueue = 1
  NoTrade = NoTrade
SYMMETRY Swap
INVARIANT OneOrderInFlight
INVARIANT RulesFitPosition
