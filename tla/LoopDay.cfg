SPECIFICATION Spec
CONSTANTS
  s1 = s1
  s2 = s2
  Symbols = {s1}
  MaxGen = 2
  HandSizes = {0, 1, 2}
  FullHands = 3
  Env = {"reject", "vanish", "midpass", "switch"}
  MaxOrders = 2
  MaxHold = 4
  MaxUnits = 3
  MaxQueue = 2
  NoTrade = NoTrade
INVARIANT TypeOK
INVARIANT OneOrderInFlight
INVARIANT LedgerMatchesExchange
INVARIANT PositionWellFormed
INVARIANT UnitsAtMostTwo
PROPERTY ClosesWhatIsHeld
PROPERTY LedgerKept
