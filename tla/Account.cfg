CONSTANTS
  Prices <- MCPrices
  Start = 20
  Atrs = {1, 2}
  Cash0 = 160
  OpenBars = 2
  CloseBars = 1
  DaysToUrge = 2
  RiskShare = 20
  Slip = 1
  Gaps <- MCGaps
  MaxDays = 4
  MaxMoves = 4
  MaxStep = 2
  Env = {"switch", "atr"}
SPECIFICATION Spec
INVARIANT TypeOK
INVARIANT EquityMatchesExchange
INVARIANT StopBoundsLoss
INVARIANT UrgeComes
PROPERTY StopTightens
PROPERTY AddTightens
CHECK_DEADLOCK FALSE
