SPECIFICATION Spec
CONSTANTS
  s1 = s1
  s2 = s2
  Symbols = {s1}
  MaxGen = 1
  HandSizes = {2}
  FullHands = 2
  Env = {"partial", "switch", "genfail", "midpass", "duperr"}
  MaxOrders = 2
  MaxHold = 2
  MaxUnits = 1
  MaxQueue = 1
  NoTrade = NoTrade
INVARIANT AtMostOneTriggered
INVARIANT SwitchWellFormed
INVARIANT RuleMarks
