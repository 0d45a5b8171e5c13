CONSTANTS
  o1 = o1
  Orders <- MCOrders
  Pieces = 2
  MaxDay = 3
  MaxTrouble = 2
  Env = {"break", "error", "end"}
SPECIFICATION FairSpec
INVARIANT TypeOK
INVARIANT ConfirmedAfterReading
PROPERTY SessionReady
PROPERTY ReportsForwarded
CHECK_DEADLOCK FALSE
