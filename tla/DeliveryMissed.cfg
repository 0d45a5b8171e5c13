SPECIFICATION Spec
CONSTANTS
  Order <- MCOrder
  MaxSent = 3
  MaxBreaks = 1
  None = None
INVARIANT MissedRedispatched
CHECK_DEADLOCK FALSE
