SPECIFICATION FairSpec
CONSTANTS
  Order <- MCOrder
  MaxSent = 3
  MaxBreaks = 2
  None = None
INVARIANT TypeOK
INVARIANT InOrder
INVARIANT HeldOnce
PROPERTY PromiseKept
PROPERTY EventuallyTaken
CHECK_DEADLOCK FALSE
