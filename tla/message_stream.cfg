SPECIFICATION FairSpec
CONSTANTS
  MaxBlocks = 2
  MaxDeltas = 2
  MaxAttempts = 2
INVARIANT Framed
INVARIANT BlocksWhole
INVARIANT Told
PROPERTY Ends
CHECK_DEADLOCK FALSE
