SPECIFICATION FairSpec
CONSTANTS
  Ids = {1, 2, 3}
  MaxTime = 3
  Limits = {0, 1, 2, 9}
  Cap = 2
INVARIANT OnceUnlessInverted
PROPERTIES WalkEnds CursorDescends
CHECK_DEADLOCK FALSE
