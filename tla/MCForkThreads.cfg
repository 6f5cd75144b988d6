CONSTANTS
  Idle = idle
  MaxId = 5
SPECIFICATION FairSpec
CHECK_DEADLOCK FALSE
INVARIANT TypeOK
INVARIANT ObjectOutlivesRun
INVARIANT AllCollected
PROPERTY EndsUnlessUnset
