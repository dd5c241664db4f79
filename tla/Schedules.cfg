CONSTANTS
  Interval = 2
  MaxTime = 4
SPECIFICATION FairSpec
INVARIANTS OneAtATime
PROPERTIES LatestIsRun PendingSettles
CHECK_DEADLOCK FALSE
