CONSTANTS
  i1 = i1
  i2 = i2
  Items = {i1, i2}
  Destinations = {1, 2}
  Wakes = {1, 2}
  Changeable <- First
SPECIFICATION FairSpec
INVARIANTS OneCheckPerItem
PROPERTIES NoneLost DueIsScheduled ScheduledEnds
