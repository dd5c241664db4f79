CONSTANTS
  a = a
  b = b
  c = c
  Nowhere = Nowhere
  Hosts = {a, b, c}
  First = a
  MaxTransfers = 3
  MaxGrants = 1
  MaxSpent = 2
  MaxCrashes = 2
SPECIFICATION FairSpec
PROPERTIES KeepsCustody TransferEnds
CHECK_DEADLOCK FALSE
