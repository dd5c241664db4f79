CONSTANTS
  a1 = a1
  k1 = k1
  x0 = x0
  x1 = x1
  c1 = c1
  None = None
  Agents = {a1}
  Owners = {o1}
  Me = o1
  Executions = {x0, x1}
  Leases = {v1, v2}
  Censuses <- OwnCensuses
  Logicals = {k1}
  LogicalOf <- Retried
  ThreadOf <- RetriedThread
  Callers = {c1, c2}
  Serial <- OneSerial
  MaxLate = 1
SPECIFICATION FairSpec
INVARIANTS HeldIsActive ReleasedIsFenced CustodyRemembered
PROPERTY ReleasingEnds
CHECK_DEADLOCK FALSE
