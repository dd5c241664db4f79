CONSTANTS
  Agents = {a1, a2}
  Owners = {o1, o2}
  Executions = {e1, e2, e3}
  Leases = {l1, l2, l3}
  None = None
  Censuses <- MCCensuses
SPECIFICATION AuthoritySpec
INVARIANTS OneActivePerAgent ReceiptsAgree
PROPERTIES ReleasedIsFinal KeepsPromise
