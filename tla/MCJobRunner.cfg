SPECIFICATION FairSpec
CONSTANTS
  j1 = j1
  o1 = o1
  o2 = o2
  o3 = o3
  Jobs = {j1}
  Owners = {o1, o2, o3}
  None = None
  Claimable = {j1}
  Resolves <- MCResolves
  Priority <- MCPriority
  MaxAttempts = 2
  LeaseTime = 1
  RetryDelays <- MCRetryDelays
  MaxLag = 0
INVARIANTS
  ResultsAgree
PROPERTIES
  EveryJobSettles
  PollerReturns
CHECK_DEADLOCK FALSE
