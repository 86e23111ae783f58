SPECIFICATION MCSpec
CONSTANTS
  j1 = j1
  j2 = j2
  Jobs = {j1, j2}
  Owners = {o1, o2}
  None = None
  Claimable = {j1, j2}
  Priority <- MCPriority
  MaxAttempts = 2
  LeaseTime = 2
  RetryDelays <- MCRetryDelays
  MaxLag = 1
  k1 = k1
  k2 = k2
  k3 = k3
  k4 = k4
  s1 = s1
  s2 = s2
  d1 = d1
  d2 = d2
  Producers = {o1, o2}
  Keys = {k1, k2, k3, k4}
  Digests = {d1, d2}
  Requests <- MCRequests
  MaxRequests = 2
  Scopes = {s1, s2}
  ScopeOf <- MCScopeOf
  GlobalLimit = 2
  ScopeLimit = 1
SYMMETRY MCSymmetry
INVARIANTS
  AttemptsFollowFence
  OneResultPerJob
  AnswersHold
  OvershootBounded
PROPERTIES
  CancelIsNeverOvertaken
  ImplementsLifecycle
CHECK_DEADLOCK FALSE
