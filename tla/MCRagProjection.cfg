SPECIFICATION Spec
CONSTANTS
  Jobs = {j1}
  None = None
  MaxAttempts = 2
  MaxSource = 2
  IndexKinds <- MCBothKinds
  Readers = {}
INVARIANTS
  GateHasAnOwner
  ReadyIsServable
  DeletedIsGone
PROPERTIES
  FailureIsOwn
  JobsFollowLifecycle
CHECK_DEADLOCK FALSE
