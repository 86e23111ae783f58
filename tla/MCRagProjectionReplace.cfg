SPECIFICATION FairSpec
CONSTANTS
  Jobs = {j1, j2}
  None = None
  MaxAttempts = 1
  MaxSource = 1
  IndexKinds <- MCOneKind
  Readers = {r1}
INVARIANTS RetainedIsActive
PROPERTIES RebuildEnds CollectionsReclaimed AnswersAreCurrent
CHECK_DEADLOCK FALSE
