SPECIFICATION Spec
CONSTANTS
  Sessions = {s1, s2, s3}
  Requests = {r1, r2}
  Passwords = {p1, p2}
  LegacyHashes = {TRUE, FALSE}
  MaxRotations = 2
  MaxChanges = 2
  None = None
SYMMETRY MCSymmetry
INVARIANTS UsableIsCurrent EndedIsOver
CHECK_DEADLOCK FALSE
