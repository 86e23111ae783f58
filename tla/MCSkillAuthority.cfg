CONSTANTS
  g1 = g1
  g2 = g2
  v1 = v1
  v2 = v2
  t1 = t1
  t2 = t2
  anna = anna
  bert = bert
  r1 = r1
  r2 = r2
  None = None
  Grants <- MCGrants
  SkillAdmins <- MCSkillAdmins
  SecurityAdmins <- MCSecurityAdmins
  Versions = {v1, v2}
  ToolSets = {t1, t2}
  Runs = {r1, r2}
  MaxRevision = 5
SPECIFICATION Spec
SYMMETRY Symmetry
INVARIANTS ActingIsApproved EnabledIsWhatWasApproved
PROPERTIES WithdrawnForGood FollowsGrants
CHECK_DEADLOCK FALSE
