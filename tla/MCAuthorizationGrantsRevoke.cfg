CONSTANTS
  g1 = g1
  g2 = g2
  g3 = g3
  t1 = t1
  t2 = t2
  c1 = c1
  a = a
  b = b
  s = s
  None = None
  Grants <- MCGrants
  Targets <- MCTargets
  Contents <- MCContents
  SkillAdmins <- MCSkillAdmins
  SecurityAdmins <- MCSecurityAdmins
SPECIFICATION Spec
INVARIANT ApprovedCanBeRevoked
CHECK_DEADLOCK FALSE
