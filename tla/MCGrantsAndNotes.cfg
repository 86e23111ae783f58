SPECIFICATION MCSpec
CONSTANTS
  g1 = g1
  g2 = g2
  g3 = g3
  t1 = t1
  t2 = t2
  c1 = c1
  a = a
  b = b
  s = s
  None = None
  Grants <- MCGrants
  Targets <- MCTargets
  Contents <- MCContents
  SkillAdmins <- MCSkillAdmins
  SecurityAdmins <- MCSecurityAdmins
  Notes = {n1, n2}
  Texts = {text1, text2}
  Metas = {work, life}
  NoMeta = NoMeta
  EnrichJobs = {j1, j2}
  Tries = 2
  Requests = {r1, r2}
  MaxEntered = 1
  Nobody = Nobody
SYMMETRY NotesSymmetry
INVARIANTS FourEyes ReviewHasNote OneReview UserMetadataStands CheckedStands
PROPERTY DecisionsAreFacts
CHECK_DEADLOCK FALSE
