SPECIFICATION MCSpec
CONSTANTS
  p1 = p1
  p2 = p2
  r1 = r1
  r2 = r2
  s1 = s1
  s2 = s2
  v1 = v1
  v2 = v2
  NoPackage = NoPackage
  Processes = {p1, p2}
  Requests = {r1, r2}
  HostOf <- MCHostOf
  Skills = {s1, s2}
  PackagesOf <- MCPackagesOf
  LastRevision = 2
  MaxFaults = 1
INVARIANTS
  RunsUseOneRevision
PROPERTIES
  AcknowledgedIsServed
  Converges
CHECK_DEADLOCK FALSE
