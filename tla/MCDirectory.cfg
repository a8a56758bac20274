SPECIFICATION MCSpec
CONSTANTS
  Request = {p1, p2}
  User = {u1, u2}
  None = None
  CustomRole = {r1}
  SystemPermission = {c1}
  SelfPermission = {c1}
  CustomPermission = {k1}
  FreeRole = {"USER", "AUDITOR"}
  Segment = {s1, s2, s3}
  Level = {1, 2}
  MaxDepth = 3
SYMMETRY MCSymmetry
INVARIANTS AdminKeepsCatalogue AdministratorRemains ForestUnlessMovesCross LevelsForbidCycles
