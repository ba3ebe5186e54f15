\* Two choices and one report over two students.
SPECIFICATION Spec
CONSTANTS
  s1 = s1
  s2 = s2
  k1 = k1
  k2 = k2
  r1 = r1
  Students = {s1, s2}
  Registered = {s1}
  Clicks = {k1, k2}
  Reports = {r1}
  MinStudents = 2
  MinAttempts = 1
  MaxVersion = 1
  MaxAttempts = 1
SYMMETRY Symmetry
INVARIANTS
  VisibilityFollowsTrail
  HiddenStudentsUnnamed
  AccessLeavesTrace
  ReportsAddUp
