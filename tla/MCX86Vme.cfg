SPECIFICATION Spec
CONSTANTS
  Space = {s1, s2}
  Page = {p1, p2, p3, p4, p5, p6}
  Frame = {f1}
  PtLevels = 2
  Index = {0, 1, 2}
  KernelTop = {0}
  UserPage <- MCUserPage
INVARIANTS KernelIntact PagesAccounted
PROPERTY ImplementsAddrSpaces
CHECK_DEADLOCK FALSE
