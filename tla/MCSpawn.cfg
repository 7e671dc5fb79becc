SPECIFICATION Spec
CONSTANTS
  r1 = r1
  r2 = r2
  r3 = r3
  r4 = r4
  Runs = {r1, r2, r3, r4}
  None = None
  Earlier = {r4}
  MaxDepth <- MCMaxDepth
  MaxStacks = 2
INVARIANTS
  TypeOK
  StopReachesChildren
PROPERTIES
  FileIsExclusive
SYMMETRY RunSymmetry
CHECK_DEADLOCK FALSE
