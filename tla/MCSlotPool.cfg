SPECIFICATION Spec
CONSTANTS
  r1 = r1
  r2 = r2
  r3 = r3
  r4 = r4
  Runs = {r1, r2, r3, r4}
  Limits = {0, 1, 2}
  QueueTimer = TRUE
INVARIANTS
  Accounting
  NoIdleSlot
PROPERTIES
  ServedInOrder
  KeepsBound
  WaitsEnd
CHECK_DEADLOCK FALSE
