SPECIFICATION Spec
CONSTANTS
  a1 = a1
  a2 = a2
  b1 = b1
  reports = reports
  nudge = nudge
  r1 = r1
  Stacks = {a1, b1}
  Definitions = {reports, nudge}
  Requests = {}
  ProcessOf <- OwnProcess
  Form <- MCForm
  Once <- OnlyReports
  At <- MCAt
  Tolerance = 1
  Attempts = 2
  MaxTime = 3
  MaxJumps = 0
  MaxChanges = 1
  MaxFaults = 1
INVARIANTS TypeOK CountersReconcile OwnersKeepRuns
SYMMETRY StackSymmetry
PROPERTIES ImplementsContract
CHECK_DEADLOCK FALSE
