SPECIFICATION Spec
CONSTANTS
  a1 = a1
  a2 = a2
  b1 = b1
  reports = reports
  nudge = nudge
  r1 = r1
  Stacks = {a1}
  Definitions = {reports}
  Requests = {r1}
  ProcessOf <- OneProcess
  Form <- MCForm
  Once <- Always
  At <- MCAt
  Tolerance = 0
  Attempts = 2
  MaxTime = 1
  MaxJumps = 0
  MaxChanges = 0
  MaxFaults = 1
INVARIANTS DoubtIsRemembered
CHECK_DEADLOCK FALSE
