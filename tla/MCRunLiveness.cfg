SPECIFICATION Spec
CONSTANTS
  Budget <- MCSmallBudget
  SessionBudget <- MCSmallBudget
  Tools = {t1, t2}
  HistoryCap = 2
  Caps <- MCNoCap
  ExtendBy = {1}
  InputBudget = FALSE
  Detached = FALSE
  MaxTime = 4
  MaxTools = 2
INVARIANTS
  ToolPhaseCounts
PROPERTIES
  EveryRunReturns
  SessionIsReaped
CHECK_DEADLOCK FALSE
