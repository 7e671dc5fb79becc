SPECIFICATION Spec
CONSTANTS
  Budget <- MCSmallBudget
  SessionBudget <- MCSmallBudget
  Tools = {t1}
  HistoryCap = 1
  Caps <- MCCaps
  ExtendBy = {1}
  InputBudget = FALSE
  Detached = FALSE
  MaxTime = 4
  MaxTools = 1
INVARIANTS
  NoTicketLost
CHECK_DEADLOCK FALSE
