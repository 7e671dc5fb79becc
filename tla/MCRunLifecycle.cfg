SPECIFICATION Spec
CONSTANTS
  Budget <- MCBudget
  SessionBudget <- MCBudget
  Tools = {t1}
  HistoryCap = 1
  Caps <- MCCaps
  ExtendBy = {1, 3}
  InputBudget = TRUE
  Detached = FALSE
  MaxTime = 7
  MaxTools = 1
INVARIANTS
  TypeOK
  DeadlinesSound
  SettledOnce
  StopsAreHeard
  EndIsClean
  ObserverEndsWithRun
PROPERTIES
  OutcomeStays
  NoEarlyKill
  KeepsContract
CHECK_DEADLOCK FALSE
