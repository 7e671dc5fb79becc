SPECIFICATION Spec
CONSTANTS
  k1 = k1
  k2 = k2
  Keys = {k1, k2}
  Setups <- MCSetups
INVARIANTS
  TypeOK
  NoneIsStuck
  NoNeedlessRepeat
PROPERTIES
  UnfinishedIsMarked
  KeepsPromise
  AttemptsEnd
CHECK_DEADLOCK FALSE
