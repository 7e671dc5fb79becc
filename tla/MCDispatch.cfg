SPECIFICATION Spec
CONSTANTS
  Keys = {"k1", "k2"}
  Setups <- MCSetups
  Epochs = 2
  MaxCalls = 2
INVARIANTS
  TypeOK
  SlotIsHeld
  NewestIsNotForgotten
  EndsAreTold
PROPERTIES
  CallsAreRightful
  RevokedIsNotSent
CHECK_DEADLOCK FALSE
