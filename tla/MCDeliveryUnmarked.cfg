SPECIFICATION Spec
CONSTANTS
  k1 = k1
  k2 = k2
  Keys = {k1}
  Setups <- UnmarkedSetups
PROPERTIES
  NeverUnmarked
CHECK_DEADLOCK FALSE
