CONSTANTS
  N <- TwoPlaces
  MaxCrashes = 0
SPECIFICATION Spec
PROPERTY GyerekekVege
CHECK_DEADLOCK FALSE
