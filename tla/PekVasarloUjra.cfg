CONSTANTS
  N <- TwoPlaces
  MaxCrashes = 1
SPECIFICATION Spec
INVARIANT KenyerekSzama
CHECK_DEADLOCK FALSE
