CONSTANTS
  N <- FourPlaces
  MaxCrashes = 1
SPECIFICATION Spec
INVARIANTS TypeOK MutualExclusion Accounting NeverBothWait
PROPERTIES ShelfSpec EndsUnlessLeftAlone
CHECK_DEADLOCK FALSE
