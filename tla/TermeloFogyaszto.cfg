CONSTANTS
  Number <- ThreePlaces
  Rounds <- FiveRounds
  MaxCrashes = 1
SPECIFICATION Spec
INVARIANTS TypeOK MutualExclusion Accounting NoUseAfterRemoval NumbersArePlaces NothingLeftOver
PROPERTIES StoreSpec Terminates
