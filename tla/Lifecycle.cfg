SPECIFICATION FairSpec
CONSTANTS
  Names = {1, 2, 3, 4, 5, 6}
  Attempts = 2
  Bits = 3
  Scenarios <- SomeScenarios
INVARIANT LifecycleInv
PROPERTY OthersAreLeftAlone
PROPERTY TeardownEnds
PROPERTY MachinesArriveOrFailureShows
PROPERTY DeadlineReaches
CHECK_DEADLOCK FALSE
