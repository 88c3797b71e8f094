SPECIFICATION FairSpec
CONSTANTS
  Machines = {1, 2, 3, 4}
  Foreign = {3}
  Present = {1, 2}
  Drifters = {1}
  Replicas = {1, 2}
  MaxID = 2
  MaxEvents = 1
  MaxStops = 1
INVARIANT OrphanInv
PROPERTY RemovalsAreSafe
PROPERTY EveryHoldEnds
PROPERTY OrphansGo
CHECK_DEADLOCK FALSE
