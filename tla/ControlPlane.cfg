SPECIFICATION FairSpec
CONSTANTS
  MaxMachines = 17
  Replicas = {3, 5}
  Versions = {1, 2}
  MaxSurge = 1
  Established = {0, 3, 5}
  Budgets <- QuietOrLag
PROPERTY AddBeforeRemove
PROPERTY Converges
INVARIANT QuorumOnlyLostToAJoin
PROPERTY DeletesKeepHealthyMajority
CHECK_DEADLOCK FALSE
