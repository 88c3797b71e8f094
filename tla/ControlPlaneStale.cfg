SPECIFICATION Spec
CONSTANTS
  MaxMachines = 5
  Replicas = {3, 5}
  Versions = {1}
  MaxSurge = 1
  Established = {5}
  Budgets <- AfterDeletes
PROPERTY DeletesKeepHealthyMajority
CHECK_DEADLOCK FALSE
