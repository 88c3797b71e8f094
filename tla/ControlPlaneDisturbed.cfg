SPECIFICATION Spec
CONSTANTS
  MaxMachines = 5
  Replicas = {1, 3}
  Versions = {1, 2}
  MaxSurge = 1
  Established = {0}
  Budgets <- Everything
INVARIANT ControlPlaneInv
INVARIANT OneJoinerAtATime
INVARIANT OneFounder
CHECK_DEADLOCK FALSE
