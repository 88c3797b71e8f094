SPECIFICATION FairSpec
CONSTANTS
  ReporterReliable = FALSE
  MaxFaults = 1
INVARIANT LeaveInv
INVARIANT NoLeaveDuringDrain
PROPERTY ImplementsSafeEviction
PROPERTY OrderedWrites
PROPERTY HookIsReleased
CHECK_DEADLOCK FALSE
