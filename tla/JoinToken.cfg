SPECIFICATION FairSpec
CONSTANTS
  TTL = 2
  RenewWithin = 2
  ExtendCap = 3
  Servers = {"s1", "s2"}
  MaxTokens = 2
  MaxJoiners = 2
INVARIANT JoinTokenInv
INVARIANT TokenOutlivesOutages
PROPERTY EveryTokenLapses
CHECK_DEADLOCK FALSE
