SPECIFICATION FairSpec
CONSTANTS
  CAs = {1, 2}
  Servers = {1}
  Pushes <- SomePushes
  Legacy <- SomeLegacy
  Files <- SomeFiles
  PoolSize = 1
  Budgets <- BusyPool
PROPERTY DialingEnds
CHECK_DEADLOCK FALSE
