SPECIFICATION FairSpec
CONSTANTS
  CAs = {1, 2}
  Servers = {1}
  Pushes <- SomePushes
  Legacy <- SomeLegacy
  Files <- SomeFiles
  PoolSize = 1
  Budgets <- SomeBudgets
INVARIANT FallbackInv
PROPERTY ReadyIsUsable
PROPERTY PublishedIsPinned
PROPERTY SecretSettles
PROPERTY ReadyIsReported
CHECK_DEADLOCK FALSE
