SPECIFICATION FairSpec
CONSTANTS
  MaxTokens = 3
  RefreshCap = 3
  Scenarios <- SomeScenarios
INVARIANT BootstrapInv
INVARIANT FirstRenderIsComplete
INVARIANT HeldTokenIsKept
PROPERTY StepsAreSafe
PROPERTY BootstrapDataArrives
PROPERTY TokenAndObjectEnd
