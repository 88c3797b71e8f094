SPECIFICATION FairSpec
CONSTANTS
  Names = {1, 2, 3, 4, 5, 6}
  Attempts = 2
  Bits = 3
  Scenarios <- LateTemplate
PROPERTY LateTemplateIsUsed
CHECK_DEADLOCK FALSE
