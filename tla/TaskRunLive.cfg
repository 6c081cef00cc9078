SPECIFICATION FairSpec
CONSTANTS
  Configs <- LiveConfigs
  Canceller = FALSE
PROPERTIES
  Terminates
CHECK_DEADLOCK FALSE
