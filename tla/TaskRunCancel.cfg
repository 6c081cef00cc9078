SPECIFICATION FairSpec
CONSTANTS
  Configs <- PlainConfigs
  Canceller = FALSE
PROPERTIES
  CancelHonoured
CHECK_DEADLOCK FALSE
