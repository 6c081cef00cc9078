SPECIFICATION FairSpec
CONSTANTS
  Configs <- PlainConfigs
  Canceller = TRUE
PROPERTIES
  ApiCancelHonoured
CHECK_DEADLOCK FALSE
