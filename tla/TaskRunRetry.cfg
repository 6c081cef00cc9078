SPECIFICATION Spec
CONSTANTS
  Configs <- PlainConfigs
  Canceller = FALSE
PROPERTIES
  NoRetryOnceCancelled
CHECK_DEADLOCK FALSE
