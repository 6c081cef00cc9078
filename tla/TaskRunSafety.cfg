SPECIFICATION Spec
CONSTANTS
  Configs <- AllConfigs
  Canceller = TRUE
INVARIANTS
  TypeOK
  OutcomeRecorded
  LeaseScoped
  RunsCounted
PROPERTIES
  SuccessKept
CHECK_DEADLOCK FALSE
