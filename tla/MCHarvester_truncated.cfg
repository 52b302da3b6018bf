CONSTANTS
    Case = "truncated"
    Setups <- MCSetups
SPECIFICATION Spec
CHECK_DEADLOCK FALSE
INVARIANT NothingPassedOver
