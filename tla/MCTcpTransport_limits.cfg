SPECIFICATION Spec
CHECK_DEADLOCK FALSE
CONSTANTS
  a1 = a1
  a2 = a2
  Wrapped = TRUE
  PendingLimits = {1, 2}
  InitialLimits <- Lowered
  EventChanCap = 2
  Addresses <- MCAddresses
  Reachable = {a2}
  Reconnect = 0
  ReconnectMax = 3
  MaxFaults = 2
INVARIANT StuckExplained
