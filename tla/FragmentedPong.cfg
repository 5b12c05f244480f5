SPECIFICATION KeepAliveSpec
CONSTANTS
  IdleTicks = 2
  ResponseTicks = 2
  TokenCount = 4
  MaxRequests = 0
PROPERTIES
  PingWaitsItsTime
CHECK_DEADLOCK FALSE
