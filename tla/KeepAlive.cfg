SPECIFICATION FairKeepAlive
CONSTANTS
  IdleTicks = 2
  ResponseTicks = 2
  TokenCount = 4
  MaxRequests = 2
INVARIANTS
  RequestsSurviveTheWait
PROPERTIES
  PongAnswersThisPing
  SilentDeviceIsDropped
CHECK_DEADLOCK FALSE
