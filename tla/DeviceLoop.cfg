SPECIFICATION DeviceLoopSpec
CONSTANTS
  SendQueueLength = 3
  Pieces = 2
  RadioRoom = 2
  NoFrame = NoFrame
  ClockRange = 8
  ErrorTime = 2
  NumberRange = 3
  NonceRange = 3
  MaxSessions = 3
  MaxPrograms = 2
  MaxEarlier = 1
  MaxAsked = 2
INVARIANTS
  AcceptedAnswerIsOurs
  UsedSessionIsShown
PROPERTIES
  RingIsAQueue
  ErrorLastsItsTime
