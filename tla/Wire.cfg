SPECIFICATION WireSpec
CONSTANTS
  Base = 128
  MaximumText = 2
  IllFormedBytes = {126}
  MaximumPayloadLength = 20
  ReceiveBufferLength = 57
  ReadLength = 32
  Messages <- SomeMessages
  Followers <- LastMessages
  Noise <- SomeNoise
  Slips = {0, 1, 65, 126}
  ReadSizes = {1, 7, 32}
INVARIANTS
  ParserTypeOK
  NextReadFits
  CutDoesNotMatter
  AcceptedIsEncoded
  UnderstoodIsActedUpon
PROPERTIES
  ParserTerminates
  ImplementsChannel
CHECK_DEADLOCK FALSE
