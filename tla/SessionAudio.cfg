SPECIFICATION SessionSpec
CONSTANTS
  a = a
  b = b
  Ids = {a, b}
  Names = {a, b}
  NoId = noId
  OversizedName = tooLong
  Rank <- MCRank
  Plugged <- MCPlugged
  RoleOutcomes <- MCOutcomes
  ListLimit = 2
  MaxHandle = 2
  MaxEndpoints = 2
  MaxGeneration = 8
  GenerationLimit = 8
  MaxRequestId = 3
  MaxChanges = 2
  Budget = 6
  BreakWeight = 2
  PressWeight = 1
  ChangeWeight = 3
  MaxPresses = 1
  HandleChoices <- NoChoices
  RoleChoices = {}
  CountChoices = {}
INVARIANTS
  GenerationNamesSnapshot
  OneRequestUnderWay
