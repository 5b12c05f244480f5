SPECIFICATION SessionSpec
CONSTANTS
  a = a
  b = b
  Ids = {a, b}
  Names = {a, b}
  NoId = noId
  OversizedName = tooLong
  Rank <- MCRank
  Plugged <- MCPlugged
  RoleOutcomes <- MCOutcomes
  ListLimit = 2
  MaxHandle = 2
  MaxEndpoints = 2
  MaxGeneration = 8
  GenerationLimit = 8
  MaxRequestId = 3
  MaxChanges = 1
  Budget = 1
  BreakWeight = 1
  PressWeight = 0
  ChangeWeight = 1
  MaxPresses = 0
  HandleChoices <- NoChoices
  RoleChoices = {}
  CountChoices = {}
PROPERTIES
  HandleKeepsEndpoint
