SPECIFICATION Spec
CONSTANTS
  Names = {n1}
  OversizedName = tooLong
  MaxHandle = 3
  MaxGeneration = 2
  MaxEndpoints = 2
  MaxRequestId = 2
  HandleChoices <- ListHandles
  RoleChoices <- ListRoles
  CountChoices <- ListCounts
INVARIANTS
  TypeOK
  ActiveWellFormed
  CyclingIsInvertible
  RequestNamesCommitted
  ModesExclusive
PROPERTIES
  ListReplacedWhole
  RefusedCallIsHarmless
  AwaitedListArrives
  ImplementsContract
