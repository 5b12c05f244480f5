SPECIFICATION Spec
CONSTANTS
  Ids = {a, b}
  NoId = NoId
  ListLimit = 2
INVARIANTS
  ResultIsAccurate
