SPECIFICATION Spec
CONSTANTS
  Directions = {"up", "left"}
  DebounceTicks = 2
  LongTicks = 3
  MaxStep = 2
  MaxBounce = 2
  Wrap = 10
INVARIANTS
  OneEventPerGesture
PROPERTIES
  OnlySingleButtonsSpeak
  HoldTimeDecides
  LockEnds
