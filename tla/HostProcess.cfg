SPECIFICATION HostSpec
CONSTANTS
  Me = me
  Instances = {me, p, q}
  Debounce = 2
  MaxNotices = 2
  InitialDelay = 1
  MaximumDelay = 4
  Duration = 4
  MaxFailures = 3
  ManyFailures = 2
  PairedLists <- MCPairedLists
INVARIANTS
  OneResident
  WaitFollowsFailures
  NoChangeIsMissed
PROPERTIES
  ShutdownIsObeyed
  SelectorIsReached
