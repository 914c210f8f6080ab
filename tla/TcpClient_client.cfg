SPECIFICATION Spec
CONSTANTS
  Never = 99
  HeadLength = 2
  Lens <- Bodies
  Scripts <- Servers
  Capacity = 6
  RetryDelay = 2
  Delays <- DelaysOfTimers
  LastTime = 4
  MaxConnects = 2
  MaxSends = 2
  MaxTimers <- TimersFor
INVARIANTS
  MessagesAreWhole
  TimersInPlace
PROPERTIES
  FirstFailureIsRetried
CHECK_DEADLOCK FALSE
