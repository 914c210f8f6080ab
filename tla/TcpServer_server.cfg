SPECIFICATION Spec
CONSTANTS
  Fds <- ThreeFds
  Scripts <- Requests
  Limits <- ConnectionLimits
  HeadLength = 2
  ReplyLength = 1
  LengthLimit = 2
  Capacity = 5
  MaxClients = 4
INVARIANTS
  MessagesAreWhole
  DeafOnlyAfterReply
  LossHasCause
PROPERTIES
  FirstRequestIsHandled
CHECK_DEADLOCK FALSE
