CONSTANTS
  m1 = m1  m2 = m2  a1 = a1  e1 = e1  e2 = e2  none = none
  Deadman = 1
  ModeRequests <- MCOneMode
  AuthorityRequests <- MCNobody
  EstopRequests <- MCOneEstop
  NoRequest = none
  RequestedNames <- MCMove
  PolledStatuses <- MCStatuses
  PolledErrors <- MCNoError
  VelocityInputs <- MCNobody
  QueueCapacity = 1
  HeartbeatMax = 1
  BackoffInitial = 1
  BackoffMax = 1
  LossyReplies = TRUE
SPECIFICATION Spec
INVARIANT OnlyDampingAfterStop
