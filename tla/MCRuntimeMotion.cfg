CONSTANTS
  m1 = m1  m2 = m2  a1 = a1  e1 = e1  e2 = e2  none = none
  Deadman = 1
  ModeRequests <- MCOneMode
  AuthorityRequests <- MCNobody
  EstopRequests <- MCNobody
  NoRequest = none
  RequestedNames <- MCMove
  PolledStatuses <- MCTwoStatuses
  PolledErrors <- MCNoError
  VelocityInputs <- MCVelocity
  QueueCapacity = 1
  HeartbeatMax = 2
  BackoffInitial = 1
  BackoffMax = 1
  LossyReplies = FALSE
SPECIFICATION LiveSpec
PROPERTIES
  EveryRequestAnswered
  StopTerminates
  MotionIsStopped
