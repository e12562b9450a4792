CONSTANTS
  m1 = m1  m2 = m2  a1 = a1  e1 = e1  e2 = e2  none = none
  Deadman = 1
  ModeRequests <- MCTwoModes
  AuthorityRequests <- MCOneAuth
  EstopRequests <- MCNobody
  NoRequest = none
  RequestedNames <- MCMoveStand
  PolledStatuses <- MCTwoStatuses
  PolledErrors <- MCErrors
  VelocityInputs <- MCNobody
  QueueCapacity = 1
  HeartbeatMax = 1
  BackoffInitial = 1
  BackoffMax = 6
  LossyReplies = TRUE
SPECIFICATION Spec
SYMMETRY Callers
INVARIANTS
  TypeOK
  EveryPromiseOwned
  PendingHasCarrier
  NothingQueuedOffline
  GateNeverAhead
  ReadyOnlyInSession
PROPERTY BackoffDiscipline
