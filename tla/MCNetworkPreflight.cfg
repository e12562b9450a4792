CONSTANTS
  MaxOutput = 2
  PipeCapacity = 1
  Endless = FALSE
  OwnStatuses <- MCOwnStatuses
  AddrLines <- MCAddrLines
  RouteLines <- MCRouteLines
  HostAddress <- MCHost
  Interface = "eno1"
SPECIFICATION LiveSpec
INVARIANTS
  NothingLeftBehind
  SignalsOwnChild
  HonestResult
  ReadyIsSound
PROPERTY CommandReturns
