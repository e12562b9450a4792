CONSTANTS
  Deadman = 2
  VelocityInputs <- MCVelocityInputs
SPECIFICATION Spec
INVARIANTS
  GateHolds
  TickIsFresh
PROPERTIES
  GateOpensOnConfirmedMove
  ReleaseRestoresNothing
