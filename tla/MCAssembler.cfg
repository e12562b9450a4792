CONSTANTS
  PacketInputs <- MCPackets
  MaxParallel = 2
  MaxPoints = 4
  MaxPackets = 2
  Timeout = 2
  MaxOpened = 4
SPECIFICATION LiveSpec
INVARIANTS
  FramesAreExact
  SlotsAreConsistent
  FramesAreAccounted
PROPERTY SlotsAreReleased
