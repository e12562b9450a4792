CONSTANTS
  a1 = a1  a2 = a2  d1 = d1  d2 = d2  nobody = nobody
  Apps <- MCOneApp
  Deliveries <- MCTwoDeliveries
  Topics <- MCTopics
  Nobody = nobody
  MaxInits = 3
SPECIFICATION LiveSpec
INVARIANTS
  TypeOK
  NoCallbackAfterDeinit
  NothingInherited
  VendorInStep
PROPERTY TeardownEnds
