SPECIFICATION Spec
CONSTANTS
  tab1 = tab1
  tab2 = tab2
  monitor = monitor
  create = create
  None = None
  Clients <- MCClients
  Publishers <- MCPublishers
  Buffer = 1
  MaxEvents = 3
SYMMETRY MCSymmetry
INVARIANTS
  TypeOK
  ClientsLive
  InOrder
PROPERTIES
  BroadcastSpec
CHECK_DEADLOCK FALSE
