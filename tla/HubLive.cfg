SPECIFICATION LiveSpec
CONSTANTS
  tab1 = tab1
  tab2 = tab2
  monitor = monitor
  create = create
  None = None
  Clients <- MCOneClient
  Publishers <- MCPublishers
  Buffer = 1
  MaxEvents = 3
PROPERTIES
  PublishReturns
  GoneUnsubscribed
  SignalEndsReaders
CHECK_DEADLOCK FALSE
