SPECIFICATION LiveSpec
CONSTANTS
  a1 = a1
  a2 = a2
  b1 = b1
  x1 = x1
  A = A
  B = B
  BadURL = BadURL
  Targets <- MCMixed
  Domains <- MCDomain
  DomainOf <- MCMixedOf
  MaxWorkers = 2
  Cap = 1
  MaxRounds = 2
  Cancellable = TRUE
INVARIANTS
  TypeOK
  SlotBound
  ReturnClean
  MetricsAgree
  CancelledFails
PROPERTIES
  RoundSpec
  CheckReturns
CHECK_DEADLOCK FALSE
