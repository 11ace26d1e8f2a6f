SPECIFICATION ShareSpec
CONSTANTS
  a1 = a1
  a2 = a2
  b1 = b1
  x1 = x1
  A = A
  B = B
  BadURL = BadURL
  Targets <- MCTargets
  Domains <- MCDomains
  DomainOf <- MCDomainOf
  MaxWorkers = 2
  Cap = 1
  MaxRounds = 2
  Cancellable = FALSE
INVARIANTS
  HostShare
CHECK_DEADLOCK FALSE
