SPECIFICATION LiveSpec
CONSTANTS
  k1 = k1
  c1 = c1
  c2 = c2
  None = None
  Closer = Closer
  Keys <- MCKeys
  Callers <- MCCallers
  RatePerSecond = 2
  Watched = k1
  WindowTicks = 3
INVARIANTS
  TypeOK
  OneBucketPerKey
  WindowBound
PROPERTIES
  TBSpec
  BucketsClosed
  WaitReturns
  RefillsStop
CHECK_DEADLOCK FALSE
