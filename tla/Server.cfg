SPECIFICATION LiveSpec
CONSTANTS
  short = short
  stream = stream
  Files <- MCFiles
  Environments <- MCEnvironments
  MaxInt = 32767
  Second = 1000
  Requests <- MCRequests
  Kind <- MCKind
  MaxTargets = 2
  Workers = 1
  ShutdownTimeout = 2
  CheckTimeout = 2
  DbOpTimeout = 1
  GraceExtra = 1
INVARIANTS
  TypeOK
  Precedence
  CleanStop
  StreamsLetGo
  ExitBound
  InFlightFinish
PROPERTIES
  SignalExits
CHECK_DEADLOCK FALSE
