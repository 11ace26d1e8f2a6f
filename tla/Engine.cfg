SPECIFICATION LiveSpec
CONSTANTS
  t1 = t1
  t2 = t2
  Targets <- MCTargets
  Outcomes <- MCOutcomes
  MaxCount = 1
INVARIANTS
  TypeOK
  StatsIncludeCheck
  TickRecordsAll
PROPERTIES
  RunReturns
  TargetShown
CHECK_DEADLOCK FALSE
