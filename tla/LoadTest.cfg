SPECIFICATION Spec
CONSTANTS
  Checks = {c1, c2, c3}
  MaxChecks = 3
  MaxRestarts = 1
  MaxRuns = 2
  Prefixes = {p1, p2}
INVARIANTS
  FailuresWithinTotal
  ScrapeCountsOnce
  ReportHonest
CHECK_DEADLOCK FALSE
