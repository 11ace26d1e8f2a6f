SPECIFICATION Spec
CONSTANTS
  tab1 = tab1
  tab2 = tab2
  t1 = t1
  r1 = r1
  r2 = r2
  Nobody = Nobody
  Tabs <- MCTabs
  Requests <- MCRequests
  Targets <- MCTargets
  Buffer = 2
  DBFails = FALSE
PROPERTIES
  RowBeforeStream
