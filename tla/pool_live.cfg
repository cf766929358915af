SPECIFICATION FairSpec
CONSTANTS
  Jobs = {j1, j2}
  Workers = {w1}
  Cancellers = {c1}
  NoJob = NoJob
  MaxQueueSize = 1
  MaxFaults = 0
  MaxBoots = 1
\* The system may rest: every job settled and no client with a further request,
\* or the process gone and its restarts used up.
CHECK_DEADLOCK FALSE
PROPERTIES
  WaitersReleased
  RowsSettle
