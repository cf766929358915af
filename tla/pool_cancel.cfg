SPECIFICATION Spec
CONSTANTS
  Jobs = {j1, j2}
  Workers = {w1}
  Cancellers = {c1, c2}
  NoJob = NoJob
  MaxQueueSize = 1
  MaxFaults = 2
  MaxBoots = 0
\* The system may rest: every job settled and no client with a further request,
\* or the process gone and its restarts used up.
CHECK_DEADLOCK FALSE
SYMMETRY Symmetry
INVARIANTS
  ResultMatchesRow
  NoStrandedEntry
  WaiterServed
PROPERTIES
  CancelledBeforeStartNeverRuns
  ReportedStatusIsFinal
