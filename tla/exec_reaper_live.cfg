SPECIFICATION Spec
CONSTANTS
  Jobs = {j1}
  MaxAttempts = 2
  FailureThreshold = 2
  SuccessThreshold = 2
  None = None
  MaxOutages = 0
  MaxCrashes = 0
  MaxFailures = 0
\* The system may rest: every job is done and the reaper has nothing to do.
CHECK_DEADLOCK FALSE
PROPERTIES
  ReaperSparesLive
