SPECIFICATION FairSpec
CONSTANTS
  Jobs = {j1}
  MaxAttempts = 2
  FailureThreshold = 2
  SuccessThreshold = 2
  None = None
  MaxOutages = 1
  MaxCrashes = 1
  MaxFailures = 1
\* The system may rest: every job is done and the reaper has nothing to do.
CHECK_DEADLOCK FALSE
INVARIANTS
  TypeOK
  NoReexecution
  OutputIsOwn
  JobLeavesNothing
  RecordMatchesRun
PROPERTIES
  JobsFinish
  LeaksReclaimed
  OpensAfterConsecutive
  ClosesAfterConsecutive
