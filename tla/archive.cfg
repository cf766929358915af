SPECIFICATION Spec
CONSTANTS
  Ids = {e1, e2}
  Servers = {s1, s2}
  None = None
  Torn = Torn
  NoJob = NoJob
  NoRow = NoRow
  NoDir = NoDir
  Migrations = 1
  MaxOps = 4
  TTL = 1
  WsAge = 2
  Budget = 1
  MaxAttempts = 3
  MaxTime = 3
\* The system may rest: no request is left.
CHECK_DEADLOCK FALSE
SYMMETRY Symmetry
INVARIANTS
  TypeOK
  LineageFaithful
  RetainedRowHasFiles
  LiveWorkspaceKept
  SchemaSound
