SPECIFICATION Spec
CONSTANTS
  Clients = {c1}
  MaxAttempts = 2
  Payloads = {p1}
  None = None
  MaxFaults = 0
  MaxBoots = 0
\* The system may rest: every client has its answer.
CHECK_DEADLOCK FALSE
INVARIANTS
  RetryNotDead
