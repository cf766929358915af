SPECIFICATION FairSpec
CONSTANTS
  Clients = {c1, c2}
  MaxAttempts = 2
  Payloads = {p1, p2}
  None = None
  MaxFaults = 1
  MaxBoots = 1
\* The system may rest: every client has its answer.
CHECK_DEADLOCK FALSE
INVARIANTS
  TypeOK
  LockExclusion
  AtMostOnce
  AnswersAgree
  AnswerDurable
  AnswerWillSettle
PROPERTIES
  RequestsAnswered
