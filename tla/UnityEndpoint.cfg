SPECIFICATION Spec
CONSTANTS
  Threads = 2
  MaxConn = 2
  MaxCalls = 2
  MaxItems = 1
  MaxInbox = 2
CONSTRAINTS
  NotMixed
  OneKindOfCall
INVARIANTS
  QueueIsServed
  AnswersMatch
CHECK_DEADLOCK FALSE
