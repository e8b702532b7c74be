SPECIFICATION BothSpec
CONSTANTS
  c1 = c1
  q1 = q1
  s1 = s1
  s2 = s2
  s3 = s3
  r1 = r1
  Calls <- OneCall
  Queries <- OneQuery
  Requests <- MCRequests
  MaxStarts = 3
  MaxEvents = 2
  MaxInbox = 3
  MaxDisconnects = 1
INVARIANTS
  CallsSettleRightly
  ServerFollowsListeners
PROPERTIES
  AttemptsGoOn
CHECK_DEADLOCK FALSE
