SPECIFICATION FairSpec
CONSTANTS
  s1 = s1
  s2 = s2
  s3 = s3
  r1 = r1
  r2 = r2
  r3 = r3
  Sockets <- TwoSockets
  Requests <- OneRequest
  FirstSocket <- s1
  MaxDisconnects = 0
PROPERTY RequestsAreProcessed
CHECK_DEADLOCK FALSE
