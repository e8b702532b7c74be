SPECIFICATION Spec
CONSTANTS
  s1 = s1
  s2 = s2
  s3 = s3
  r1 = r1
  r2 = r2
  r3 = r3
  Sockets <- MCSockets
  Requests <- TwoRequests
  FirstSocket <- s1
  MaxDisconnects = 1
SYMMETRY Symmetry
INVARIANT EachRequestOnce
INVARIANT RetryScheduled
INVARIANT TimeoutOnlyWhileConnecting
INVARIANT StaleSocketsAreSilent
INVARIANT StatusIsAccurate
PROPERTY ImplementsTransport
CHECK_DEADLOCK FALSE
