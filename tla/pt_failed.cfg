SPECIFICATION PostSpec
CONSTANTS
  PostHeight = 3
  Slots = {p1}
  PostFaults = 0
INVARIANT FailureIsReported
CHECK_DEADLOCK FALSE
