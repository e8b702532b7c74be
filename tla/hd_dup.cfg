SPECIFICATION WatchSpec
CONSTANTS
  WatchHeight = 3
  Versions = 1
  Listeners = 1
  MaxPolls = 2
  WatchFaults = 0
PROPERTY NoDuplicateHeaders
CHECK_DEADLOCK FALSE
