CONSTANTS
  N = 3
  TestDesigner = 2
  MaxRetries = 1
  MaxTotalRepairs = 12
SPECIFICATION Spec
INVARIANTS AnnouncedStopIsNotDone
CHECK_DEADLOCK FALSE
