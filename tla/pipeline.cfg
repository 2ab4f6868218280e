CONSTANTS
  N = 4
  TestDesigner = 2
  MaxRetries = 2
  MaxTotalRepairs = 2
SPECIFICATION FairSpec
INVARIANT DoneMeansSettled
PROPERTIES GateSpec Termination
CHECK_DEADLOCK FALSE
