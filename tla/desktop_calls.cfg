SPECIFICATION FairDesktopSpec
CONSTANTS
  c1 = c1
  c2 = c2
  here = here
  there = there
  Call = {c1, c2}
  Place = {here, there}
  Size = {1, 2}
  MaxActions = 2
  MaxCaptures = 2
  MaxBytes = 3
INVARIANTS
  OncePerCall
  LockDrains
  CapsHold
PROPERTY EveryCallEnds
CHECK_DEADLOCK FALSE
