SPECIFICATION LockSpec
CONSTANTS
  p1 = p1
  p2 = p2
  p3 = p3
  Proc = {p1, p2}
  Gone = Gone
  Broken = Broken
  Nothing = Nothing
  Attempts = 4
  Left = {Broken}
  Dies = {}
  Ages = {"lock", "mutex"}
INVARIANT
  FreshLockStays
CHECK_DEADLOCK FALSE
