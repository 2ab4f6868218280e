SPECIFICATION RaceSpec
CONSTANTS
  p1 = p1
  p2 = p2
  p3 = p3
  Proc = {p1, p2, p3}
  Gone = Gone
  Broken = Broken
  Nothing = Nothing
  Attempts = 4
  Left = {Gone, Broken, Nothing}
  Dies = {"idle", "link", "read", "stat", "mkdir", "age", "clear", "reread", "unlink", "rmdir", "held", "release"}
  Ages = {"lock", "mutex"}
INVARIANTS
  OneHolder
  MutexNotLeft
PROPERTIES
  AcquireEnds
CHECK_DEADLOCK FALSE
